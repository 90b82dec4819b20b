--------------------------- MODULE SessionManager ---------------------------
(***************************************************************************)
(* The relay server's session registry (session/mod.rs), the task that     *)
(* serves one client transport (relay/connection.rs, handle_client) and    *)
(* the task of one X11 connection (x11_listener.rs).  Every map of the     *)
(* registry has a lock of its own and every operation takes several of     *)
(* them one after the other, so each critical section is a step.           *)
(* A transport's grace task starts when its relay task ends; one program   *)
(* counter per transport serves both.                                      *)
(***************************************************************************)
EXTENDS Integers, FiniteSets

CONSTANTS
    Clients,    \* transports, one per connected client
    NoClient,
    Displays,   \* display numbers
    Conns,      \* X11 connections applications open
    MaxConns,   \* MAX_X11_CONNECTIONS_PER_DISPLAY
    MaxOpened   \* bound: sessions one transport creates or resumes

ASSUME RegistryAssumption ==
    /\ NoClient \notin Clients
    /\ Displays \subseteq Nat /\ Displays # {}
    /\ MaxConns \in Nat \ {0}
    /\ MaxOpened \in Nat

VARIABLES
    sessions,    \* display -> session
    bound,       \* displays whose X11 port has a listener
    cookie,      \* display -> whose cookie xauth holds
    ingress,     \* conn_to_relay: display -> transport that serves it
    grace,       \* grace_tasks: display -> transport whose flag is armed
    cancelled,   \* transport -> its grace task's `cancelled` flag
    connections, \* registered X11 connections
    index,       \* display_conns: display -> connections
    pc,          \* transport -> where its relay or grace task stands
    target,      \* transport -> display the operation in progress is about
    todo,        \* grace task -> sessions still to destroy
    doomed,      \* grace task -> all it set out to destroy
    closing,     \* transport -> connections a destroy took off the index
    opened,      \* transport -> sessions it created or resumed
    xpc,         \* X11 connection -> where its task stands
    display,     \* X11 connection -> its display
    relay,       \* X11 connection -> transport whose queue it took
    app          \* X11 connection -> how its application takes what is written

registry == <<sessions, bound, cookie, ingress>>
graceVars == <<grace, cancelled>>
connVars == <<connections, index>>
taskVars == <<pc, target, todo, doomed, closing, opened>>
pumpVars == <<xpc, display, relay, app>>
vars == <<registry, graceVars, connVars, taskVars, pumpVars>>

NoSession == [maker |-> NoClient, client |-> NoClient]
Session == [maker : Clients, client : Clients]

CreatePC == {"bind", "cookie", "insert", "unwind", "undo_port", "undo_cookie"}
DestroyPC == {"d_flag", "d_port", "d_index", "d_close", "d_send", "d_cookie",
              "d_ingress", "d_session"}
GracePC == {"sleeping", "look", "next", "tail"}
TaskPC == {"absent", "serving", "unflag", "ack", "unroute", "leaving",
           "release", "gone"} \cup CreatePC \cup DestroyPC \cup GracePC
PumpPC == {"idle", "wait", "check", "insert", "index", "announce", "running",
           "unregister", "done"}
\* It reads; or the pump is inside `write_all`; or its channel is full as well.
AppState == {"reads", "stalls", "clogs"}

TypeOK ==
    /\ sessions \in [Displays -> Session \cup {NoSession}]
    /\ bound \subseteq Displays
    /\ cookie \in [Displays -> Clients \cup {NoClient}]
    /\ ingress \in [Displays -> Clients \cup {NoClient}]
    /\ grace \in [Displays -> Clients \cup {NoClient}]
    /\ cancelled \in [Clients -> BOOLEAN]
    /\ connections \subseteq Conns
    /\ index \in [Displays -> SUBSET Conns]
    /\ pc \in [Clients -> TaskPC]
    /\ target \in [Clients -> Displays]
    /\ todo \in [Clients -> SUBSET Displays]
    /\ doomed \in [Clients -> SUBSET Displays]
    /\ closing \in [Clients -> SUBSET Conns]
    /\ opened \in [Clients -> Nat]
    /\ xpc \in [Conns -> PumpPC]
    /\ display \in [Conns -> Displays]
    /\ relay \in [Conns -> Clients \cup {NoClient}]
    /\ app \in [Conns -> AppState]

Init ==
    /\ sessions = [d \in Displays |-> NoSession]
    /\ bound = {}
    /\ cookie = [d \in Displays |-> NoClient]
    /\ ingress = [d \in Displays |-> NoClient]
    /\ grace = [d \in Displays |-> NoClient]
    /\ cancelled = [c \in Clients |-> FALSE]
    /\ connections = {}
    /\ index = [d \in Displays |-> {}]
    /\ pc = [c \in Clients |-> "absent"]
    /\ target = [c \in Clients |-> CHOOSE d \in Displays : TRUE]
    /\ todo = [c \in Clients |-> {}]
    /\ doomed = [c \in Clients |-> {}]
    /\ closing = [c \in Clients |-> {}]
    /\ opened = [c \in Clients |-> 0]
    /\ xpc = [x \in Conns |-> "idle"]
    /\ display = [x \in Conns |-> CHOOSE d \in Displays : TRUE]
    /\ relay = [x \in Conns |-> NoClient]
    /\ app = [x \in Conns |-> "reads"]

Goto(c, l) == pc' = [pc EXCEPT ![c] = l]

\* The step moves the task and nothing else of its own state.
Continue(c, l) ==
    /\ Goto(c, l)
    /\ UNCHANGED <<target, todo, doomed, closing, opened>>

\* The task turns to an operation on display d.
Turn(c, d, l) ==
    /\ Goto(c, l)
    /\ target' = [target EXCEPT ![c] = d]

OwnedBy(c) == {d \in Displays : sessions[d].client = c}

-----------------------------------------------------------------------------
(* create_session_at: port, cookie, session, unwound when a later step fails *)

\* The handshake has succeeded and relay_loop runs.
Connect(c) ==
    /\ pc[c] = "absent"
    /\ Continue(c, "serving")
    /\ UNCHANGED <<registry, graceVars, connVars, pumpVars>>

\* SessionCreate names a display.
Create(c, d) ==
    /\ pc[c] = "serving"
    /\ opened[c] < MaxOpened
    /\ Turn(c, d, "bind")
    /\ UNCHANGED <<todo, doomed, closing, opened, registry, graceVars, connVars,
                   pumpVars>>

\* SessionAutoCreate takes the first display that has no session.
CreateAuto(c) ==
    \E d \in Displays :
        /\ sessions[d] = NoSession
        /\ \A e \in Displays : e < d => sessions[e] # NoSession
        /\ Create(c, d)

\* bind_display: fails when the port has a listener (or for any other reason).
Bind(c) ==
    /\ pc[c] = "bind"
    /\ \/ /\ target[c] \notin bound
          /\ bound' = bound \cup {target[c]}
          /\ Continue(c, "cookie")
       \/ /\ bound' = bound
          /\ Continue(c, "serving")
    /\ UNCHANGED <<sessions, cookie, ingress, graceVars, connVars, pumpVars>>

\* xauth_add, which may fail.
AddCookie(c) ==
    /\ pc[c] = "cookie"
    /\ \/ /\ cookie' = [cookie EXCEPT ![target[c]] = c]
          /\ Continue(c, "insert")
       \/ /\ cookie' = cookie
          /\ Continue(c, "unwind")
    /\ UNCHANGED <<sessions, bound, ingress, graceVars, connVars, pumpVars>>

\* The session is registered, or the display turns out to be in use.
InsertSession(c) ==
    /\ pc[c] = "insert"
    /\ \/ /\ sessions[target[c]] = NoSession
          /\ sessions' = [sessions EXCEPT ![target[c]] = [maker |-> c, client |-> c]]
          /\ opened' = [opened EXCEPT ![c] = @ + 1]
          /\ Goto(c, "ack")
       \/ /\ sessions[target[c]] # NoSession
          /\ UNCHANGED <<sessions, opened>>
          /\ Goto(c, "undo_port")
    /\ UNCHANGED <<target, todo, doomed, closing, bound, cookie, ingress,
                   graceVars, connVars, pumpVars>>

\* unbind_display on a failure path.
UndoPort(c) ==
    /\ pc[c] \in {"unwind", "undo_port"}
    /\ bound' = bound \ {target[c]}
    /\ Continue(c, IF pc[c] = "unwind" THEN "serving" ELSE "undo_cookie")
    /\ UNCHANGED <<sessions, cookie, ingress, graceVars, connVars, pumpVars>>

\* xauth_remove on the failure path of an occupied display.
UndoCookie(c) ==
    /\ pc[c] = "undo_cookie"
    /\ cookie' = [cookie EXCEPT ![target[c]] = NoClient]
    /\ Continue(c, "serving")
    /\ UNCHANGED <<sessions, bound, ingress, graceVars, connVars, pumpVars>>

-----------------------------------------------------------------------------
(* try_resume_session and send_session_ack                                   *)

\* Mutant: a session that has been destroyed meanwhile is put back.
ResumeUnchecked(c, d) ==
    /\ pc[c] = "serving"
    /\ opened[c] < MaxOpened
    /\ sessions' = [sessions EXCEPT ![d] = [maker |-> @.maker, client |-> c]]
    /\ opened' = [opened EXCEPT ![c] = @ + 1]
    /\ Turn(c, d, "unflag")
    /\ UNCHANGED <<todo, doomed, closing, bound, cookie, ingress, graceVars,
                   connVars, pumpVars>>

\* The session changes hands; its old owner may still be connected.
Resume(c, d) ==
    /\ pc[c] = "serving"
    /\ opened[c] < MaxOpened
    /\ sessions[d] # NoSession
    /\ sessions' = [sessions EXCEPT ![d] = [maker |-> @.maker, client |-> c]]
    /\ opened' = [opened EXCEPT ![c] = @ + 1]
    /\ Turn(c, d, "unflag")
    /\ UNCHANGED <<todo, doomed, closing, bound, cookie, ingress, graceVars,
                   connVars, pumpVars>>

\* Whatever flag is armed for the display is taken and set.
CancelFlag(d) ==
    /\ cancelled' = [c \in Clients |-> cancelled[c] \/ grace[d] = c]
    /\ grace' = [grace EXCEPT ![d] = NoClient]

ResumeCancels(c) ==
    /\ pc[c] = "unflag"
    /\ CancelFlag(target[c])
    /\ Continue(c, "ack")
    /\ UNCHANGED <<registry, connVars, pumpVars>>

\* register_x11_relay; SessionAck is queued.
Ack(c) ==
    /\ pc[c] = "ack"
    /\ ingress' = [ingress EXCEPT ![target[c]] = c]
    /\ Continue(c, "serving")
    /\ UNCHANGED <<sessions, bound, cookie, graceVars, connVars, pumpVars>>

-----------------------------------------------------------------------------
(* destroy_session, run by a relay task or by a grace task                   *)

\* SessionDestroy, refused for a session of somebody else.
DestroyRequest(c, d) ==
    /\ pc[c] = "serving"
    /\ sessions[d].client = c
    /\ Turn(c, d, "unroute")
    /\ UNCHANGED <<todo, doomed, closing, opened, registry, graceVars, connVars,
                   pumpVars>>

\* unregister_x11_relay
Unroute(c) ==
    /\ pc[c] = "unroute"
    /\ ingress' = [ingress EXCEPT ![target[c]] = NoClient]
    /\ Continue(c, "d_flag")
    /\ UNCHANGED <<sessions, bound, cookie, graceVars, connVars, pumpVars>>

DestroyCancels(c) ==
    /\ pc[c] = "d_flag"
    /\ CancelFlag(target[c])
    /\ Continue(c, "d_port")
    /\ UNCHANGED <<registry, connVars, pumpVars>>

DestroyUnbinds(c) ==
    /\ pc[c] = "d_port"
    /\ bound' = bound \ {target[c]}
    /\ Continue(c, "d_index")
    /\ UNCHANGED <<sessions, cookie, ingress, graceVars, connVars, pumpVars>>

\* The display's connections are taken off the index ...
DestroyTakesIndex(c) ==
    /\ pc[c] = "d_index"
    /\ closing' = [closing EXCEPT ![c] = index[target[c]]]
    /\ index' = [index EXCEPT ![target[c]] = {}]
    /\ Goto(c, "d_close")
    /\ UNCHANGED <<target, todo, doomed, opened, registry, graceVars,
                   connections, pumpVars>>

\* The lock of `connections` is held across the sends of a destroy.
Locked == \E c \in Clients : pc[c] = "d_send"

\* ... which then takes the lock of `connections`, if it took any off ...
DestroyLocks(c) ==
    /\ pc[c] = "d_close"
    /\ \/ closing[c] = {} /\ Continue(c, "d_cookie")
       \/ closing[c] # {} /\ ~Locked /\ Continue(c, "d_send")
    /\ UNCHANGED <<registry, graceVars, connVars, pumpVars>>

\* `sender.send(Close).await`: there is a place in the channel, or no receiver.
TakesClose(x) == app[x] # "clogs"

\* Mutant: the connection keeps its entry, and with it its sender.
DestroyForgetsClose(c) ==
    /\ pc[c] = "d_send"
    /\ closing' = [closing EXCEPT ![c] = {}]
    /\ Goto(c, "d_cookie")
    /\ UNCHANGED <<target, todo, doomed, opened, registry, graceVars, connVars,
                   pumpVars>>

\* ... and, holding it, removes them one by one and awaits a place for Close.
DestroyCloses(c) ==
    /\ pc[c] = "d_send"
    /\ \E x \in closing[c] :
          /\ TakesClose(x)
          /\ connections' = connections \ {x}
          /\ closing' = [closing EXCEPT ![c] = @ \ {x}]
          /\ Goto(c, IF closing[c] = {x} THEN "d_cookie" ELSE "d_send")
    /\ UNCHANGED <<target, todo, doomed, opened, registry, graceVars, index,
                   pumpVars>>

DestroyRemovesCookie(c) ==
    /\ pc[c] = "d_cookie"
    /\ cookie' = [cookie EXCEPT ![target[c]] = NoClient]
    /\ Continue(c, "d_ingress")
    /\ UNCHANGED <<sessions, bound, ingress, graceVars, connVars, pumpVars>>

DestroyRemovesIngress(c) ==
    /\ pc[c] = "d_ingress"
    /\ ingress' = [ingress EXCEPT ![target[c]] = NoClient]
    /\ Continue(c, "d_session")
    /\ UNCHANGED <<sessions, bound, cookie, graceVars, connVars, pumpVars>>

\* The last step; a grace task goes on with its list.
DestroyRemovesSession(c) ==
    /\ pc[c] = "d_session"
    /\ sessions' = [sessions EXCEPT ![target[c]] = NoSession]
    /\ Goto(c, IF target[c] \in todo[c] THEN "next" ELSE "serving")
    /\ todo' = [todo EXCEPT ![c] = @ \ {target[c]}]
    /\ UNCHANGED <<target, doomed, closing, opened, bound, cookie, ingress,
                   graceVars, connVars, pumpVars>>

-----------------------------------------------------------------------------
(* The end of handle_client and the grace task                               *)

PumpHolds == {"check", "insert", "index", "announce", "running"}

\* Tasks and maps that hold a clone of c's OutboundSender besides handle_client.
HasClones(c) ==
    \/ \E d \in Displays : ingress[d] = c
    \/ \E x \in Conns : xpc[x] \in PumpHolds /\ relay[x] = c

\* relay_loop ends: the client is gone, silent, or broke the protocol.
Leave(c) ==
    /\ pc[c] = "serving"
    /\ Continue(c, "leaving")
    /\ UNCHANGED <<registry, graceVars, connVars, pumpVars>>

\* `sender_task.await` returns once every clone of the queue is dropped ...
SenderEnds(c) ==
    /\ pc[c] = "leaving"
    /\ ~HasClones(c)
    /\ Continue(c, "release")
    /\ UNCHANGED <<registry, graceVars, connVars, pumpVars>>

\* ... or once something (an audio packet, a pump's Resume) is written to the
\* dead socket.
DeadWrite(c) ==
    /\ pc[c] = "leaving"
    /\ Continue(c, "release")
    /\ UNCHANGED <<registry, graceVars, connVars, pumpVars>>

\* release_session: one flag for all the sessions of the transport.
Release(c) ==
    /\ pc[c] = "release"
    /\ grace' = [d \in Displays |-> IF d \in OwnedBy(c) THEN c ELSE grace[d]]
    /\ cancelled' = [e \in Clients |->
                        cancelled[e] \/ \E d \in OwnedBy(c) : grace[d] = e]
    /\ Continue(c, IF OwnedBy(c) = {} THEN "gone" ELSE "sleeping")
    /\ UNCHANGED <<registry, connVars, pumpVars>>

\* SESSION_GRACE_PERIOD is over: a cancelled task returns.
Expire(c) ==
    /\ pc[c] = "sleeping"
    /\ Continue(c, IF cancelled[c] THEN "gone" ELSE "look")
    /\ UNCHANGED <<registry, graceVars, connVars, pumpVars>>

\* Mutant: the sessions the transport created are destroyed, not those it owns.
LookByMaker(c) ==
    LET made == {d \in Displays : sessions[d].maker = c}
    IN  /\ pc[c] = "look"
        /\ todo' = [todo EXCEPT ![c] = made]
        /\ doomed' = [doomed EXCEPT ![c] = made]
        /\ Goto(c, "next")
        /\ UNCHANGED <<target, closing, opened, registry, graceVars, connVars, pumpVars>>

\* The sessions still owned by the transport are read ...
Look(c) ==
    /\ pc[c] = "look"
    /\ todo' = [todo EXCEPT ![c] = OwnedBy(c)]
    /\ doomed' = [doomed EXCEPT ![c] = OwnedBy(c)]
    /\ Goto(c, "next")
    /\ UNCHANGED <<target, closing, opened, registry, graceVars, connVars, pumpVars>>

\* ... and destroyed one after the other ...
DestroyNext(c) ==
    /\ pc[c] = "next"
    /\ \/ \E d \in todo[c] : Turn(c, d, "d_flag")
       \/ todo[c] = {} /\ Turn(c, target[c], "tail")
    /\ UNCHANGED <<todo, doomed, closing, opened, registry, graceVars, connVars,
                   pumpVars>>

\* ... after which their flags are removed.
GraceTail(c) ==
    /\ pc[c] = "tail"
    /\ grace' = [d \in Displays |-> IF d \in doomed[c] THEN NoClient ELSE grace[d]]
    /\ Continue(c, "gone")
    /\ UNCHANGED <<registry, cancelled, connVars, pumpVars>>

-----------------------------------------------------------------------------
(* handle_x11_connection and the connection registry                         *)

PumpGoto(x, l) == xpc' = [xpc EXCEPT ![x] = l]

\* An application connects to a bound display.
Accept(x, d) ==
    /\ xpc[x] = "idle"
    /\ d \in bound
    /\ display' = [display EXCEPT ![x] = d]
    /\ PumpGoto(x, "wait")
    /\ UNCHANGED <<relay, app, registry, graceVars, connVars, taskVars>>

\* get_x11_relay_ingress is polled until a relay is registered ...
TakeIngress(x) ==
    /\ xpc[x] = "wait"
    /\ ingress[display[x]] # NoClient
    /\ relay' = [relay EXCEPT ![x] = ingress[display[x]]]
    /\ PumpGoto(x, "check")
    /\ UNCHANGED <<display, app, registry, graceVars, connVars, taskVars>>

\* ... or HANDSHAKE_TIMEOUT passes.
GiveUp(x) ==
    /\ xpc[x] = "wait"
    /\ PumpGoto(x, "done")
    /\ UNCHANGED <<display, relay, app, registry, graceVars, connVars, taskVars>>

\* register_x11_connection: the limit is read under its lock ...
CheckLimit(x) ==
    /\ xpc[x] = "check"
    /\ PumpGoto(x, IF Cardinality(index[display[x]]) < MaxConns
                     THEN "insert" ELSE "done")
    /\ UNCHANGED <<display, relay, app, registry, graceVars, connVars, taskVars>>

\* ... the connection is registered, under the lock of `connections` ...
InsertConn(x) ==
    /\ xpc[x] = "insert"
    /\ ~Locked
    /\ connections' = connections \cup {x}
    /\ PumpGoto(x, "index")
    /\ UNCHANGED <<display, relay, app, index, registry, graceVars, taskVars>>

\* ... and indexed under its display.
IndexConn(x) ==
    /\ xpc[x] = "index"
    /\ index' = [index EXCEPT ![display[x]] = @ \cup {x}]
    /\ PumpGoto(x, "announce")
    /\ UNCHANGED <<display, relay, app, connections, registry, graceVars, taskVars>>

\* The relay task's event channel is open until handle_client returns.
Hears(c) == pc[c] \notin GracePC \cup {"gone"} /\ todo[c] = {}

\* Connected is sent, or the relay is gone.
Announce(x) ==
    /\ xpc[x] = "announce"
    /\ PumpGoto(x, IF Hears(relay[x]) THEN "running" ELSE "unregister")
    /\ UNCHANGED <<display, relay, app, registry, graceVars, connVars, taskVars>>

\* The pump is inside `write_all` to an application that does not read ...
AppStalls(x) ==
    /\ xpc[x] = "running"
    /\ x \in connections
    /\ app[x] = "reads"
    /\ app' = [app EXCEPT ![x] = "stalls"]
    /\ UNCHANGED <<xpc, display, relay, registry, graceVars, connVars, taskVars>>

\* ... and the client sends until the pump's channel is full.  A channel serves
\* its senders in turn: none overtakes a Close that waits for a place.
Clogs(x) ==
    /\ app[x] = "stalls"
    /\ \A c \in Clients : pc[c] = "d_send" => x \notin closing[c]
    /\ app' = [app EXCEPT ![x] = "clogs"]
    /\ UNCHANGED <<xpc, display, relay, registry, graceVars, connVars, taskVars>>

\* It reads, and the pump goes on.
AppReads(x) ==
    /\ app[x] # "reads"
    /\ app' = [app EXCEPT ![x] = "reads"]
    /\ UNCHANGED <<xpc, display, relay, registry, graceVars, connVars, taskVars>>

\* The pumps end, and the channel's receiver goes with them.
PumpsEnd(x) ==
    /\ PumpGoto(x, "unregister")
    /\ app' = [app EXCEPT ![x] = "reads"]

\* The application closes its socket.
AppCloses(x) ==
    /\ xpc[x] = "running"
    /\ PumpsEnd(x)
    /\ UNCHANGED <<display, relay, registry, graceVars, connVars, taskVars>>

\* Close arrives, or the channel's sender left with the registry entry; a pump
\* inside `write_all` does not see it.
ChannelClosed(x) ==
    /\ xpc[x] = "running"
    /\ app[x] = "reads"
    /\ x \notin connections
    /\ PumpsEnd(x)
    /\ UNCHANGED <<display, relay, registry, graceVars, connVars, taskVars>>

\* Mutant: the index keeps the connection.
UnregisterFirstMap(x) ==
    /\ xpc[x] = "unregister"
    /\ ~Locked
    /\ connections' = connections \ {x}
    /\ PumpGoto(x, "done")
    /\ UNCHANGED <<display, relay, app, index, registry, graceVars, taskVars>>

\* Disconnected is sent, or the relay is gone; unregister_x11_connection, under
\* the lock of `connections`.  The relay task does the same when it takes the
\* event.
Unregister(x) ==
    /\ xpc[x] = "unregister"
    /\ ~Locked
    /\ connections' = connections \ {x}
    /\ index' = IF x \in connections
                  THEN [index EXCEPT ![display[x]] = @ \ {x}] ELSE index
    /\ PumpGoto(x, "done")
    /\ UNCHANGED <<display, relay, app, registry, graceVars, taskVars>>

-----------------------------------------------------------------------------
CreateStep(c) ==
    Bind(c) \/ AddCookie(c) \/ InsertSession(c) \/ UndoPort(c) \/ UndoCookie(c)

DestroyStep(c) ==
    \/ Unroute(c) \/ DestroyCancels(c) \/ DestroyUnbinds(c)
    \/ DestroyTakesIndex(c) \/ DestroyLocks(c) \/ DestroyCloses(c)
    \/ DestroyRemovesCookie(c) \/ DestroyRemovesIngress(c) \/ DestroyRemovesSession(c)

GraceStep(c) ==
    Expire(c) \/ Look(c) \/ DestroyNext(c) \/ GraceTail(c)

TaskStep(c) ==
    \/ CreateStep(c) \/ ResumeCancels(c) \/ Ack(c) \/ DestroyStep(c)
    \/ SenderEnds(c) \/ Release(c) \/ GraceStep(c)

Request(c) ==
    \/ Connect(c) \/ CreateAuto(c) \/ Leave(c)
    \/ \E d \in Displays : Create(c, d) \/ Resume(c, d) \/ DestroyRequest(c, d)

PumpStep(x) ==
    \/ TakeIngress(x) \/ CheckLimit(x) \/ InsertConn(x) \/ IndexConn(x)
    \/ ChannelClosed(x)

\* The steps that begin with an event to the relay task.
EventStep(x) == Announce(x) \/ Unregister(x)

AppStep(x) == GiveUp(x) \/ AppCloses(x) \/ AppStalls(x) \/ Clogs(x) \/ AppReads(x)

Next ==
    \/ \E c \in Clients : Request(c) \/ TaskStep(c) \/ DeadWrite(c)
    \/ \E x \in Conns :
         \/ PumpStep(x) \/ EventStep(x) \/ AppStep(x)
         \/ \E d \in Displays : Accept(x, d)

\* The bounded event channel of c's relay task is emptied or closed: the task
\* is back in its select and not held up by a full channel to an application,
\* or handle_client has returned.
Drains(c) ==
    \/ pc[c] = "serving" /\ \A x \in Conns : relay[x] = c => app[x] # "clogs"
    \/ ~Hears(c)

\* Tokio runs every ready task and the grace timer fires; clients and
\* applications need not do anything.  An event may wait for a place in its
\* channel for as long as the relay task does not take events from it.
Fairness ==
    /\ \A c \in Clients : WF_vars(TaskStep(c))
    /\ \A x \in Conns : WF_vars(PumpStep(x))
    /\ \A x \in Conns : WF_vars(EventStep(x) /\ \E c \in Clients : relay[x] = c /\ Drains(c))

Spec == Init /\ [][Next]_vars /\ Fairness

-----------------------------------------------------------------------------
(* Properties                                                              *)

(* The two connection maps are updated under different locks by pumps and by *)
(* destroys, yet no entry is lost between them: what the index lists is      *)
(* registered under that display, and what is registered is indexed, about   *)
(* to be, or in the hands of a destroy that will remove it.                  *)
RegistryConsistent ==
    /\ \A d \in Displays : \A x \in index[d] :
            x \in connections /\ display[x] = d
    /\ \A x \in connections :
            \/ x \in index[display[x]]
            \/ xpc[x] = "index"
            \/ \E c \in Clients : x \in closing[c]

\* A task is inside destroy_session for display d.
Destroying(d) == \E c \in Clients : pc[c] \in DestroyPC /\ target[c] = d

(* A transport that is gone leaves no session behind: cancelled or not, its  *)
(* grace task ends with its session destroyed or in another client's hands.  *)
(* It holds for one session per transport and one reconnect.                 *)
GoneOwnsNothing ==
    \A c \in Clients, d \in Displays :
        pc[c] = "gone" /\ sessions[d].client = c => Destroying(d)

\* Applications that stopped reading read again (or close).
ApplicationsRead == \A x \in Conns : WF_vars(AppReads(x))

(* A session whose grace period has started is destroyed or resumed, as long *)
(* as no application stops reading for good: destroy_session awaits a place  *)
(* for Close in each connection's channel while it holds the registry's      *)
(* lock.                                                                     *)
GraceEnds ==
    ApplicationsRead =>
        \A c \in Clients, d \in Displays :
            (pc[c] = "sleeping" /\ sessions[d].client = c)
                ~> sessions[d].client # c

\* The relay task that x's events go to waits for its writer to end.
Unheard(x) == \E c \in Clients : relay[x] = c /\ pc[c] = "leaving"

(* A connection that a destroy took off the index is closed and its task     *)
(* ends, as long as applications read, unless the relay task its events go   *)
(* to waits for its writer for ever without taking them.                     *)
DestroyEndsConnections ==
    ApplicationsRead =>
        \A c \in Clients, x \in Conns :
            (x \in closing[c])
                ~> (xpc[x] = "done" \/ []Unheard(x))

(* While audio packets keep being written to the dead socket (and a failing  *)
(* write ends the writer) and applications read, a client that left loses    *)
(* its session in the end.                                                   *)
AudioEndsStaleSession ==
    ApplicationsRead /\ (\A c \in Clients : WF_vars(DeadWrite(c))) =>
        \A c \in Clients, d \in Displays :
            (pc[c] = "leaving" /\ sessions[d].client = c)
                ~> sessions[d].client # c

(* Everything that must end does, as long as applications read what is       *)
(* written to them: a grace period, a connection whose session was           *)
(* destroyed, and the session of a client that left while audio was written  *)
(* to its socket.                                                            *)
EndsComeTrue == GraceEnds /\ DestroyEndsConnections /\ AudioEndsStaleSession
=============================================================================
