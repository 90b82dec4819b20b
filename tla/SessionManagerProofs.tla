------------------------ MODULE SessionManagerProofs ------------------------
(* The connection registry of the session manager, for any number of         *)
(* transports, displays and X11 connections.                                 *)
EXTENDS SessionManager, TLAPS

(* The type invariant is inductive: no interleaving of creates, resumes,     *)
(* destroys, grace tasks and pumps stores a half-made entry in a map.        *)
LEMMA TypeStep == TypeOK /\ [Next]_vars => TypeOK'
<1> SUFFICES ASSUME TypeOK, [Next]_vars PROVE TypeOK'
  OBVIOUS
<1> USE RegistryAssumption
        DEF TypeOK, vars, registry, graceVars, connVars, taskVars, pumpVars,
            Goto, Continue, Turn, TaskPC, CreatePC, DestroyPC, GracePC, PumpPC, AppState, AppState
<1>1. ASSUME NEW c \in Clients, Connect(c) PROVE TypeOK'
  BY <1>1 DEF Connect
<1>2. ASSUME NEW c \in Clients, NEW d \in Displays, Create(c, d) PROVE TypeOK'
  BY <1>2 DEF Create
<1>3. ASSUME NEW c \in Clients, CreateAuto(c) PROVE TypeOK'
  BY <1>2, <1>3 DEF CreateAuto
<1>4. ASSUME NEW c \in Clients, Leave(c) PROVE TypeOK'
  BY <1>4 DEF Leave
<1>5. ASSUME NEW c \in Clients, NEW d \in Displays, Resume(c, d) PROVE TypeOK'
  <2>1. sessions[d] \in Session
    BY <1>5 DEF Resume
  <2>2. [maker |-> sessions[d].maker, client |-> c] \in Session
    BY <2>1 DEF Session
  <2> QED BY <1>5, <2>2 DEF Resume
<1>6. ASSUME NEW c \in Clients, NEW d \in Displays, DestroyRequest(c, d)
      PROVE TypeOK'
  BY <1>6 DEF DestroyRequest
<1>7. ASSUME NEW c \in Clients, CreateStep(c) PROVE TypeOK'
  <2>1. CASE Bind(c)
    <3>1. pc' = [pc EXCEPT ![c] = "cookie"] \/ pc' = [pc EXCEPT ![c] = "serving"]
      BY <2>1 DEF Bind
    <3>2. pc' \in [Clients -> TaskPC]
      BY <3>1
    <3>3. bound' = bound \cup {target[c]} \/ bound' = bound
      BY <2>1, Zenon DEF Bind
    <3>4. bound' \subseteq Displays
      <4>1. target[c] \in Displays /\ bound \subseteq Displays
        OBVIOUS
      <4> QED BY ONLY <3>3, <4>1
    <3> QED BY <2>1, <3>2, <3>4 DEF Bind
  <2>2. CASE AddCookie(c)
    BY <2>2 DEF AddCookie
  <2>3. CASE InsertSession(c)
    <3>1. [maker |-> c, client |-> c] \in Session
      BY DEF Session
    <3>2. sessions' \in [Displays -> Session \cup {NoSession}]
      BY <2>3, <3>1 DEF InsertSession
    <3>3. opened' \in [Clients -> Nat]
      BY <2>3 DEF InsertSession
    <3>4. pc' \in [Clients -> TaskPC]
      BY <2>3 DEF InsertSession
    <3> QED BY <2>3, <3>2, <3>3, <3>4 DEF InsertSession
  <2>4. CASE UndoPort(c)
    BY <2>4 DEF UndoPort
  <2>5. CASE UndoCookie(c)
    BY <2>5 DEF UndoCookie
  <2> QED BY <1>7, <2>1, <2>2, <2>3, <2>4, <2>5 DEF CreateStep
<1>8. ASSUME NEW c \in Clients, ResumeCancels(c) PROVE TypeOK'
  BY <1>8 DEF ResumeCancels, CancelFlag
<1>9. ASSUME NEW c \in Clients, Ack(c) PROVE TypeOK'
  BY <1>9 DEF Ack
<1>10. ASSUME NEW c \in Clients, DestroyStep(c) PROVE TypeOK'
  <2>1. CASE Unroute(c)
    BY <2>1 DEF Unroute
  <2>2. CASE DestroyCancels(c)
    BY <2>2 DEF DestroyCancels, CancelFlag
  <2>3. CASE DestroyUnbinds(c)
    BY <2>3 DEF DestroyUnbinds
  <2>4. CASE DestroyTakesIndex(c)
    BY <2>4 DEF DestroyTakesIndex
  <2>5. CASE DestroyCloses(c)
    BY <2>5 DEF DestroyCloses
  <2>9. CASE DestroyLocks(c)
    BY <2>9 DEF DestroyLocks
  <2>6. CASE DestroyRemovesCookie(c)
    BY <2>6 DEF DestroyRemovesCookie
  <2>7. CASE DestroyRemovesIngress(c)
    BY <2>7 DEF DestroyRemovesIngress
  <2>8. CASE DestroyRemovesSession(c)
    BY <2>8 DEF DestroyRemovesSession
  <2> QED
    BY <1>10, <2>1, <2>2, <2>3, <2>4, <2>5, <2>6, <2>7, <2>8, <2>9 DEF DestroyStep
<1>11. ASSUME NEW c \in Clients, SenderEnds(c) \/ DeadWrite(c) PROVE TypeOK'
  BY <1>11 DEF SenderEnds, DeadWrite
<1>12. ASSUME NEW c \in Clients, Release(c) PROVE TypeOK'
  <2>1. grace' \in [Displays -> Clients \cup {NoClient}]
    BY <1>12 DEF Release
  <2>2. cancelled' \in [Clients -> BOOLEAN]
    BY <1>12 DEF Release
  <2> QED BY <1>12, <2>1, <2>2 DEF Release
<1>13. ASSUME NEW c \in Clients, GraceStep(c) PROVE TypeOK'
  <2>1. CASE Expire(c)
    BY <2>1 DEF Expire
  <2>2. CASE Look(c)
    BY <2>2 DEF Look, OwnedBy
  <2>3. CASE DestroyNext(c)
    BY <2>3 DEF DestroyNext
  <2>4. CASE GraceTail(c)
    BY <2>4 DEF GraceTail
  <2> QED BY <1>13, <2>1, <2>2, <2>3, <2>4 DEF GraceStep
<1>14. ASSUME NEW x \in Conns, PumpStep(x) \/ EventStep(x) PROVE TypeOK'
  <2> USE DEF PumpGoto
  <2>1. CASE TakeIngress(x)
    BY <2>1 DEF TakeIngress
  <2>2. CASE CheckLimit(x)
    BY <2>2 DEF CheckLimit
  <2>3. CASE InsertConn(x)
    BY <2>3 DEF InsertConn
  <2>4. CASE IndexConn(x)
    BY <2>4 DEF IndexConn
  <2>5. CASE Announce(x)
    BY <2>5 DEF Announce
  <2>6. CASE ChannelClosed(x)
    BY <2>6 DEF ChannelClosed, PumpsEnd
  <2>7. CASE Unregister(x)
    BY <2>7 DEF Unregister
  <2> QED BY <1>14, <2>1, <2>2, <2>3, <2>4, <2>5, <2>6, <2>7 DEF PumpStep, EventStep
<1>15. ASSUME NEW x \in Conns, AppStep(x) PROVE TypeOK'
  BY <1>15 DEF AppStep, GiveUp, AppCloses, AppStalls, Clogs, AppReads, PumpsEnd, PumpGoto
<1>16. ASSUME NEW x \in Conns, NEW d \in Displays, Accept(x, d) PROVE TypeOK'
  BY <1>16 DEF Accept, PumpGoto
<1>17. CASE UNCHANGED vars
  BY <1>17
<1> QED
  BY <1>1, <1>2, <1>3, <1>4, <1>5, <1>6, <1>7, <1>8, <1>9, <1>10, <1>11, <1>12,
     <1>13, <1>14, <1>15, <1>16, <1>17 DEF Next, Request, TaskStep

(* Every reachable state of the registry is well typed: in particular a      *)
(* session entry always has a maker and an owner, however resumes and        *)
(* destroys of the same display interleave.                                  *)
THEOREM TypeCorrect == Spec => []TypeOK
<1>1. Init => TypeOK
  BY RegistryAssumption
     DEF Init, TypeOK, TaskPC, CreatePC, DestroyPC, GracePC, PumpPC, AppState, AppState
<1>2. TypeOK /\ [Next]_vars => TypeOK'
  BY TypeStep
<1> QED BY <1>1, <1>2, PTL DEF Spec

-----------------------------------------------------------------------------
\* Where the task of a registered connection stands.
RegisteredPC == {"index", "announce", "running", "unregister"}

\* A registered connection's task is between its registration and its end, so
\* it keeps its display; and one that is about to be indexed is registered.
PumpsKnown ==
    /\ \A x \in connections : xpc[x] \in RegisteredPC
    /\ \A x \in Conns : xpc[x] = "index" => x \in connections

\* Only the step that removes them holds connections off the index, and none
\* of them can be indexed again.
ClosingKnown ==
    \A c \in Clients : \A x \in closing[c] :
        /\ pc[c] \in {"d_close", "d_send"}
        /\ xpc[x] \in {"announce", "running", "unregister", "done"}
        /\ \A d \in Displays : x \notin index[d]

\* An indexed connection has been through the whole registration.
IndexKnown ==
    \A d \in Displays : \A x \in index[d] :
        xpc[x] \in {"announce", "running", "unregister"}

IInv == TypeOK /\ RegistryConsistent /\ PumpsKnown /\ ClosingKnown /\ IndexKnown

(* A task that is not removing connections may take any step that leaves the *)
(* connection maps and the pumps alone.                                      *)
LEMMA TaskMoves ==
    ASSUME IInv, TypeOK', NEW c \in Clients, pc[c] \notin {"d_close", "d_send"},
           \A e \in Clients : e # c => pc'[e] = pc[e],
           UNCHANGED <<connVars, xpc, display, closing>>
    PROVE  IInv'
<1> USE DEF IInv, TypeOK, connVars
<1>1. RegistryConsistent'
  BY DEF RegistryConsistent
<1>2. PumpsKnown'
  BY DEF PumpsKnown
<1>3. ClosingKnown'
  BY DEF ClosingKnown
<1>4. IndexKnown'
  BY DEF IndexKnown
<1> QED BY <1>1, <1>2, <1>3, <1>4

(* A connection's task that is not yet registered, or fully registered, may  *)
(* move on without touching the maps.                                        *)
LEMMA PumpMoves ==
    ASSUME IInv, TypeOK', NEW x \in Conns, NEW l, xpc' = [xpc EXCEPT ![x] = l],
           \/ xpc[x] \in {"wait", "check"} /\ l \in {"check", "insert", "done"}
           \/ xpc[x] \in {"announce", "running"} /\ l \in {"running", "unregister"},
           UNCHANGED <<connVars, display, closing, pc>>
    PROVE  IInv'
<1> USE DEF IInv, TypeOK, connVars
<1>1. RegistryConsistent'
  BY DEF RegistryConsistent
<1>2. PumpsKnown'
  BY DEF PumpsKnown, RegisteredPC
<1>3. ClosingKnown'
  BY DEF ClosingKnown
<1>4. IndexKnown'
  BY DEF IndexKnown
<1> QED BY <1>1, <1>2, <1>3, <1>4

(* Every step keeps the strengthened registry invariant.                     *)
LEMMA RegistryStep == IInv /\ [Next]_vars => IInv'
<1> SUFFICES ASSUME IInv, [Next]_vars PROVE IInv'
  OBVIOUS
<1>0. TypeOK /\ TypeOK'
  BY TypeStep DEF IInv
<1> USE DEF vars, registry, graceVars, connVars, taskVars, pumpVars, Goto,
            Continue, Turn
<1>1. ASSUME NEW c \in Clients, Request(c) PROVE IInv'
  <2>1. ASSUME NEW d \in Displays, Create(c, d) PROVE IInv'
    BY <1>0, <2>1, TaskMoves DEF Create, TypeOK
  <2>2. CASE CreateAuto(c)
    BY <2>1, <2>2 DEF CreateAuto
  <2>3. CASE Connect(c)
    BY <1>0, <2>3, TaskMoves DEF Connect, TypeOK
  <2>4. CASE Leave(c)
    BY <1>0, <2>4, TaskMoves DEF Leave, TypeOK
  <2>5. ASSUME NEW d \in Displays, Resume(c, d) PROVE IInv'
    BY <1>0, <2>5, TaskMoves DEF Resume, TypeOK
  <2>6. ASSUME NEW d \in Displays, DestroyRequest(c, d) PROVE IInv'
    BY <1>0, <2>6, TaskMoves DEF DestroyRequest, TypeOK
  <2> QED BY <1>1, <2>1, <2>2, <2>3, <2>4, <2>5, <2>6 DEF Request
<1>2. ASSUME NEW c \in Clients, CreateStep(c) PROVE IInv'
  BY <1>0, <1>2, TaskMoves
     DEF CreateStep, Bind, AddCookie, InsertSession, UndoPort, UndoCookie, TypeOK
<1>3. ASSUME NEW c \in Clients, ResumeCancels(c) \/ Ack(c) PROVE IInv'
  BY <1>0, <1>3, TaskMoves DEF ResumeCancels, Ack, TypeOK
<1>4. ASSUME NEW c \in Clients, DestroyTakesIndex(c) PROVE IInv'
  <2>1. closing[c] = {} /\ target[c] \in Displays
    BY <1>0, <1>4 DEF IInv, ClosingKnown, DestroyTakesIndex, TypeOK
  <2>2. /\ index' = [index EXCEPT ![target[c]] = {}]
        /\ closing' = [closing EXCEPT ![c] = index[target[c]]]
        /\ pc' = [pc EXCEPT ![c] = "d_close"]
        /\ UNCHANGED <<connections, xpc, display>>
    BY <1>4 DEF DestroyTakesIndex
  <2>3. RegistryConsistent'
    BY <1>0, <2>1, <2>2 DEF IInv, RegistryConsistent, TypeOK
  <2>4. ClosingKnown'
    BY <1>0, <2>1, <2>2
       DEF IInv, ClosingKnown, IndexKnown, RegistryConsistent, TypeOK
  <2>5. PumpsKnown' /\ IndexKnown'
    BY <1>0, <2>1, <2>2 DEF IInv, PumpsKnown, IndexKnown, TypeOK
  <2> QED BY <1>0, <2>3, <2>4, <2>5 DEF IInv
<1>5. ASSUME NEW c \in Clients, DestroyCloses(c) PROVE IInv'
  <2>1. PICK x \in closing[c] :
          /\ connections' = connections \ {x}
          /\ closing' = [closing EXCEPT ![c] = closing[c] \ {x}]
          /\ pc' = [pc EXCEPT ![c] = IF closing[c] = {x} THEN "d_cookie" ELSE "d_send"]
          /\ UNCHANGED <<index, xpc, display>>
    BY <1>5 DEF DestroyCloses
  <2>2. \A e \in Clients : \A y \in closing'[e] :
            y \in closing[e] /\ pc'[e] \in {"d_close", "d_send"}
    BY <1>0, <2>1 DEF IInv, ClosingKnown, TypeOK
  <2>3. \A y \in connections' : \A e \in Clients : y \in closing[e] => y \in closing'[e]
    BY <1>0, <2>1 DEF TypeOK
  <2>4. RegistryConsistent'
    BY <1>0, <2>1, <2>3 DEF IInv, RegistryConsistent, ClosingKnown, TypeOK
  <2>5. ClosingKnown'
    BY <2>1, <2>2 DEF IInv, ClosingKnown
  <2>6. PumpsKnown' /\ IndexKnown'
    <3>1. x \in Conns /\ xpc[x] # "index"
      BY <1>0, <2>1 DEF IInv, ClosingKnown, TypeOK
    <3> QED BY <2>1, <3>1 DEF IInv, PumpsKnown, IndexKnown
  <2> QED BY <1>0, <2>4, <2>5, <2>6 DEF IInv
<1>13. ASSUME NEW c \in Clients, DestroyLocks(c) PROVE IInv'
  <2>1. PICK l \in {"d_cookie", "d_send"} :
          /\ pc' = [pc EXCEPT ![c] = l]
          /\ closing[c] # {} => l = "d_send"
          /\ UNCHANGED <<connections, index, closing, xpc, display>>
    BY <1>13 DEF DestroyLocks
  <2>2. RegistryConsistent' /\ PumpsKnown' /\ IndexKnown'
    BY <2>1 DEF IInv, RegistryConsistent, PumpsKnown, IndexKnown
  <2>3. ClosingKnown'
    BY <1>0, <2>1 DEF IInv, ClosingKnown, TypeOK
  <2> QED BY <1>0, <2>2, <2>3 DEF IInv
<1>6. ASSUME NEW c \in Clients, DestroyStep(c) PROVE IInv'
  <2>1. CASE \/ Unroute(c) \/ DestroyCancels(c) \/ DestroyUnbinds(c)
             \/ DestroyRemovesCookie(c) \/ DestroyRemovesIngress(c)
             \/ DestroyRemovesSession(c)
    BY <1>0, <2>1, TaskMoves
       DEF Unroute, DestroyCancels, DestroyUnbinds, DestroyRemovesCookie,
           DestroyRemovesIngress, DestroyRemovesSession, TypeOK
  <2> QED BY <1>4, <1>5, <1>6, <1>13, <2>1 DEF DestroyStep
<1>7. ASSUME NEW c \in Clients, SenderEnds(c) \/ DeadWrite(c) \/ Release(c)
      PROVE IInv'
  BY <1>0, <1>7, TaskMoves DEF SenderEnds, DeadWrite, Release, TypeOK
<1>8. ASSUME NEW c \in Clients, GraceStep(c) PROVE IInv'
  BY <1>0, <1>8, TaskMoves
     DEF GraceStep, Expire, Look, DestroyNext, GraceTail, TypeOK
<1>9. ASSUME NEW x \in Conns, PumpStep(x) \/ EventStep(x) PROVE IInv'
  <2> USE DEF PumpGoto
  <2>1. CASE TakeIngress(x) \/ CheckLimit(x)
    BY <1>0, <2>1, PumpMoves DEF TakeIngress, CheckLimit
  <2>2. CASE InsertConn(x)
    <3>1. /\ xpc[x] = "insert"
          /\ connections' = connections \cup {x}
          /\ xpc' = [xpc EXCEPT ![x] = "index"]
          /\ UNCHANGED <<index, closing, pc, display>>
      BY <2>2 DEF InsertConn
    <3>2. RegistryConsistent'
      BY <1>0, <3>1 DEF IInv, RegistryConsistent, TypeOK
    <3>3. PumpsKnown' /\ ClosingKnown' /\ IndexKnown'
      BY <1>0, <3>1
         DEF IInv, PumpsKnown, ClosingKnown, IndexKnown, RegisteredPC, TypeOK
    <3> QED BY <1>0, <3>2, <3>3 DEF IInv
  <2>3. CASE IndexConn(x)
    <3>1. /\ xpc[x] = "index"
          /\ index' = [index EXCEPT ![display[x]] = @ \cup {x}]
          /\ xpc' = [xpc EXCEPT ![x] = "announce"]
          /\ UNCHANGED <<connections, closing, pc, display>>
      BY <2>3 DEF IndexConn
    <3>2. x \in connections /\ display[x] \in Displays
      BY <1>0, <3>1 DEF IInv, PumpsKnown, TypeOK
    <3>3. RegistryConsistent'
      BY <1>0, <3>1, <3>2 DEF IInv, RegistryConsistent, TypeOK
    <3>4. ClosingKnown'
      BY <1>0, <3>1, <3>2 DEF IInv, ClosingKnown, TypeOK
    <3>5. PumpsKnown' /\ IndexKnown'
      BY <1>0, <3>1, <3>2 DEF IInv, PumpsKnown, IndexKnown, RegisteredPC, TypeOK
    <3> QED BY <1>0, <3>3, <3>4, <3>5 DEF IInv
  <2>4. CASE Announce(x) \/ ChannelClosed(x)
    BY <1>0, <2>4, PumpMoves DEF Announce, ChannelClosed, PumpsEnd
  <2>5. CASE Unregister(x)
    <3>1. RegistryConsistent'
      BY <1>0, <2>5 DEF Unregister, IInv, RegistryConsistent, TypeOK
    <3>2. PumpsKnown'
      BY <1>0, <2>5 DEF Unregister, IInv, PumpsKnown, TypeOK
    <3>3. ClosingKnown'
      BY <1>0, <2>5 DEF Unregister, IInv, ClosingKnown, TypeOK
    <3>4. IndexKnown'
      BY <1>0, <2>5 DEF Unregister, IInv, IndexKnown, RegistryConsistent, TypeOK
    <3> QED BY <1>0, <3>1, <3>2, <3>3, <3>4 DEF IInv
  <2> QED BY <1>9, <2>1, <2>2, <2>3, <2>4, <2>5 DEF PumpStep, EventStep
<1>10. ASSUME NEW x \in Conns, AppStep(x) PROVE IInv'
  <2>1. CASE GiveUp(x) \/ AppCloses(x)
    BY <1>0, <2>1, PumpMoves DEF GiveUp, AppCloses, PumpsEnd, PumpGoto
  <2>2. CASE AppStalls(x) \/ Clogs(x) \/ AppReads(x)
    BY <1>0, <2>2
       DEF AppStalls, Clogs, AppReads, IInv, RegistryConsistent, PumpsKnown, ClosingKnown,
           IndexKnown
  <2> QED BY <1>10, <2>1, <2>2 DEF AppStep
<1>11. ASSUME NEW x \in Conns, NEW d \in Displays, Accept(x, d) PROVE IInv'
  BY <1>0, <1>11
     DEF Accept, PumpGoto, IInv, RegistryConsistent, PumpsKnown, ClosingKnown,
         IndexKnown, RegisteredPC, TypeOK
<1>12. CASE UNCHANGED vars
  BY <1>0, <1>12
     DEF IInv, RegistryConsistent, PumpsKnown, ClosingKnown, IndexKnown
<1> QED
  BY <1>1, <1>2, <1>3, <1>6, <1>7, <1>8, <1>9, <1>10, <1>11, <1>12
     DEF Next, TaskStep

(* However registrations, ends of pumps and destroys interleave, the         *)
(* registry never loses a connection: session/mod.rs updates `connections`   *)
(* and `display_conns` under two locks, and no lock spans both updates of a  *)
(* registration or of a destroy.                                             *)
THEOREM RegistryIsConsistent == Spec => []RegistryConsistent
<1>1. Init => IInv
  BY RegistryAssumption
     DEF Init, IInv, TypeOK, TaskPC, CreatePC, DestroyPC, GracePC, PumpPC, AppState,
         RegistryConsistent, PumpsKnown, ClosingKnown, IndexKnown
<1>2. IInv /\ [Next]_vars => IInv'
  BY RegistryStep
<1>3. IInv => RegistryConsistent
  BY DEF IInv
<1> QED BY <1>1, <1>2, <1>3, PTL DEF Spec

-----------------------------------------------------------------------------
\* The relay task has handed its sessions to its grace task.
Released(c) ==
    \/ pc[c] \in GracePC \cup {"gone"}
    \/ pc[c] \in DestroyPC /\ todo[c] # {}

Owns(c, d) == sessions[d].client = c

\* One session per transport, and none before it counts.
OpenedOnce ==
    \A c \in Clients :
        /\ opened[c] \in {0, 1}
        /\ pc[c] \in CreatePC => opened[c] = 0
        /\ \A d \in Displays : Owns(c, d) => opened[c] = 1
        /\ \A d, e \in Displays : Owns(c, d) /\ Owns(c, e) => d = e

\* A list of sessions to destroy belongs to a grace task at work on it ...
ListsKnown ==
    \A c \in Clients : todo[c] # {} =>
        \/ pc[c] = "next"
        \/ pc[c] \in DestroyPC /\ target[c] \in todo[c]

\* ... and names everything its transport still owns.
ListsComplete ==
    \A c \in Clients :
        pc[c] \in {"next", "tail"} \/ (pc[c] \in DestroyPC /\ todo[c] # {})
            => \A d \in Displays : Owns(c, d) => d \in todo[c]

\* A flag is armed by a transport that left, for the one session it may own.
FlagsKnown ==
    \A c \in Clients :
        /\ cancelled[c] => Released(c)
        /\ \A d \in Displays : grace[d] = c =>
                Released(c) /\ \A e \in Displays : Owns(c, e) => e = d

\* A cancelled grace task owns a session only while somebody destroys it.
CancelledOwnsNothing ==
    \A c \in Clients, d \in Displays :
        pc[c] = "sleeping" /\ cancelled[c] /\ Owns(c, d) => Destroying(d)

Retired ==
    /\ TypeOK /\ OpenedOnce /\ ListsKnown /\ ListsComplete /\ FlagsKnown
    /\ CancelledOwnsNothing /\ GoneOwnsNothing

\* try_resume_session takes the session and the flag under two locks; nobody
\* else takes the display between them.
ResumesUndisturbed ==
    \A c \in Clients : pc[c] = "unflag" => sessions[target[c]].client \in {c, NoClient}

(* The pumps, and whatever else leaves sessions, flags and tasks alone.      *)
LEMMA OthersKeep ==
    ASSUME Retired, TypeOK',
           UNCHANGED <<sessions, grace, cancelled, pc, target, todo, opened>>
    PROVE  Retired'
BY DEF Retired, OpenedOnce, ListsKnown, ListsComplete, FlagsKnown, CancelledOwnsNothing,
       GoneOwnsNothing, Owns, Released, Destroying

(* A step of one task that changes neither sessions nor flags: what it must  *)
(* respect is where the task goes.                                           *)
LEMMA OneTaskKeeps ==
    ASSUME Retired, TypeOK', NEW c \in Clients, NEW l, pc' = [pc EXCEPT ![c] = l],
           UNCHANGED <<sessions, grace, cancelled, todo, opened>>,
           \A e \in Clients : e # c => target'[e] = target[e],
           l \in CreatePC => opened[c] = 0,
           todo[c] # {} => l = "next" \/ (l \in DestroyPC /\ target'[c] \in todo[c]),
           Released(c) => \/ l \in GracePC \cup {"gone"}
                          \/ l \in DestroyPC /\ todo[c] # {},
           l \in {"next", "tail"} \/ (l \in DestroyPC /\ todo[c] # {})
               => \A d \in Displays : Owns(c, d) => d \in todo[c],
           l # "sleeping",
           l = "gone" => \A d \in Displays : Owns(c, d) => Destroying(d),
           pc[c] \in DestroyPC => l \in DestroyPC /\ target'[c] = target[c]
    PROVE  Retired'
<1> USE DEF Retired, TypeOK
<1>0. pc'[c] = l /\ \A e \in Clients : e # c => pc'[e] = pc[e]
  OBVIOUS
<1>1. ASSUME NEW d \in Displays, Destroying(d) PROVE Destroying(d)'
  <2>1. PICK e \in Clients : pc[e] \in DestroyPC /\ target[e] = d
    BY <1>1 DEF Destroying
  <2>2. pc'[e] \in DestroyPC /\ target'[e] = d
    BY <1>0, <2>1
  <2> QED BY <2>2 DEF Destroying
<1>2. \A e \in Clients : Released(e) => Released(e)'
  BY <1>0 DEF Released
<1>3. OpenedOnce'
  BY <1>0 DEF OpenedOnce, Owns
<1>4. ListsKnown'
  BY <1>0 DEF ListsKnown
<1>5. ListsComplete'
  BY <1>0 DEF ListsComplete, Owns
<1>6. FlagsKnown'
  BY <1>2 DEF FlagsKnown, Owns
<1>7. CancelledOwnsNothing'
  BY <1>0, <1>1 DEF CancelledOwnsNothing, Owns
<1>8. GoneOwnsNothing'
  BY <1>0, <1>1 DEF GoneOwnsNothing, Owns
<1> QED BY <1>3, <1>4, <1>5, <1>6, <1>7, <1>8

(* create_session_at, send_session_ack and the requests that only turn to a  *)
(* display.                                                                  *)
LEMMA ServingKeeps ==
    ASSUME Retired, TypeOK', MaxOpened = 1, NEW c \in Clients,
           \/ Connect(c) \/ Leave(c) \/ Bind(c) \/ AddCookie(c) \/ UndoPort(c)
           \/ UndoCookie(c) \/ Ack(c) \/ Unroute(c) \/ SenderEnds(c) \/ DeadWrite(c)
           \/ \E d \in Displays : Create(c, d) \/ DestroyRequest(c, d)
    PROVE  Retired'
<1> USE DEF Goto, Continue, Turn, registry, graceVars
<1>1. TypeOK /\ opened[c] \in {0, 1} /\ (pc[c] \in CreatePC => opened[c] = 0)
  BY DEF Retired, OpenedOnce
<1>2. /\ pc[c] \notin DestroyPC \cup GracePC \cup {"gone"}
      /\ UNCHANGED <<sessions, grace, cancelled, todo, opened>>
      /\ \A e \in Clients : e # c => target'[e] = target[e]
  BY <1>1 DEF TypeOK, DestroyPC, GracePC, Connect, Leave, Bind, AddCookie, UndoPort,
              UndoCookie, Ack, Unroute, SenderEnds, DeadWrite, Create, DestroyRequest
<1>3. todo[c] = {} /\ ~Released(c)
  BY <1>2 DEF Retired, ListsKnown, Released, GracePC
<1>4. PICK l \in {"serving", "leaving", "cookie", "insert", "unwind", "undo_cookie",
                  "d_flag", "release", "bind", "unroute"} :
        pc' = [pc EXCEPT ![c] = l] /\ (l \in CreatePC => opened[c] = 0)
  BY <1>1 DEF CreatePC, Connect, Leave, Bind, AddCookie, UndoPort, UndoCookie, Ack,
              Unroute, SenderEnds, DeadWrite, Create, DestroyRequest
<1> QED BY <1>2, <1>3, <1>4, OneTaskKeeps DEF DestroyPC, GracePC

(* InsertSession: the display is taken, or free and now the transport's only *)
(* one.                                                                      *)
LEMMA InsertKeeps ==
    ASSUME Retired, TypeOK', NEW c \in Clients, InsertSession(c)
    PROVE  Retired'
<1> USE DEF Retired, TypeOK
<1>1. todo[c] = {} /\ ~Released(c) /\ opened[c] = 0
  BY DEF InsertSession, ListsKnown, Released, DestroyPC, GracePC, OpenedOnce, CreatePC
<1>2. CASE sessions[target[c]] # NoSession
  BY <1>1, <1>2, OneTaskKeeps
     DEF InsertSession, Goto, graceVars, CreatePC, DestroyPC, GracePC
<1>3. CASE sessions[target[c]] = NoSession
  <2>1. /\ sessions' = [sessions EXCEPT ![target[c]] = [maker |-> c, client |-> c]]
        /\ opened' = [opened EXCEPT ![c] = opened[c] + 1]
        /\ pc' = [pc EXCEPT ![c] = "ack"]
        /\ UNCHANGED <<target, todo, grace, cancelled>>
    BY <1>3 DEF InsertSession, Goto, graceVars
  <2>2. \A d \in Displays : ~Owns(c, d)
    BY <1>1 DEF OpenedOnce
  <2>3. \A e \in Clients, d \in Displays :
          Owns(e, d)' <=> IF d = target[c] THEN e = c ELSE Owns(e, d)
    BY <2>1 DEF Owns
  <2>4. \A d \in Displays : ~Owns(NoClient, target[c]) \/ \A e \in Clients : ~Owns(e, target[c])
    BY RegistryAssumption DEF Owns
  <2>5. pc'[c] = "ack" /\ opened'[c] = 1
        /\ \A e \in Clients : e # c => pc'[e] = pc[e] /\ opened'[e] = opened[e]
    BY <1>1, <2>1
  <2>6. OpenedOnce'
    <3> SUFFICES ASSUME NEW e \in Clients
                 PROVE  /\ opened'[e] \in {0, 1} /\ (pc'[e] \in CreatePC => opened'[e] = 0)
                        /\ \A d \in Displays : Owns(e, d)' => opened'[e] = 1
                        /\ \A d, o \in Displays : Owns(e, d)' /\ Owns(e, o)' => d = o
      BY DEF OpenedOnce, Owns
    <3>1. CASE e = c
      BY <2>2, <2>3, <2>5, <3>1 DEF CreatePC
    <3>2. CASE e # c
      BY <2>3, <2>5, <3>2 DEF OpenedOnce
    <3> QED BY <3>1, <3>2
  <2>7. ListsKnown' /\ ListsComplete'
    BY <1>1, <2>1, <2>3, <2>5 DEF ListsKnown, ListsComplete
  <2>8. \A e \in Clients : Released(e)' <=> Released(e)
    BY <1>1, <2>1, <2>5 DEF Released, GracePC, DestroyPC
  <2>9. FlagsKnown'
    BY <1>1, <2>1, <2>3, <2>8 DEF FlagsKnown
  <2>10. \A d \in Displays : Destroying(d) => Destroying(d)'
    BY <2>1, <2>5 DEF Destroying, InsertSession, DestroyPC
  <2>11. CancelledOwnsNothing' /\ GoneOwnsNothing'
    BY <2>1, <2>3, <2>5, <2>10 DEF CancelledOwnsNothing, GoneOwnsNothing, Owns
  <2> QED BY <2>6, <2>7, <2>9, <2>11
<1> QED BY <1>2, <1>3

(* The first lock of try_resume_session: the session changes hands.          *)
LEMMA ResumeKeeps ==
    ASSUME Retired, TypeOK', MaxOpened = 1, NEW c \in Clients, NEW r \in Displays,
           Resume(c, r)
    PROVE  Retired'
<1> USE DEF Retired, TypeOK
<1>0. opened[c] \in {0, 1} /\ opened[c] < 1 /\ pc[c] = "serving"
  BY DEF Resume, OpenedOnce
<1>1. todo[c] = {} /\ ~Released(c) /\ opened[c] = 0
  <2>1. todo[c] = {}
    BY <1>0 DEF ListsKnown, DestroyPC
  <2>2. ~Released(c)
    BY <1>0 DEF Released, DestroyPC, GracePC
  <2>3. opened[c] = 0
    BY <1>0
  <2> QED BY <2>1, <2>2, <2>3
<1>2. /\ sessions' = [sessions EXCEPT ![r] = [maker |-> sessions[r].maker, client |-> c]]
      /\ opened' = [opened EXCEPT ![c] = opened[c] + 1]
      /\ pc' = [pc EXCEPT ![c] = "unflag"] /\ target' = [target EXCEPT ![c] = r]
      /\ UNCHANGED <<todo, grace, cancelled>>
  BY DEF Resume, Turn, Goto, graceVars
<1>3. \A d \in Displays : ~Owns(c, d)
  BY <1>1 DEF OpenedOnce
<1>4. \A e \in Clients, d \in Displays :
        Owns(e, d)' <=> IF d = r THEN e = c ELSE Owns(e, d)
  BY <1>2 DEF Owns
<1>5. pc'[c] = "unflag" /\ opened'[c] = 1
      /\ \A e \in Clients : e # c => /\ pc'[e] = pc[e] /\ opened'[e] = opened[e]
                                    /\ target'[e] = target[e]
  BY <1>1, <1>2
<1>6. OpenedOnce'
  <2> SUFFICES ASSUME NEW e \in Clients
               PROVE  /\ opened'[e] \in {0, 1} /\ (pc'[e] \in CreatePC => opened'[e] = 0)
                      /\ \A d \in Displays : Owns(e, d)' => opened'[e] = 1
                      /\ \A d, o \in Displays : Owns(e, d)' /\ Owns(e, o)' => d = o
    BY DEF OpenedOnce, Owns
  <2>1. CASE e = c
    BY <1>3, <1>4, <1>5, <2>1 DEF CreatePC
  <2>2. CASE e # c
    BY <1>4, <1>5, <2>2 DEF OpenedOnce
  <2> QED BY <2>1, <2>2
<1>7. ListsKnown' /\ ListsComplete'
  BY <1>1, <1>2, <1>4, <1>5 DEF ListsKnown, ListsComplete
<1>8. \A e \in Clients : Released(e)' <=> Released(e)
  BY <1>1, <1>2, <1>5 DEF Released, GracePC, DestroyPC
<1>9. FlagsKnown'
  BY <1>1, <1>2, <1>4, <1>8 DEF FlagsKnown
<1>10. \A d \in Displays : Destroying(d) => Destroying(d)'
  BY <1>2, <1>5 DEF Destroying, Resume, DestroyPC
<1>11. CancelledOwnsNothing' /\ GoneOwnsNothing'
  BY <1>2, <1>4, <1>5, <1>10 DEF CancelledOwnsNothing, GoneOwnsNothing, Owns
<1> QED BY <1>6, <1>7, <1>9, <1>11

(* A flag is taken and set: by the second lock of a resume, whose session is *)
(* still its own, or by a destroy, which is at work until the session goes.  *)
LEMMA CancelKeeps ==
    ASSUME Retired, TypeOK', ResumesUndisturbed, NEW c \in Clients,
           ResumeCancels(c) \/ DestroyCancels(c)
    PROVE  Retired'
<1> USE DEF Retired, TypeOK
<1> DEFINE r == target[c]
<1>1. /\ cancelled' = [e \in Clients |-> cancelled[e] \/ grace[r] = e]
      /\ grace' = [grace EXCEPT ![r] = NoClient]
      /\ UNCHANGED <<sessions, target, todo, opened>> /\ r \in Displays
      /\ pc' = [pc EXCEPT ![c] = IF pc[c] = "unflag" THEN "ack" ELSE "d_port"]
      /\ pc[c] \in {"unflag", "d_flag"}
  BY DEF ResumeCancels, DestroyCancels, CancelFlag, Continue, Goto, registry
<1> HIDE DEF r
<1>2. /\ pc'[c] = IF pc[c] = "unflag" THEN "ack" ELSE "d_port"
      /\ \A e \in Clients : e # c => pc'[e] = pc[e]
  BY <1>1
<1>3. OpenedOnce' /\ ListsKnown' /\ ListsComplete'
  <2>1. OpenedOnce'
    BY <1>1, <1>2 DEF OpenedOnce, Owns, CreatePC
  <2>2. ListsKnown'
    BY <1>1, <1>2 DEF ListsKnown, DestroyPC
  <2>3. ListsComplete'
    BY <1>1, <1>2 DEF ListsComplete, Owns, DestroyPC
  <2> QED BY <2>1, <2>2, <2>3
<1>4. \A e \in Clients : Released(e)' <=> Released(e)
  BY <1>1, <1>2 DEF Released, GracePC, DestroyPC
<1>5. FlagsKnown'
  BY <1>1, <1>4, RegistryAssumption DEF FlagsKnown, Owns
<1>6. \A d \in Displays : Destroying(d) => Destroying(d)'
  BY <1>1, <1>2 DEF Destroying, DestroyPC
<1>7. GoneOwnsNothing'
  BY <1>1, <1>2, <1>6 DEF GoneOwnsNothing
<1>8. CancelledOwnsNothing'
  <2> SUFFICES ASSUME NEW e \in Clients, NEW d \in Displays,
                      pc'[e] = "sleeping", cancelled'[e], Owns(e, d)'
               PROVE  Destroying(d)'
    BY DEF CancelledOwnsNothing
  <2>1. e # c /\ pc[e] = "sleeping" /\ Owns(e, d)
    BY <1>1, <1>2 DEF Owns
  <2>2. CASE cancelled[e]
    BY <1>6, <2>1, <2>2 DEF CancelledOwnsNothing
  <2>3. CASE ~cancelled[e]
    <3>1. grace[r] = e
      BY <1>1, <2>3
    <3>2. d = r
      BY <1>1, <2>1, <3>1 DEF FlagsKnown
    <3>3. pc[c] = "d_flag"
      BY <1>1, <2>1, <3>2, RegistryAssumption DEF ResumesUndisturbed, Owns, r
    <3> QED BY <1>1, <1>2, <3>2, <3>3 DEF Destroying, DestroyPC, r
  <2> QED BY <2>2, <2>3
<1> QED BY <1>3, <1>5, <1>7, <1>8

(* The steps of destroy_session between its first and its last.              *)
LEMMA DestroyGoesOn ==
    ASSUME Retired, TypeOK', NEW c \in Clients,
           \/ DestroyUnbinds(c) \/ DestroyTakesIndex(c) \/ DestroyLocks(c)
           \/ DestroyCloses(c) \/ DestroyRemovesCookie(c) \/ DestroyRemovesIngress(c)
    PROVE  Retired'
<1> USE DEF Goto, Continue, registry, graceVars
<1>1. /\ pc[c] \in DestroyPC
      /\ UNCHANGED <<sessions, grace, cancelled, target, todo, opened>>
  BY DEF DestroyPC, DestroyUnbinds, DestroyTakesIndex, DestroyLocks, DestroyCloses,
         DestroyRemovesCookie, DestroyRemovesIngress
<1>2. PICK l \in {"d_index", "d_close", "d_send", "d_cookie", "d_ingress", "d_session"} :
        pc' = [pc EXCEPT ![c] = l]
  BY DEF DestroyUnbinds, DestroyTakesIndex, DestroyLocks, DestroyCloses, DestroyRemovesCookie,
         DestroyRemovesIngress
<1>3. l \in DestroyPC /\ l \notin CreatePC \cup {"next", "tail", "sleeping", "gone"}
  BY DEF DestroyPC, CreatePC
<1>4. todo[c] # {} => /\ target[c] \in todo[c]
                      /\ \A d \in Displays : Owns(c, d) => d \in todo[c]
  BY <1>1 DEF Retired, ListsKnown, ListsComplete, DestroyPC
<1>5. Released(c) => todo[c] # {}
  BY <1>1 DEF Released, DestroyPC, GracePC
<1> QED BY <1>1, <1>2, <1>3, <1>4, <1>5, OneTaskKeeps

(* The last step of destroy_session.                                         *)
LEMMA SessionGoes ==
    ASSUME Retired, TypeOK', NEW c \in Clients, DestroyRemovesSession(c)
    PROVE  Retired'
<1> USE DEF Retired, TypeOK
<1> DEFINE r == target[c]
<1>1. /\ sessions' = [sessions EXCEPT ![r] = NoSession]
      /\ pc' = [pc EXCEPT ![c] = IF r \in todo[c] THEN "next" ELSE "serving"]
      /\ todo' = [todo EXCEPT ![c] = todo[c] \ {r}]
      /\ UNCHANGED <<target, grace, cancelled, opened>>
      /\ r \in Displays /\ pc[c] = "d_session"
  BY DEF DestroyRemovesSession, Goto, graceVars
<1> HIDE DEF r
<1>2. /\ pc'[c] = IF r \in todo[c] THEN "next" ELSE "serving"
      /\ todo'[c] = todo[c] \ {r}
      /\ \A e \in Clients : e # c => pc'[e] = pc[e] /\ todo'[e] = todo[e]
  BY <1>1
<1>3. \A e \in Clients, d \in Displays : Owns(e, d)' <=> d # r /\ Owns(e, d)
  BY <1>1, RegistryAssumption DEF Owns, NoSession
<1>4. todo[c] # {} => r \in todo[c] /\ \A d \in Displays : Owns(c, d) => d \in todo[c]
  BY <1>1 DEF ListsKnown, ListsComplete, DestroyPC, r
<1>5. OpenedOnce'
  BY <1>1, <1>2, <1>3 DEF OpenedOnce, CreatePC
<1>6. ListsKnown' /\ ListsComplete'
  BY <1>1, <1>2, <1>3, <1>4 DEF ListsKnown, ListsComplete, DestroyPC
<1>7. \A e \in Clients : Released(e) => Released(e)'
  BY <1>1, <1>2, <1>4 DEF Released, GracePC, DestroyPC
<1>8. FlagsKnown'
  BY <1>1, <1>3, <1>7 DEF FlagsKnown
<1>9. \A d \in Displays : d # r /\ Destroying(d) => Destroying(d)'
  BY <1>1, <1>2 DEF Destroying, r
<1>10. CancelledOwnsNothing' /\ GoneOwnsNothing'
  BY <1>1, <1>2, <1>3, <1>9 DEF CancelledOwnsNothing, GoneOwnsNothing, Owns
<1> QED BY <1>5, <1>6, <1>8, <1>10

(* release_session: one flag for what the transport owns.                    *)
LEMMA ReleaseKeeps ==
    ASSUME Retired, TypeOK', NEW c \in Clients, Release(c)
    PROVE  Retired'
<1> USE DEF Retired, TypeOK
<1>1. /\ grace' = [d \in Displays |-> IF Owns(c, d) THEN c ELSE grace[d]]
      /\ cancelled' = [e \in Clients |->
            cancelled[e] \/ \E d \in Displays : Owns(c, d) /\ grace[d] = e]
      /\ UNCHANGED <<sessions, target, todo, opened>> /\ pc[c] = "release"
      /\ pc' = [pc EXCEPT ![c] = IF OwnedBy(c) = {} THEN "gone" ELSE "sleeping"]
  BY DEF Release, Continue, Goto, registry, OwnedBy, Owns
<1>2. /\ pc'[c] \in {"gone", "sleeping"} /\ \A e \in Clients : e # c => pc'[e] = pc[e]
      /\ pc'[c] = "gone" => \A d \in Displays : ~Owns(c, d)
  BY <1>1 DEF OwnedBy, Owns
<1>3. todo[c] = {} /\ ~Released(c) /\ ~cancelled[c] /\ \A d \in Displays : grace[d] # c
  BY <1>1 DEF ListsKnown, Released, DestroyPC, GracePC, FlagsKnown
<1>4. OpenedOnce' /\ ListsKnown' /\ ListsComplete'
  BY <1>1, <1>2, <1>3 DEF OpenedOnce, ListsKnown, ListsComplete, Owns, CreatePC, DestroyPC
<1>5. \A e \in Clients : Released(e) => Released(e)'
  BY <1>1, <1>2, <1>3 DEF Released
<1>6. Released(c)'
  BY <1>2 DEF Released, GracePC
<1>7. FlagsKnown'
  <2>1. \A e \in Clients : cancelled'[e] => Released(e)'
    BY <1>1, <1>5 DEF FlagsKnown
  <2>2. ASSUME NEW e \in Clients, NEW d \in Displays, grace'[d] = e
        PROVE  Released(e)' /\ \A o \in Displays : Owns(e, o)' => o = d
    <3>1. CASE Owns(c, d)
      BY <1>1, <1>6, <2>2, <3>1 DEF OpenedOnce, Owns
    <3>2. CASE ~Owns(c, d)
      BY <1>1, <1>5, <2>2, <3>2 DEF FlagsKnown, Owns
    <3> QED BY <3>1, <3>2
  <2> QED BY <2>1, <2>2 DEF FlagsKnown
<1>8. \A d \in Displays : Destroying(d) => Destroying(d)'
  BY <1>1, <1>2 DEF Destroying, DestroyPC
<1>9. GoneOwnsNothing'
  BY <1>1, <1>2, <1>8 DEF GoneOwnsNothing, Owns
<1>10. CancelledOwnsNothing'
  <2> SUFFICES ASSUME NEW e \in Clients, NEW d \in Displays,
                      pc'[e] = "sleeping", cancelled'[e], Owns(e, d)'
               PROVE  Destroying(d)'
    BY DEF CancelledOwnsNothing
  <2>1. e # c
    BY <1>1, <1>3
  <2>2. CASE cancelled[e]
    BY <1>1, <1>2, <1>8, <2>1, <2>2 DEF CancelledOwnsNothing, Owns
  <2>3. CASE ~cancelled[e]
    <3>1. PICK o \in Displays : Owns(c, o) /\ grace[o] = e
      BY <1>1, <2>3
    <3>2. d = o
      BY <1>1, <3>1 DEF FlagsKnown, Owns
    <3> QED BY <1>1, <2>1, <3>1, <3>2 DEF Owns
  <2> QED BY <2>2, <2>3
<1> QED BY <1>4, <1>7, <1>9, <1>10

(* The grace task: it wakes, reads what its transport owns, destroys it and  *)
(* clears the flags.                                                         *)
LEMMA GraceKeeps ==
    ASSUME Retired, TypeOK', NEW c \in Clients, GraceStep(c)
    PROVE  Retired'
<1>1. CASE Expire(c)
  <2>1. /\ pc[c] = "sleeping" /\ UNCHANGED <<sessions, grace, cancelled, target, todo, opened>>
        /\ pc' = [pc EXCEPT ![c] = IF cancelled[c] THEN "gone" ELSE "look"]
    BY <1>1 DEF Expire, Continue, Goto, registry, graceVars
  <2>2. todo[c] = {} /\ pc[c] \notin DestroyPC
    BY <2>1 DEF Retired, ListsKnown, DestroyPC
  <2>3. cancelled[c] => \A d \in Displays : Owns(c, d) => Destroying(d)
    BY <2>1 DEF Retired, CancelledOwnsNothing
  <2>4. CASE cancelled[c]
    BY <2>1, <2>2, <2>3, <2>4, OneTaskKeeps DEF CreatePC, DestroyPC
  <2>5. CASE ~cancelled[c]
    BY <2>1, <2>2, <2>5, OneTaskKeeps DEF CreatePC, DestroyPC, GracePC
  <2> QED BY <2>4, <2>5
<1>2. CASE Look(c)
  <2> USE DEF Retired, TypeOK
  <2>1. /\ todo' = [todo EXCEPT ![c] = OwnedBy(c)] /\ pc[c] = "look"
        /\ pc' = [pc EXCEPT ![c] = "next"]
        /\ UNCHANGED <<sessions, grace, cancelled, target, opened>>
    BY <1>2 DEF Look, Goto, registry, graceVars
  <2>2. /\ pc'[c] = "next" /\ todo'[c] = OwnedBy(c)
        /\ \A e \in Clients : e # c => pc'[e] = pc[e] /\ todo'[e] = todo[e]
    BY <2>1
  <2>3. \A d \in Displays : Destroying(d) => Destroying(d)'
    BY <2>1, <2>2 DEF Destroying, DestroyPC
  <2>4. OpenedOnce' /\ ListsKnown' /\ ListsComplete'
    BY <2>1, <2>2 DEF OpenedOnce, ListsKnown, ListsComplete, Owns, OwnedBy, CreatePC
  <2>5. \A e \in Clients : Released(e) => Released(e)'
    BY <2>1, <2>2 DEF Released, GracePC
  <2>6. FlagsKnown' /\ CancelledOwnsNothing' /\ GoneOwnsNothing'
    BY <2>1, <2>2, <2>3, <2>5
       DEF FlagsKnown, CancelledOwnsNothing, GoneOwnsNothing, Owns
  <2> QED BY <2>4, <2>6
<1>3. CASE DestroyNext(c)
  <2>1. /\ pc[c] = "next" /\ UNCHANGED <<sessions, grace, cancelled, todo, opened>>
        /\ \A e \in Clients : e # c => target'[e] = target[e]
    BY <1>3 DEF DestroyNext, Turn, Goto, registry, graceVars, Retired, TypeOK
  <2>2. /\ pc[c] \notin DestroyPC
        /\ \A d \in Displays : Owns(c, d) => d \in todo[c]
    BY <2>1 DEF Retired, ListsComplete, DestroyPC
  <2>3. CASE \E d \in todo[c] : Turn(c, d, "d_flag")
    <3>1. target'[c] \in todo[c] /\ pc' = [pc EXCEPT ![c] = "d_flag"]
      BY <2>3 DEF Turn, Goto, Retired, TypeOK
    <3> QED BY <2>1, <2>2, <3>1, OneTaskKeeps DEF CreatePC, DestroyPC
  <2>4. CASE todo[c] = {} /\ Turn(c, target[c], "tail")
    BY <2>1, <2>2, <2>4, OneTaskKeeps DEF Turn, Goto, CreatePC, DestroyPC, GracePC
  <2> QED BY <1>3, <2>3, <2>4 DEF DestroyNext
<1>4. CASE GraceTail(c)
  <2> USE DEF Retired, TypeOK
  <2>1. /\ grace' = [d \in Displays |-> IF d \in doomed[c] THEN NoClient ELSE grace[d]]
        /\ pc' = [pc EXCEPT ![c] = "gone"] /\ pc[c] = "tail"
        /\ UNCHANGED <<sessions, cancelled, target, todo, opened>>
    BY <1>4 DEF GraceTail, Continue, Goto, registry
  <2>2. todo[c] = {} /\ \A d \in Displays : ~Owns(c, d)
    BY <2>1 DEF ListsKnown, ListsComplete, DestroyPC
  <2>3. pc'[c] = "gone" /\ \A e \in Clients : e # c => pc'[e] = pc[e]
    BY <2>1
  <2>4. \A d \in Displays : Destroying(d) => Destroying(d)'
    BY <2>1, <2>3 DEF Destroying, DestroyPC
  <2>5. OpenedOnce' /\ ListsKnown' /\ ListsComplete'
    BY <2>1, <2>2, <2>3 DEF OpenedOnce, ListsKnown, ListsComplete, Owns, CreatePC
  <2>6. \A e \in Clients : Released(e) => Released(e)'
    BY <2>1, <2>3 DEF Released
  <2>7. FlagsKnown' /\ CancelledOwnsNothing' /\ GoneOwnsNothing'
    BY <2>1, <2>2, <2>3, <2>4, <2>6, RegistryAssumption
       DEF FlagsKnown, CancelledOwnsNothing, GoneOwnsNothing, Owns
  <2> QED BY <2>5, <2>7
<1> QED BY <1>1, <1>2, <1>3, <1>4 DEF GraceStep

(* Every step, while resumes are undisturbed.                                *)
LEMMA RetiredStep ==
    ASSUME MaxOpened = 1, Retired, ResumesUndisturbed, [Next]_vars
    PROVE  Retired'
<1>0. TypeOK'
  BY TypeStep DEF Retired
<1>1. ASSUME NEW c \in Clients, Request(c) PROVE Retired'
  BY <1>0, <1>1, ServingKeeps, ResumeKeeps DEF Request, CreateAuto
<1>2. ASSUME NEW c \in Clients, TaskStep(c) \/ DeadWrite(c) PROVE Retired'
  BY <1>0, <1>2, ServingKeeps, InsertKeeps, CancelKeeps, DestroyGoesOn, SessionGoes,
     ReleaseKeeps, GraceKeeps DEF TaskStep, CreateStep, DestroyStep
<1>3. ASSUME NEW x \in Conns,
             PumpStep(x) \/ EventStep(x) \/ AppStep(x) \/ \E d \in Displays : Accept(x, d)
      PROVE  Retired'
  BY <1>0, <1>3, OthersKeep
     DEF PumpStep, EventStep, AppStep, TakeIngress, CheckLimit, InsertConn, IndexConn,
         Announce, ChannelClosed, Unregister, GiveUp, AppCloses, AppStalls, Clogs,
         AppReads, Accept, registry, graceVars, taskVars
<1>4. CASE UNCHANGED vars
  BY <1>0, <1>4, OthersKeep DEF vars, registry, graceVars, taskVars
<1> QED BY <1>1, <1>2, <1>3, <1>4 DEF Next

LEMMA RetiredInit == Init => Retired
BY RegistryAssumption
   DEF Init, Retired, TypeOK, TaskPC, CreatePC, DestroyPC, GracePC, PumpPC, AppState, NoSession, OpenedOnce,
       ListsKnown, ListsComplete, FlagsKnown, CancelledOwnsNothing, GoneOwnsNothing, Owns

(* session/mod.rs try_resume_session, release_session and destroy_session:   *)
(* for any number of transports and displays, when every transport serves    *)
(* one session, the only way a transport that is gone can leave a session    *)
(* behind is a resume whose two locks another transport's resume or create   *)
(* comes between.                                                            *)
THEOREM OnlyTornResumesLeak ==
    ASSUME MaxOpened = 1
    PROVE  Spec /\ []ResumesUndisturbed => []GoneOwnsNothing
<1>1. Retired /\ ResumesUndisturbed /\ [Next]_vars => Retired'
  BY RetiredStep
<1>2. Retired => GoneOwnsNothing
  BY DEF Retired
<1> QED BY <1>1, <1>2, RetiredInit, PTL DEF Spec

\* With two transports, a resume takes the session of the only other one.
ResumedAlone ==
    \A c, e \in Clients : pc[e] = "unflag" /\ c # e =>
        opened[c] = 1 /\ \A d \in Displays : ~Owns(c, d)

(* One transport and the one that takes over from it: no interleaving of     *)
(* the reconnect with the grace task, the writer's end and a destroy leaves  *)
(* a session to a transport that is gone, on any set of displays.            *)
THEOREM NobodyLeavesASession ==
    ASSUME MaxOpened = 1, NEW a, NEW b, Clients = {a, b}
    PROVE  Spec => []GoneOwnsNothing
<1> DEFINE Both == Retired /\ ResumedAlone
<1>1. Init => Both
  BY RetiredInit DEF Init, ResumedAlone
<1>2. Both => ResumesUndisturbed
  <2> SUFFICES ASSUME Both, NEW e \in Clients, pc[e] = "unflag"
               PROVE  sessions[target[e]].client \in {e, NoClient}
    BY DEF ResumesUndisturbed
  <2>1. sessions[target[e]] \in Session \cup {NoSession} /\ target[e] \in Displays
    BY DEF Retired, TypeOK
  <2>2. sessions[target[e]].client \in Clients \cup {NoClient}
    BY <2>1 DEF Session, NoSession
  <2> QED BY <2>1, <2>2 DEF ResumedAlone, Owns
<1>3. Both /\ [Next]_vars => Both'
  <2> SUFFICES ASSUME Both, [Next]_vars PROVE ResumedAlone'
    BY <1>2, RetiredStep
  <2> USE DEF Goto, Continue, Turn, registry, graceVars, connVars, taskVars, pumpVars
  <2>0. Retired /\ Retired' /\ TypeOK /\ TypeOK' /\ OpenedOnce /\ OpenedOnce'
    BY <1>2, RetiredStep DEF Retired
  <2>1. ASSUME NEW r \in Clients, NEW d \in Displays, Resume(r, d) PROVE ResumedAlone'
    <3>0. opened[r] \in {0, 1} /\ opened[r] < 1 /\ opened' = [opened EXCEPT ![r] = opened[r] + 1]
      BY <2>0, <2>1 DEF Resume, OpenedOnce
    <3>a. opened[r] = 0
      BY <3>0
    <3>b. /\ sessions[d] \in Session
          /\ sessions' = [sessions EXCEPT ![d] = [maker |-> sessions[d].maker, client |-> r]]
          /\ pc' = [pc EXCEPT ![r] = "unflag"]
      BY <2>0, <2>1 DEF Resume, TypeOK
    <3>1. /\ opened[r] = 0 /\ sessions[d] \in Session
          /\ sessions' = [sessions EXCEPT ![d] = [maker |-> sessions[d].maker, client |-> r]]
          /\ opened' = [opened EXCEPT ![r] = 1] /\ pc' = [pc EXCEPT ![r] = "unflag"]
      BY <3>0, <3>a, <3>b
    <3>2. PICK o \in Clients : Owns(o, d)
      BY <3>1 DEF Session, Owns
    <3>3. o # r /\ opened[o] = 1 /\ \A x \in Displays : Owns(o, x) => x = d
      BY <2>0, <3>1, <3>2 DEF OpenedOnce
    <3>4. Clients = {o, r}
      BY <3>3
    <3>5. opened'[o] = 1 /\ pc'[o] = pc[o] /\ \A x \in Displays : ~Owns(o, x)'
      BY <2>0, <3>1, <3>3 DEF TypeOK, Owns
    <3>6. pc[o] # "unflag"
      BY <3>1, <3>3 DEF ResumedAlone
    <3> QED BY <3>4, <3>5, <3>6 DEF ResumedAlone
  <2>2. ASSUME NEW c \in Clients, InsertSession(c) PROVE ResumedAlone'
    <3>1. opened[c] = 0 /\ pc[c] = "insert"
      BY <2>0, <2>2 DEF InsertSession, OpenedOnce, CreatePC
    <3>2. \A e \in Clients : pc[e] # "unflag"
      BY <3>1 DEF ResumedAlone
    <3>3. \A e \in Clients : pc'[e] # "unflag"
      BY <2>0, <2>2, <3>2 DEF InsertSession, TypeOK
    <3> QED BY <3>3 DEF ResumedAlone
  <2>3. ASSUME NEW c \in Clients, DestroyRemovesSession(c) PROVE ResumedAlone'
    <3>1. /\ sessions' = [sessions EXCEPT ![target[c]] = NoSession] /\ UNCHANGED opened
          /\ pc' = [pc EXCEPT ![c] = IF target[c] \in todo[c] THEN "next" ELSE "serving"]
      BY <2>3 DEF DestroyRemovesSession
    <3>2. \A e \in Clients, d \in Displays : Owns(e, d)' => Owns(e, d)
      BY <2>0, <3>1, RegistryAssumption DEF TypeOK, Owns, NoSession
    <3>3. \A e \in Clients : pc'[e] = "unflag" => pc[e] = "unflag"
      BY <2>0, <3>1 DEF TypeOK
    <3> QED BY <3>1, <3>2, <3>3 DEF ResumedAlone
  <2>4. ASSUME UNCHANGED <<sessions, opened>>,
               \A e \in Clients : pc'[e] = "unflag" => pc[e] = "unflag"
        PROVE  ResumedAlone'
    BY <2>4 DEF ResumedAlone, Owns
  <2>5. ASSUME NEW c \in Clients, Request(c) PROVE ResumedAlone'
    BY <2>0, <2>1, <2>4, <2>5
       DEF Request, Connect, CreateAuto, Create, Leave, DestroyRequest, TypeOK
  <2>6. ASSUME NEW c \in Clients, CreateStep(c) \/ ResumeCancels(c) \/ Ack(c)
        PROVE  ResumedAlone'
    BY <2>0, <2>2, <2>4, <2>6
       DEF CreateStep, Bind, AddCookie, UndoPort, UndoCookie, ResumeCancels, Ack, TypeOK
  <2>7. ASSUME NEW c \in Clients, DestroyStep(c) PROVE ResumedAlone'
    BY <2>0, <2>3, <2>4, <2>7
       DEF DestroyStep, Unroute, DestroyCancels, DestroyUnbinds, DestroyTakesIndex,
           DestroyLocks, DestroyCloses, DestroyRemovesCookie, DestroyRemovesIngress, TypeOK
  <2>8. ASSUME NEW c \in Clients,
               SenderEnds(c) \/ DeadWrite(c) \/ Release(c) \/ GraceStep(c)
        PROVE  ResumedAlone'
    BY <2>0, <2>4, <2>8
       DEF SenderEnds, DeadWrite, Release, GraceStep, Expire, Look, DestroyNext, GraceTail,
           TypeOK
  <2>9. ASSUME NEW x \in Conns,
               PumpStep(x) \/ EventStep(x) \/ AppStep(x) \/ \E d \in Displays : Accept(x, d)
        PROVE  ResumedAlone'
    BY <2>4, <2>9
       DEF PumpStep, EventStep, AppStep, TakeIngress, CheckLimit, InsertConn, IndexConn,
           Announce, ChannelClosed, Unregister, GiveUp, AppCloses, AppStalls, Clogs,
           AppReads, Accept
  <2>10. CASE UNCHANGED vars
    BY <2>4, <2>10 DEF vars
  <2> QED BY <2>5, <2>6, <2>7, <2>8, <2>9, <2>10 DEF Next, TaskStep
<1>4. Both => GoneOwnsNothing
  BY DEF Retired
<1> HIDE DEF Both
<1> QED BY <1>1, <1>3, <1>4, PTL DEF Spec
=============================================================================
