------------------------------ MODULE Launcher ------------------------------
(* The GUI's launcher (launcher/mod.rs, record.rs, session.rs): the sessions
   the operator starts inside the GUI's process, the records that list them,
   the tasks that run them and outlive their records, the force signal that
   gives up a stuck SSH tunnel, and the relay's listening port.  The relay, the
   connector and the tunnel themselves are modules of their own; here they are
   what the launcher sees of them: a phase and an end.  *)
EXTENDS Integers, Sequences

CONSTANT MaxStarts            \* bound: sessions started

ASSUME StartsAssumption == MaxStarts \in Nat

Ids == 1 .. MaxStarts
SessionKinds == {"server", "client", "ssh"}

VARIABLES
  nextId,     \* Launcher.next_id
  listed,     \* Launcher.inner: the ids with a record
  task,       \* per id: the session's task and the state its record shares
  port        \* the id whose relay holds the listening port, 0 when free

launcherVars == <<nextId, listed, task, port>>

(* at: where the session's task is ("opening": the first SSH tunnel;
   "destroying": a relay that left its accept loop and awaits
   destroy_all_sessions; "releasing": one that has told its waiters that it
   stopped but still holds its listener).  phase: the connector's phase, or
   whether the relay is running.
   stop: the stop request.  terminal: the task's verdict, once written.
   force: where the sender of the force signal is.  *)
Absent == [kind |-> "none", at |-> "over", phase |-> "stopped",
           stop |-> FALSE, terminal |-> "none", force |-> "none"]

Born(kind) ==
  CASE kind = "server" -> [Absent EXCEPT !.kind = kind, !.at = "running",
                                         !.phase = "serving"]
    [] kind = "client" -> [Absent EXCEPT !.kind = kind, !.at = "running",
                                         !.phase = "connecting"]
    [] kind = "ssh" -> [Absent EXCEPT !.kind = kind, !.at = "opening",
                                      !.phase = "connecting",
                                      !.force = "held"]

(* map_connector_phase, and the relay's is_running.  *)
Mapped(phase) ==
  CASE phase = "connecting" -> "starting"
    [] phase = "serving" -> "running"
    [] OTHER -> phase

PhaseOfConnector(t) == Mapped(t.phase)

(* SessionRecord::snapshot: a verdict overrides what the connector says.  *)
SnapshotPhase(t) == IF t.terminal # "none" THEN t.terminal ELSE Mapped(t.phase)

Live(phase) == phase \notin {"stopped", "failed"}

LauncherInit ==
  /\ nextId = 1 /\ listed = {} /\ port = 0
  /\ task = [i \in Ids |-> Absent]

(* Launcher::start: the id is taken before anything can fail; a relay binds
   its port before start returns.  *)
Start(kind) ==
  /\ nextId <= MaxStarts
  /\ nextId' = nextId + 1
  /\ IF kind = "server" /\ port # 0
     THEN UNCHANGED <<listed, task, port>>
     ELSE /\ listed' = listed \cup {nextId}
          /\ task' = [task EXCEPT ![nextId] = Born(kind)]
          /\ port' = IF kind = "server" THEN nextId ELSE port

(* The request that leaves the force signal in the record.  *)
StoppedInPlace(t) == [t EXCEPT !.stop = TRUE]

(* SessionRecord::request_stop, and Launcher::stop around it: a relay's running
   flag is taken down at once, the force signal leaves the record for a thread
   that sends it after STOP_GRACE.  *)
Stopped(t) ==
  [t EXCEPT !.stop = TRUE, !.force = IF @ = "held" THEN "armed" ELSE @,
            !.phase = IF t.kind = "server" THEN "stopped" ELSE @]

(* Dropping a record drops a sender it still holds, which wakes the task as
   sending it would.  *)
Dropped(t) == [t EXCEPT !.force = IF @ = "held" THEN "dropped" ELSE @]

(* The record removed without the request first.  *)
BackendStopDropped(ids) ==
  /\ task' = [i \in Ids |-> IF i \in ids \cap listed THEN Dropped(task[i])
                            ELSE task[i]]
  /\ listed' = listed \ ids

(* LauncherBackend::stop: Launcher::stop, then Launcher::remove.  Ids without a
   record are ignored.  *)
BackendStop(ids) ==
  /\ task' = [i \in Ids |-> IF i \in ids \cap listed
                            THEN Dropped(Stopped(task[i])) ELSE task[i]]
  /\ listed' = listed \ ids

(* Launcher::stop_all when the window closes.  *)
StopAll ==
  /\ task' = [i \in Ids |-> IF i \in listed THEN Stopped(task[i])
                            ELSE task[i]]
  /\ UNCHANGED <<nextId, listed, port>>

-----------------------------------------------------------------------------
(* The tasks.  *)

Becomes(i, t) == task' = [task EXCEPT ![i] = t]

(* The relay leaves its accept loop when it is told to stop, or by itself when
   accept fails.  *)
RelayLeaves(i) ==
  /\ task[i].kind = "server" /\ task[i].at = "running"
  /\ Becomes(i, [task[i] EXCEPT !.at = "destroying"])
  /\ UNCHANGED <<nextId, listed, port>>

(* destroy_all_sessions returns: the relay marks itself stopped and tells its
   waiters, before its listener is dropped.  It may also never return: an
   application that does not read holds it up (see SessionManager).  *)
RelayDestroyed(i) ==
  /\ task[i].kind = "server" /\ task[i].at = "destroying"
  /\ Becomes(i, [task[i] EXCEPT !.at = "releasing", !.phase = "stopped"])
  /\ UNCHANGED <<nextId, listed, port>>

RelayReleases(i) ==
  /\ task[i].kind = "server" /\ task[i].at = "releasing"
  /\ Becomes(i, [task[i] EXCEPT !.at = "over"])
  /\ port' = 0
  /\ UNCHANGED <<nextId, listed>>

(* The task that waits for wait_stopped and writes the verdict.  *)
RelayVerdict(i) ==
  /\ task[i].kind = "server" /\ task[i].at \in {"releasing", "over"}
  /\ task[i].terminal = "none"
  /\ Becomes(i, [task[i] EXCEPT !.terminal = "stopped"])
  /\ UNCHANGED <<nextId, listed, port>>

(* The connector connects, serves and reconnects.  *)
ConnectorMoves(i) ==
  /\ task[i].kind \in {"client", "ssh"} /\ task[i].at = "running"
  /\ \E move \in {<<"connecting", "serving">>, <<"connecting", "reconnecting">>,
                  <<"serving", "reconnecting">>, <<"reconnecting", "connecting">>} :
       /\ task[i].phase = move[1]
       /\ Becomes(i, [task[i] EXCEPT !.phase = move[2]])
  /\ UNCHANGED <<nextId, listed, port>>

(* It ends: stopped (on request, or when the relay ends the session), or
   failed.  A client's task is over with it.  *)
ConnectorEnds(i) ==
  /\ task[i].kind \in {"client", "ssh"} /\ task[i].at = "running"
  /\ Live(task[i].phase)
  /\ \E end \in {"stopped", "failed"} :
       Becomes(i, [task[i] EXCEPT !.phase = end,
                     !.at = IF task[i].kind = "client" THEN "over" ELSE @])
  /\ UNCHANGED <<nextId, listed, port>>

(* open_tunnel, bounded by READY_TIMEOUT.  *)
TunnelOpens(i) ==
  /\ task[i].kind = "ssh" /\ task[i].at = "opening"
  /\ Becomes(i, [task[i] EXCEPT !.at = "running"])
  /\ UNCHANGED <<nextId, listed, port>>

TunnelFailsToOpen(i) ==
  /\ task[i].kind = "ssh" /\ task[i].at = "opening"
  /\ Becomes(i, [task[i] EXCEPT !.at = "over", !.terminal = "failed"])
  /\ UNCHANGED <<nextId, listed, port>>

(* ssh_conclusion: the session ended, or the tunnel is down for good while the
   connector, dropped where it was, still has a live phase.  *)
TunnelConcludes(i) ==
  /\ task[i].kind = "ssh" /\ task[i].at = "running"
  /\ Becomes(i, [task[i] EXCEPT !.at = "over",
                   !.terminal = IF task[i].phase = "stopped" THEN "stopped"
                                ELSE "failed"])
  /\ UNCHANGED <<nextId, listed, port>>

(* The thread that sleeps STOP_GRACE and sends the force signal.  *)
GraceElapses(i) ==
  /\ task[i].force = "armed"
  /\ Becomes(i, [task[i] EXCEPT !.force = "fired"])
  /\ UNCHANGED <<nextId, listed, port>>

(* A task that never looks at the force signal.  *)
GivesUpNever(i) == FALSE /\ UNCHANGED launcherVars

(* The task gives up the tunnel on the force signal.  *)
GivesUp(i) ==
  /\ task[i].kind = "ssh" /\ task[i].at = "running"
  /\ task[i].force \in {"fired", "dropped"}
  /\ Becomes(i, [task[i] EXCEPT !.at = "over", !.terminal = "failed"])
  /\ UNCHANGED <<nextId, listed, port>>

(* Steps of the connector, and of everything around it.  *)
ConnectorStep(i) == ConnectorMoves(i) \/ ConnectorEnds(i)

TaskStep(i) ==
  \/ RelayLeaves(i) \/ RelayDestroyed(i) \/ RelayReleases(i) \/ RelayVerdict(i)
  \/ TunnelOpens(i) \/ TunnelFailsToOpen(i) \/ TunnelConcludes(i)
  \/ GraceElapses(i) \/ GivesUp(i)

(* The steps the runtime and the operating system see to: a relay told to stop
   leaves its loop, one whose sessions are destroyed drops its listener,
   opening a tunnel takes at most READY_TIMEOUT, the grace thread wakes up, and
   a ready branch of the task's select is taken.  The connector is not among
   them, it can wait for an answer that never comes, and neither is
   RelayDestroyed, which waits for the applications.  *)
DueStep(i) ==
  \/ task[i].stop /\ RelayLeaves(i)
  \/ RelayReleases(i) \/ RelayVerdict(i)
  \/ TunnelOpens(i) \/ TunnelFailsToOpen(i)
  \/ GraceElapses(i) \/ GivesUp(i)

-----------------------------------------------------------------------------
(* Records and tasks hold values of their kind, a record is of a session that
   was started, and the port belongs to the one relay that has not released
   it.  *)
RecordsTyped ==
  /\ nextId \in 1 .. MaxStarts + 1 /\ listed \subseteq 1 .. nextId - 1
  /\ \A i \in Ids :
       /\ task[i].kind \in SessionKinds \cup {"none"}
       /\ task[i].at \in {"opening", "running", "destroying", "releasing",
                          "over"}
       /\ task[i].phase \in {"connecting", "serving", "reconnecting",
                             "stopped", "failed"}
       /\ task[i].terminal \in {"none", "stopped", "failed"}
       /\ task[i].force \in {"none", "held", "armed", "fired", "dropped"}
       /\ (port = i) <=> (task[i].kind = "server" /\ task[i].at # "over")

=============================================================================
