---------------------------- MODULE ConsoleProofs ----------------------------
(* The launcher's records and tasks under the whole console, for any number of
   sessions started, any plan of the operator's inputs and any page.  *)
EXTENDS Console, TLAPS

Phases == {"connecting", "serving", "reconnecting", "stopped", "failed"}

TaskType ==
  [kind : SessionKinds \cup {"none"}, 
   at : {"opening", "running", "destroying", "releasing", "over"},
   phase : Phases, stop : BOOLEAN, terminal : {"none", "stopped", "failed"},
   force : {"none", "held", "armed", "fired", "dropped"}]

(* A task past its end has a verdict, or a phase that says so: what EndedIsShown
   rests on, stated of every task, listed or not.  *)
EndKnown(t) ==
  t.at \in {"releasing", "over"} =>
    t.terminal # "none" \/ t.phase \in {"stopped", "failed"}

PortOwned(p, i, t) == (p = i) <=> (t.kind = "server" /\ t.at # "over")

(* A session not yet started has no trace.  *)
Unborn == \A i \in Ids : i >= nextId => task[i] = Absent

IInv ==
  /\ nextId \in 1 .. MaxStarts + 1 /\ listed \subseteq 1 .. nextId - 1
  /\ task \in [Ids -> TaskType]
  /\ port \in 0 .. MaxStarts
  /\ Unborn
  /\ \A i \in Ids : EndKnown(task[i])
  /\ \A i \in Ids : PortOwned(port, i, task[i])
  /\ NoOrphans
  /\ GraceKept

-----------------------------------------------------------------------------
(* One task moves by itself: nothing but its own record is at stake.  *)
LEMMA TaskMoves ==
  ASSUME IInv, NEW i \in Ids, NEW t \in TaskType, Becomes(i, t),
         UNCHANGED <<nextId, listed, open>>,
         i < nextId, t.stop = task[i].stop, t.force # "dropped", EndKnown(t),
         task[i].at = "over" => t.at = "over",
         port' \in 0 .. MaxStarts,
         PortOwned(port', i, t), \A j \in Ids \ {i} : (port' = j) <=> (port = j)
  PROVE  IInv'
<1>1. /\ task' \in [Ids -> TaskType] /\ task'[i] = t
      /\ \A j \in Ids \ {i} : task'[j] = task[j]
  BY DEF IInv, Becomes
<1>2. Unborn'
  BY <1>1, StartsAssumption DEF IInv, Unborn, Ids
<1>3. \A j \in Ids : EndKnown(task'[j])
  BY <1>1 DEF IInv
<1>4. \A j \in Ids : PortOwned(port', j, task'[j])
  BY <1>1 DEF IInv, PortOwned
<1>5. NoOrphans'
  BY <1>1 DEF IInv, NoOrphans
<1>6. GraceKept'
  BY <1>1 DEF IInv, GraceKept
<1> QED BY <1>1, <1>2, <1>3, <1>4, <1>5, <1>6 DEF IInv

(* Only a session that was started takes a step.  *)
LEMMA OnlyBornMove ==
  ASSUME IInv, NEW i \in Ids, task[i] # Absent
  PROVE  i < nextId
BY StartsAssumption DEF IInv, Unborn, Ids

LEMMA StepOfTask ==
  ASSUME IInv, NEW i \in Ids, TaskStep(i) \/ ConnectorStep(i), UNCHANGED open
  PROVE  IInv'
<1>0. /\ task[i] \in TaskType /\ port \in 0 .. MaxStarts /\ EndKnown(task[i])
      /\ PortOwned(port, i, task[i]) /\ task[i].force # "dropped"
  BY DEF IInv, GraceKept
<1>a. ASSUME task[i].kind # "none" \/ task[i].force # "none" PROVE i < nextId
  BY <1>a, OnlyBornMove DEF Absent
<1> USE DEF TaskType, Phases, SessionKinds, EndKnown
<1>1. CASE RelayLeaves(i)
  <2> DEFINE t == [task[i] EXCEPT !.at = "destroying"]
  <2>1. t \in TaskType /\ EndKnown(t) /\ PortOwned(port, i, t)
    BY <1>0, <1>1 DEF RelayLeaves, PortOwned
  <2> QED BY <1>0, <1>a, <1>1, <2>1, TaskMoves DEF RelayLeaves
<1>10. CASE RelayDestroyed(i)
  <2> DEFINE t == [task[i] EXCEPT !.at = "releasing", !.phase = "stopped"]
  <2>1. t \in TaskType /\ EndKnown(t) /\ PortOwned(port, i, t)
    BY <1>0, <1>10 DEF RelayDestroyed, PortOwned
  <2> QED BY <1>0, <1>a, <1>10, <2>1, TaskMoves DEF RelayDestroyed
<1>2. CASE RelayReleases(i)
  <2> DEFINE t == [task[i] EXCEPT !.at = "over"]
  <2>1. t \in TaskType /\ EndKnown(t) /\ PortOwned(0, i, t)
    BY <1>0, <1>2 DEF RelayReleases, PortOwned, Ids
  <2>2. port = i /\ \A j \in Ids \ {i} : (0 = j) <=> (port = j)
    BY <1>0, <1>2 DEF RelayReleases, PortOwned, Ids
  <2> QED BY <1>0, <1>a, <1>2, <2>1, <2>2, StartsAssumption, TaskMoves DEF RelayReleases
<1>3. CASE RelayVerdict(i)
  <2> DEFINE t == [task[i] EXCEPT !.terminal = "stopped"]
  <2>1. t \in TaskType /\ EndKnown(t) /\ PortOwned(port, i, t)
    BY <1>0, <1>3 DEF RelayVerdict, PortOwned
  <2> QED BY <1>0, <1>a, <1>3, <2>1, TaskMoves DEF RelayVerdict
<1>4. CASE ConnectorMoves(i)
  <2>1. PICK to \in {"serving", "reconnecting", "connecting"} :
          Becomes(i, [task[i] EXCEPT !.phase = to])
    BY <1>4 DEF ConnectorMoves
  <2> DEFINE t == [task[i] EXCEPT !.phase = to]
  <2>2. t \in TaskType /\ EndKnown(t) /\ PortOwned(port, i, t)
    BY <1>0, <1>4 DEF ConnectorMoves, PortOwned
  <2> QED BY <1>0, <1>a, <1>4, <2>1, <2>2, TaskMoves DEF ConnectorMoves
<1>5. CASE ConnectorEnds(i)
  <2>1. PICK end \in {"stopped", "failed"} :
          Becomes(i, [task[i] EXCEPT !.phase = end,
                        !.at = IF task[i].kind = "client" THEN "over" ELSE @])
    BY <1>5 DEF ConnectorEnds
  <2> DEFINE t == [task[i] EXCEPT !.phase = end,
                     !.at = IF task[i].kind = "client" THEN "over" ELSE @]
  <2>2. t \in TaskType /\ EndKnown(t) /\ PortOwned(port, i, t)
    BY <1>0, <1>5 DEF ConnectorEnds, PortOwned
  <2>3. t.stop = task[i].stop /\ t.force # "dropped" /\ task[i].at = "running"
    BY <1>0, <1>5 DEF ConnectorEnds
  <2>4. Becomes(i, t) /\ UNCHANGED <<nextId, listed, port>> /\ i < nextId
    BY <1>a, <1>5, <2>1 DEF ConnectorEnds
  <2> HIDE DEF t
  <2> QED BY <1>0, <2>2, <2>3, <2>4, TaskMoves
<1>6. CASE TunnelOpens(i)
  <2> DEFINE t == [task[i] EXCEPT !.at = "running"]
  <2>1. t \in TaskType /\ EndKnown(t) /\ PortOwned(port, i, t)
    BY <1>0, <1>6 DEF TunnelOpens, PortOwned
  <2> QED BY <1>0, <1>a, <1>6, <2>1, TaskMoves DEF TunnelOpens
<1>7. CASE TunnelFailsToOpen(i) \/ GivesUp(i)
  <2> DEFINE t == [task[i] EXCEPT !.at = "over", !.terminal = "failed"]
  <2>1. t \in TaskType /\ EndKnown(t) /\ PortOwned(port, i, t)
    BY <1>0, <1>7 DEF TunnelFailsToOpen, GivesUp, PortOwned
  <2> QED BY <1>0, <1>a, <1>7, <2>1, TaskMoves DEF TunnelFailsToOpen, GivesUp
<1>8. CASE TunnelConcludes(i)
  <2> DEFINE t == [task[i] EXCEPT !.at = "over",
                     !.terminal = IF task[i].phase = "stopped" THEN "stopped" ELSE "failed"]
  <2>1. t \in TaskType /\ EndKnown(t) /\ PortOwned(port, i, t)
    BY <1>0, <1>8 DEF TunnelConcludes, PortOwned
  <2>2. t.stop = task[i].stop /\ t.force # "dropped" /\ task[i].at = "running"
    BY <1>0, <1>8 DEF TunnelConcludes
  <2>3. Becomes(i, t) /\ UNCHANGED <<nextId, listed, port>> /\ i < nextId
    BY <1>a, <1>8 DEF TunnelConcludes
  <2> HIDE DEF t
  <2> QED BY <1>0, <2>1, <2>2, <2>3, TaskMoves
<1>9. CASE GraceElapses(i)
  <2> DEFINE t == [task[i] EXCEPT !.force = "fired"]
  <2>1. t \in TaskType /\ EndKnown(t) /\ PortOwned(port, i, t)
    BY <1>0, <1>9 DEF GraceElapses, PortOwned
  <2> QED BY <1>0, <1>a, <1>9, <2>1, TaskMoves DEF GraceElapses
<1> QED BY <1>1, <1>2, <1>3, <1>4, <1>5, <1>6, <1>7, <1>8, <1>9, <1>10
  DEF TaskStep, ConnectorStep

-----------------------------------------------------------------------------
(* The operator's calls.  *)
LEMMA StartKeeps ==
  ASSUME IInv, NEW kind \in SessionKinds, Start(kind), open, UNCHANGED open
  PROVE  IInv'
<1>0. nextId \in Ids /\ nextId' = nextId + 1 /\ nextId' \in 1 .. MaxStarts + 1
  BY StartsAssumption DEF IInv, Start, Ids
<1>1. CASE kind = "server" /\ port # 0
  <2>1. UNCHANGED <<listed, task, port>>
    BY <1>1 DEF Start
  <2>2. Unborn'
    BY <1>0, <2>1, StartsAssumption DEF IInv, Unborn, Ids
  <2>3. NoOrphans' /\ GraceKept'
    BY <2>1 DEF IInv, NoOrphans, GraceKept
  <2>4. listed' \subseteq 1 .. nextId' - 1
    BY <1>0, <2>1, StartsAssumption DEF IInv
  <2> QED BY <1>0, <2>1, <2>2, <2>3, <2>4 DEF IInv
<1>2. CASE ~(kind = "server" /\ port # 0)
  <2> DEFINE t == Born(kind)
  <2>1. /\ listed' = listed \cup {nextId} /\ task' = [task EXCEPT ![nextId] = t]
        /\ port' = IF kind = "server" THEN nextId ELSE port
    BY <1>2 DEF Start
  <2>2. /\ t \in TaskType /\ EndKnown(t) /\ t.force # "dropped"
        /\ t.kind = kind /\ t.at # "over"
    <3>1. CASE kind = "server"
      BY <3>1 DEF Born, Absent, TaskType, Phases, EndKnown, SessionKinds
    <3>2. CASE kind = "client"
      BY <3>2 DEF Born, Absent, TaskType, Phases, EndKnown, SessionKinds
    <3>3. CASE kind = "ssh"
      BY <3>3 DEF Born, Absent, TaskType, Phases, EndKnown, SessionKinds
    <3> QED BY <3>1, <3>2, <3>3 DEF SessionKinds
  <2> HIDE DEF t
  <2>3. /\ task' \in [Ids -> TaskType] /\ task'[nextId] = t
        /\ \A j \in Ids \ {nextId} : task'[j] = task[j]
    BY <1>0, <2>1, <2>2 DEF IInv
  <2>4. listed' \subseteq 1 .. nextId' - 1
    BY <1>0, <2>1, StartsAssumption DEF IInv
  <2>5. Unborn'
    BY <1>0, <2>3, StartsAssumption DEF IInv, Unborn, Ids
  <2>6. \A j \in Ids : EndKnown(task'[j])
    BY <2>2, <2>3 DEF IInv
  <2>7. port # nextId
    BY <1>0 DEF IInv, Unborn, PortOwned, Absent, Ids
  <2>8. \A j \in Ids : PortOwned(port', j, task'[j])
    <3> SUFFICES ASSUME NEW j \in Ids PROVE PortOwned(port', j, task'[j])
      OBVIOUS
    <3>1. CASE j = nextId
      BY <2>1, <2>2, <2>3, <2>7, <3>1 DEF PortOwned
    <3>2. CASE j # nextId /\ kind = "server"
      BY <1>2, <2>1, <2>3, <3>2 DEF IInv, PortOwned, Ids
    <3>3. CASE j # nextId /\ kind # "server"
      BY <2>1, <2>3, <3>3 DEF IInv, PortOwned
    <3> QED BY <3>1, <3>2, <3>3
  <2>9. NoOrphans'
    BY <2>1, <2>3 DEF IInv, NoOrphans
  <2>10. GraceKept'
    BY <2>2, <2>3 DEF IInv, GraceKept
  <2>11. port' \in 0 .. MaxStarts
    BY <1>0, <2>1, StartsAssumption DEF IInv, Ids
  <2> QED BY <1>0, <2>3, <2>4, <2>5, <2>6, <2>8, <2>9, <2>10, <2>11 DEF IInv
<1> QED BY <1>1, <1>2

(* What a stop request leaves of a task: asked to stop, the force signal with
   the grace thread, the rest as it was.  *)
LEMMA StoppedTask ==
  ASSUME NEW t \in TaskType, t.force # "dropped"
  PROVE  /\ Stopped(t) \in TaskType /\ Stopped(t).stop
         /\ Stopped(t).force \notin {"held", "dropped"}
         /\ Stopped(t).at = t.at /\ Stopped(t).kind = t.kind
         /\ Stopped(t).phase \in {t.phase, "stopped"}
         /\ Stopped(t).terminal = t.terminal
         /\ Dropped(Stopped(t)) = Stopped(t)
<1>1. /\ Stopped(t) \in TaskType /\ Stopped(t).stop
      /\ Stopped(t).force \notin {"held", "dropped"}
      /\ Stopped(t).at = t.at /\ Stopped(t).kind = t.kind
      /\ Stopped(t).phase \in {t.phase, "stopped"}
      /\ Stopped(t).terminal = t.terminal
  BY DEF Stopped, TaskType, Phases
<1>2. Dropped(Stopped(t)) = Stopped(t)
  <2> DEFINE s == Stopped(t)
  <2>1. s \in TaskType /\ s.force # "held"
    BY <1>1
  <2> HIDE DEF s
  <2>2. [s EXCEPT !.force = s.force] = s
    BY <2>1 DEF TaskType
  <2> QED BY <2>1, <2>2 DEF Dropped, s
<1> QED BY <1>1, <1>2

(* A set of records is asked to stop; some of them, or none, are removed, and
   the window may close when all of them were asked.  *)
LEMMA StopKeeps ==
  ASSUME IInv, NEW ids,
         task' = [i \in Ids |-> IF i \in ids \cap listed THEN Stopped(task[i]) ELSE task[i]],
         listed' \subseteq listed, listed \ listed' \subseteq ids,
         open' # open => listed \subseteq ids,
         UNCHANGED <<nextId, port>>
  PROVE  IInv'
<1>0. ASSUME NEW i \in Ids
      PROVE  task[i] \in TaskType /\ task[i].force # "dropped" /\ EndKnown(task[i])
             /\ PortOwned(port, i, task[i])
  BY DEF IInv, GraceKept
<1>1. task' \in [Ids -> TaskType]
  BY <1>0, StoppedTask
<1>2. \A i \in Ids : EndKnown(task'[i])
  BY <1>0, StoppedTask DEF EndKnown
<1>3. \A i \in Ids : PortOwned(port', i, task'[i])
  BY <1>0, StoppedTask DEF PortOwned
<1>4. GraceKept'
  BY <1>0, StoppedTask DEF GraceKept
<1>5. Unborn'
  BY StartsAssumption DEF IInv, Unborn, Ids
<1>6. NoOrphans'
  <2> SUFFICES ASSUME NEW i \in Ids, task'[i].at # "over", i \notin listed' \/ ~open'
               PROVE  task'[i].stop
    BY DEF NoOrphans
  <2>1. CASE i \in ids \cap listed
    BY <1>0, <2>1, StoppedTask
  <2>2. CASE i \notin ids \cap listed
    <3>1. task'[i] = task[i] /\ (i \notin listed \/ ~open)
      BY <2>2
    <3> QED BY <3>1 DEF IInv, NoOrphans
  <2> QED BY <2>1, <2>2
<1>7. listed' \subseteq 1 .. nextId' - 1
  BY DEF IInv
<1> QED BY <1>1, <1>2, <1>3, <1>4, <1>5, <1>6, <1>7 DEF IInv

LEMMA BackendStopKeeps ==
  ASSUME IInv, NEW ids, BackendStop(ids), UNCHANGED <<nextId, port, open>>
  PROVE  IInv'
<1>1. \A i \in Ids : task[i] \in TaskType /\ task[i].force # "dropped"
  BY DEF IInv, GraceKept
<1>2. \A i \in Ids : Dropped(Stopped(task[i])) = Stopped(task[i])
  BY <1>1, StoppedTask
<1>3. task' = [i \in Ids |-> IF i \in ids \cap listed THEN Stopped(task[i]) ELSE task[i]]
  BY <1>2 DEF BackendStop
<1>4. listed' = listed \ ids
  BY DEF BackendStop
<1> QED BY <1>3, <1>4, StopKeeps

(* Everything else in the window leaves the launcher alone.  *)
LEMMA ConsoleStep == IInv /\ [Next]_vars => IInv'
<1> SUFFICES ASSUME IInv, [Next]_vars PROVE IInv'
  OBVIOUS
<1>0. ASSUME UNCHANGED launcherVars, UNCHANGED open PROVE IInv'
  BY <1>0 DEF launcherVars, IInv, Unborn, NoOrphans, GraceKept
<1>1. CASE Poll \/ PressStop \/ LeaveTable \/ TableInput \/ FormInput
           \/ (\E p \in {"console", "form", "logs"} : ShowPage(p))
           \/ (\E h \in Heights : Resize(h))
  BY <1>0, <1>1 DEF Poll, PressStop, LeaveTable, TableInput, FormInput, ShowPage, Resize
<1>2. CASE LogPageInput \/ LogPageButtons \/ LogThread \/ UNCHANGED vars
  BY <1>0, <1>2 DEF LogPageInput, LogPageButtons, LogThread, appVars, vars
<1>3. ASSUME NEW kind \in SessionKinds, StartRole(kind) PROVE IInv'
  BY <1>3, StartKeeps DEF StartRole, Spend, appVars
<1>4. ASSUME NEW kind \in SessionKinds, StopRole(kind) PROVE IInv'
  <2>1. (\E ids : BackendStop(ids)) /\ UNCHANGED <<nextId, port, open>>
    BY <1>4 DEF StopRole, appVars
  <2> QED BY <2>1, BackendStopKeeps
<1>5. CASE ReleaseStop
  <2>1. ((\E ids : BackendStop(ids)) \/ UNCHANGED <<task, listed>>) /\ UNCHANGED <<nextId, port, open>>
    BY <1>5 DEF ReleaseStop
  <2> QED BY <1>0, <2>1, BackendStopKeeps DEF launcherVars
<1>6. CASE Close
  <2>1. /\ task' = [i \in Ids |-> IF i \in listed \cap listed THEN Stopped(task[i]) ELSE task[i]]
        /\ UNCHANGED <<nextId, listed, port>>
    BY <1>6 DEF Close, StopAll
  <2> QED BY <2>1, StopKeeps
<1>7. ASSUME NEW i \in Ids, Task(i) \/ Connector(i) PROVE IInv'
  <2>1. (TaskStep(i) \/ ConnectorStep(i)) /\ UNCHANGED open
    BY <1>7 DEF Task, Connector, Beside, appVars
  <2> QED BY <2>1, StepOfTask
<1> QED BY <1>1, <1>2, <1>3, <1>4, <1>5, <1>6, <1>7 DEF Next

(* launcher/record.rs, launcher/mod.rs and backend.rs: for any number of
   sessions and any inputs, a session whose task has ended is never shown as
   live, a task that runs on without a row or a window was told to stop, no
   stop drops the force signal and so cuts the grace period short, and the
   listening port belongs to the one relay that has not released it.  *)
THEOREM SessionsStayAccounted == Spec => []SessionsAccounted
<1>1. Init => IInv
  <2> SUFFICES ASSUME Init PROVE IInv
    OBVIOUS
  <2>1. /\ nextId = 1 /\ listed = {} /\ port = 0 /\ \A i \in Ids : task[i] = Absent
        /\ task = [i \in Ids |-> Absent]
    BY DEF Init, LauncherInit
  <2>2. Absent \in TaskType /\ EndKnown(Absent) /\ Absent.force = "none" /\ Absent.at = "over"
    BY DEF Absent, TaskType, Phases, EndKnown
  <2>3. task \in [Ids -> TaskType]
    BY <2>1, <2>2
  <2>4. Unborn /\ NoOrphans /\ GraceKept
    BY <2>1, <2>2 DEF Unborn, NoOrphans, GraceKept
  <2>5. \A i \in Ids : PortOwned(port, i, task[i])
    BY <2>1, <2>2 DEF PortOwned, Ids
  <2> QED BY <2>1, <2>2, <2>3, <2>4, <2>5, StartsAssumption DEF IInv
<1>2. IInv => SessionsAccounted
  <2> SUFFICES ASSUME IInv PROVE SessionsAccounted
    OBVIOUS
  <2>1. \A i \in Ids : task[i] \in TaskType /\ EndKnown(task[i]) /\ PortOwned(port, i, task[i])
    BY DEF IInv
  <2>2. RecordsTyped
    BY <2>1 DEF IInv, RecordsTyped, TaskType, Phases, PortOwned
  <2>3. EndedIsShown
    <3> SUFFICES ASSUME NEW i \in listed, task[i].at = "over"
                 PROVE  SnapshotPhase(task[i]) \in {"stopped", "failed"}
      BY DEF EndedIsShown, Live
    <3>1. i \in Ids
      BY StartsAssumption DEF IInv, Ids
    <3>2. task[i].terminal \in {"none", "stopped", "failed"}
          /\ (task[i].terminal # "none" \/ task[i].phase \in {"stopped", "failed"})
      BY <2>1, <3>1 DEF TaskType, EndKnown
    <3>3. Mapped("stopped") = "stopped" /\ Mapped("failed") = "failed"
      BY DEF Mapped
    <3> QED BY <3>2, <3>3 DEF SnapshotPhase
  <2> QED BY <2>2, <2>3 DEF IInv, SessionsAccounted
<1> QED BY <1>1, <1>2, ConsoleStep, PTL DEF Spec
=============================================================================
