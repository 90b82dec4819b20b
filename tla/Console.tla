------------------------------- MODULE Console -------------------------------
(* The GUI's event loop (app/mod.rs, app/actions.rs): one thread that polls the
   launcher and the log ring, lays the pages out, and turns the operator's
   input into launcher calls.  The launcher's tasks and the logging threads run
   beside it.  The layout solver is probed with one stack of children at a
   time, the input of the pure algorithm.  *)
EXTENDS Launcher, LogPage

CONSTANTS
  Plans,        \* bounds of a run: starts, lines, touches, connector moves,
                \* changes of the window, the kinds that are started, the page
                \* shown first, its heights, forms and stacks to solve
  Pointers      \* pointer positions, from the top of the bar

VARIABLES
  open,         \* is the window open?
  page,         \* AppState.page
  height,       \* the pages' height
  rows,         \* AppState.sessions: the rows of the last poll
  table,        \* ConsoleState: scroll_px, rows (hits), sieve.pressed, grip
  form,         \* FormState of a form page: its sections, scroll, grip
  budget,       \* what is left of the plan
  pressed,      \* the session under the press, 0 when none
  slid,         \* have the hits moved since the press?
  probe

appVars == <<open, page, height, rows, table, form, pressed, slid, probe, solved>>
vars == <<launcherVars, logVars, appVars, budget>>

NoSession == 0

IdsOf(rs) == [k \in 1 .. Len(rs) |-> rs[k].id]

(* A layout that keeps an offset the data has shrunk under.  *)
LaidUnclamped(t, h, ids) == [t EXCEPT !.hits = RowHits(h, ids, t.scroll)]

(* ConsolePage::layout after new data or a new size: clamp the offset that the
   data may have shrunk under, recompute the hits.  *)
Laid(t, h, ids) ==
  LET scroll == Clamp(t.scroll, 0, TableMaxScroll(h, Len(ids)))
  IN  [t EXCEPT !.scroll = scroll, !.hits = RowHits(h, ids, scroll)]

(* FormPage::layout clamps its offset too.  *)
Refit(f, h) ==
  [f EXCEPT !.scroll = Clamp(@, 0, FormMaxScroll(h, f.sections))]

Init ==
  /\ LauncherInit /\ LogInit
  /\ \E plan \in Plans :
       /\ budget = [starts |-> plan.starts, lines |-> plan.lines,
                    touches |-> plan.touches, moves |-> plan.moves,
                    window |-> plan.window, kinds |-> plan.kinds]
       /\ page = plan.page
       /\ height \in plan.heights
       /\ \E s \in plan.forms :
            form = [sections |-> s, scroll |-> 0, grip |-> Released]
       /\ probe \in plan.probes
  /\ solved = SolvedPages
  /\ open = TRUE /\ rows = << >>
  /\ table = [scroll |-> 0, hits |-> << >>, pressed |-> Nil, grip |-> Released]
  /\ pressed = NoSession /\ slid = FALSE

Spend(what) ==
  /\ open /\ budget[what] > 0
  /\ budget' = [budget EXCEPT ![what] = @ - 1]

-----------------------------------------------------------------------------
(* The poll: App::tick and App::paint.  *)

Ordered(ids) ==
  SelectSeq([i \in 1 .. MaxStarts |-> i], LAMBDA i : i \in ids)

(* LauncherBackend::sessions, turned into rows.  *)
Snapshot == [k \in 1 .. Len(Ordered(listed)) |->
               LET i == Ordered(listed)[k]
               IN  [id |-> i, kind |-> task[i].kind,
                    health |-> SnapshotPhase(task[i])]]

(* A poll that feeds the page its rows without laying it out.  *)
SetDataUnlaid(rs) == UNCHANGED <<table, slid>>

(* ConsolePage::set_data.  *)
SetData(rs) ==
  \E laid \in {Laid(table, height, IdsOf(rs))} :
    table' = laid /\ slid' = (slid \/ laid.hits # table.hits)

Poll ==
  /\ open
  /\ \E polled \in {Snapshot} : rows' = polled /\ SetData(polled)
  /\ PollLogs
  /\ UNCHANGED <<launcherVars, taken, pushing, ring, logGrip, overtaken,
                 open, page, height, form, pressed, probe, solved, budget>>

-----------------------------------------------------------------------------
(* Starting and stopping.  *)

(* start_role, from the overview's buttons or a form's.  *)
StartRole(kind) ==
  /\ kind \in budget.kinds
  /\ Spend("starts")
  /\ Start(kind)
  /\ UNCHANGED <<logVars, appVars>>

(* stop_role: every row of the role that the last poll did not show stopped. *)
StopRole(kind) ==
  LET ids == {rows[k].id : k \in {k \in 1 .. Len(rows) :
                rows[k].kind = kind /\ rows[k].health # "stopped"}}
  IN  /\ page \in {"form", "console"} /\ ids # {}
      /\ Spend("touches")
      /\ BackendStop(ids)
      /\ UNCHANGED <<nextId, port, logVars, appVars>>

(* The stop buttons of the session table: press and release must find the same
   slot of the hit list.  *)
LiveSlots == {k \in 1 .. Len(table.hits) : table.hits[k].stop}

PressStop ==
  /\ page = "console"
  /\ \E slot \in LiveSlots :
       /\ table' = [table EXCEPT !.pressed = slot]
       /\ pressed' = table.hits[slot].id
  /\ slid' = FALSE
  /\ Spend("touches")
  /\ UNCHANGED <<launcherVars, logVars, open, page, height, rows, form, probe, solved>>

ReleaseStop ==
  /\ page = "console" /\ table.pressed # Nil
  /\ Spend("touches")
  /\ \E slot \in LiveSlots \cup {Nil} :
       IF Fires(table, slot)
       THEN BackendStop({table.hits[slot].id})
       ELSE UNCHANGED <<task, listed>>
  /\ table' = [table EXCEPT !.pressed = Nil]
  /\ pressed' = NoSession
  /\ UNCHANGED <<nextId, port, logVars, open, page, height, rows, form, slid,
                 probe, solved>>

LeaveTable ==
  /\ page = "console" /\ table.pressed # Nil
  /\ Spend("touches")
  /\ table' = [table EXCEPT !.pressed = Nil]
  /\ pressed' = NoSession
  /\ UNCHANGED <<launcherVars, logVars, open, page, height, rows, form, slid,
                 probe, solved>>

-----------------------------------------------------------------------------
(* Scrolling.  *)

InputsAt(bar) ==
  {Wheel(-1), Wheel(1), Release} \cup {Key(k) : k \in Keys}
    \cup (IF bar = Nil THEN {}
          ELSE {Push(bar.top + y) : y \in Pointers}
                 \cup {Drag(bar.top + y) : y \in Pointers})

(* move_offset: clamp and store; new hits when it moved.  *)
TableMoved(t, value) ==
  LET next == Clamp(value, 0, TableMaxScroll(height, Len(rows)))
  IN  [t EXCEPT !.scroll = next, !.hits = RowHits(height, IdsOf(rows), next)]

TableMoves(bar) ==
  LET notch(input) == IF input.op = "wheel" THEN TableNotch(table.scroll, input.v)
                      ELSE Nil
      outs == {OnInput(table.grip, input, bar, table.scroll, TABLE_ROW_H,
                       notch(input)) : input \in InputsAt(bar)}
      held(out) == [table EXCEPT !.grip = out.grip]
  IN  {IF out.to = Nil THEN held(out) ELSE TableMoved(held(out), out.to) :
         out \in outs} \ {table}

TableInput ==
  /\ page = "console"
  /\ \E bar \in {SessionBar(height, Len(rows), table.scroll)} :
       table' \in TableMoves(bar)
  /\ slid' = (slid \/ table'.hits # table.hits)
  /\ Spend("touches")
  /\ UNCHANGED <<launcherVars, logVars, open, page, height, rows, form,
                 pressed, probe, solved>>

FormMoves(bar) ==
  LET notch(input) == IF input.op = "wheel"
                      THEN FormNotch(height, form.sections, form.scroll, input.v)
                      ELSE Nil
      outs == {OnInput(form.grip, input, bar, form.scroll, FORM_ROW_H,
                       notch(input)) : input \in InputsAt(bar)}
  IN  {Refit([form EXCEPT !.grip = out.grip,
                          !.scroll = IF out.to = Nil THEN @ ELSE out.to],
             height) : out \in outs} \ {form}

FormInput ==
  /\ page = "form"
  /\ \E bar \in {FormBar(height, form.sections, form.scroll)} :
       form' \in FormMoves(bar)
  /\ Spend("touches")
  /\ UNCHANGED <<launcherVars, logVars, open, page, height, rows, table,
                 pressed, slid, probe, solved>>

LogPageInput ==
  /\ page = "logs"
  /\ \E bar \in {LogBar(height)} :
       \E move \in LogMoves(height, bar, InputsAt(bar)) : LogInput(move)
  /\ Spend("touches")
  /\ UNCHANGED <<launcherVars, appVars>>

LogPageButtons ==
  /\ page = "logs"
  /\ ChangeFilter \/ CycleLevel \/ ClearLogs
  /\ Spend("touches")
  /\ UNCHANGED <<launcherVars, appVars>>

(* App::show_page, App::on_resize and the window's close callback.  *)
ShowPage(p) ==
  /\ page \notin {p, "none"}
  /\ page' = p
  /\ Spend("window")
  /\ UNCHANGED <<launcherVars, logVars, open, height, rows, table, form,
                 pressed, slid, probe, solved>>

Resize(h) ==
  /\ page # "none" /\ h # height
  /\ height' = h
  /\ table' = Laid(table, h, IdsOf(rows))
  /\ slid' = (slid \/ table'.hits # table.hits)
  /\ form' = Refit(form, h)
  /\ Spend("window")
  /\ UNCHANGED <<launcherVars, logVars, open, page, rows, pressed, probe, solved>>

Close ==
  /\ open /\ page # "none"
  /\ open' = FALSE
  /\ StopAll
  /\ UNCHANGED <<logVars, page, height, rows, table, form, pressed, slid,
                 probe, solved, budget>>

-----------------------------------------------------------------------------
(* The threads beside the event loop.  *)

Beside(A) == open /\ A /\ UNCHANGED <<logVars, appVars, budget>>

Task(i) == Beside(TaskStep(i))

Connector(i) ==
  /\ Spend("moves") /\ ConnectorStep(i)
  /\ UNCHANGED <<logVars, appVars>>

LogThread ==
  \/ TakeSeq /\ Spend("lines") /\ UNCHANGED <<launcherVars, appVars>>
  \/ /\ open /\ \E seq \in pushing : PushLine(seq)
     /\ UNCHANGED <<launcherVars, appVars, budget>>

Next ==
  \/ Poll
  \/ \E kind \in SessionKinds : StartRole(kind) \/ StopRole(kind)
  \/ PressStop \/ ReleaseStop \/ LeaveTable
  \/ TableInput \/ FormInput \/ LogPageInput \/ LogPageButtons
  \/ \E p \in {"console", "form", "logs"} : ShowPage(p)
  \/ \E h \in Heights : Resize(h)
  \/ Close
  \/ \E i \in Ids : Task(i) \/ Connector(i)
  \/ LogThread

Fairness == \A i \in Ids : WF_vars(Beside(DueStep(i)))

Spec == Init /\ [][Next]_vars /\ Fairness

-----------------------------------------------------------------------------
(* The ring, the page's tail and the offsets of the scrolling surfaces hold
   values of their kind, and no offset leaves its range.  *)
TypeOK ==
  /\ ring \in Seq(1 .. taken) /\ Len(ring) <= RingCapacity
  /\ view.entries \in Seq(1 .. taken) /\ Len(view.entries) <= TailCap
  /\ view.seen \in 0 .. Len(view.entries) /\ view.scroll >= 0
  /\ table.scroll \in 0 .. TableMaxScroll(height, Len(rows))
  /\ form.scroll \in 0 .. FormMaxScroll(height, form.sections)

(* A session whose task has ended is never reported as live, also when the
   task gave up a connector that was still in a live phase
   (launcher/record.rs: the terminal verdict overrides the connector).  *)
EndedIsShown ==
  \A i \in listed :
    task[i].at = "over" => ~Live(SnapshotPhase(task[i]))

(* A task that runs on without a row to stop it by was told to stop: neither
   stopping a session, which removes its record at once, nor closing the
   window loses one (backend.rs stop, launcher/mod.rs stop_all).  *)
NoOrphans ==
  \A i \in Ids :
    task[i].at # "over" /\ (i \notin listed \/ ~open) => task[i].stop

(* An SSH session the operator stops is given its grace period: removing its
   record right after the request never drops the force signal, which would
   cut the tunnel off at once (launcher/mod.rs stop and remove).  *)
GraceKept == \A i \in Ids : task[i].force # "dropped"

(* The hit list of the session table is the one the painter's window gives for
   the rows and the offset of this moment: every slot belongs to the session
   painted there and a live button lies whole inside the band
   (console/scroll.rs, console/mod.rs set_data).  *)
HitsMatchPaint ==
  LET ids == IdsOf(rows)
      window == RowWindow(table.scroll, Len(ids), solved.fit[height, Len(ids)],
                          TABLE_ROW_H)
  IN  /\ Len(table.hits) = window.count
      /\ \A slot \in 1 .. window.count :
           /\ table.hits[slot].id = ids[window.first + slot]
           /\ table.hits[slot].stop =>
                /\ slot = 1 => window.frac <= 11
                /\ slot = window.count /\ window.count > solved.fit[height, Len(ids)]
                     => window.frac >= TABLE_ROW_H - 11

(* As long as no logging thread overtook another between taking its number and
   entering the ring, the page shows every line at most once, in order, and a
   line of the ring the poll has gone past is on the page unless the tail was
   cut (launcher/logging.rs since: "never appends a consumed line again").  *)
ShownOnceInOrder ==
  ~overtaken =>
    /\ \A j, k \in 1 .. Len(view.entries) :
         j < k => view.entries[j] < view.entries[k]
    /\ \A j \in 1 .. Len(ring) : ring[j] <= logSeq =>
         \E k \in 1 .. Len(view.entries) :
           view.entries[k] = ring[j] \/ (k = 1 /\ view.entries[k] > ring[j])

(* The count of unread lines is the number of shown lines that arrived after
   the view left the bottom, however often the tail was cut meanwhile
   (logs/state.rs adopt_entries).  *)
UnreadCountsNew ==
  (~overtaken /\ ~view.follow) =>
    Unread(view) = Cardinality({j \in 1 .. Len(Visible(view)) :
                                  view.entries[Visible(view)[j]] > newest})

(* A following view has the newest matching line in a whole row at the bottom,
   whatever the filter, the level and the height of the page.  *)
FollowShowsNewest ==
  LET total == Len(Visible(view))
      window == LogWindow(view, height)
  IN  view.follow =>
        /\ window.frac = 0
        /\ window.first + solved.lines[height] >= total
        /\ window.first + Smaller(solved.lines[height], window.count) = total

(* The arrow keys bring every field of a form into view whole, on every page
   height that has room for one: the scroll range computed from the page and
   the band that hides rows agree (form/scroll.rs).  *)
EveryFieldReachable ==
  page = "form" =>
    LET max == FormMaxScroll(height, form.sections)
    IN  \A top \in solved.tops[form.sections] :
          \E n \in 0 .. max \div FORM_ROW_H + 1 :
            RowFits(top, Smaller(n * FORM_ROW_H, max), height)

(* The solver keeps every child inside its container and in order, gives a
   fixed child what it asked for unless it reports an overflow, and a stack
   with a fill leaves nothing over.  Stacks with a hugging child before two
   fills are left out: there an earlier fill takes a fixed child's space
   without an overflow being reported (ui/layout.rs place).  *)
SolverKeepsPromises ==
  probe # Nil =>
    LET kids == probe.kids
        spans == Place(kids, probe.gap, 0, probe.extent)
        end(i) == spans[i].at + spans[i].len
        kindAt(i, kind) == kids[i].kind = kind
        firm == ~ \E i, j, k \in 1 .. Len(kids) :
                    /\ i < j /\ j < k
                    /\ kindAt(i, "hug") /\ kindAt(j, "fill") /\ kindAt(k, "fill")
    IN  /\ \A i \in 1 .. Len(kids) : spans[i].len > 0 =>
             spans[i].at >= 0 /\ end(i) <= probe.extent
        /\ \A i \in 1 .. Len(kids) - 1 : end(i) + probe.gap <= spans[i + 1].at
        /\ firm /\ ~Overflows(kids, probe.gap, probe.extent) =>
             \A i \in 1 .. Len(kids) :
               kindAt(i, "fixed") => spans[i].len = Larger(kids[i].v, 0)
        /\ (\E i \in 1 .. Len(kids) : kindAt(i, "fill")) =>
             Total(spans, LAMBDA s : s.len)
               = Available(kids, probe.gap, probe.extent)

(* While the operator reads history, a poll that cuts nothing off leaves the
   same line at the top of the well (logs/mod.rs set_view); no line overtook
   another.  *)
ReadingStaysPut ==
  [][(view'.entries # view.entries /\ ~view.follow /\ ~overtaken
       /\ (view.entries = << >> \/ view'.entries[1] = view.entries[1])) =>
       TopLine(view', height) = TopLine(view, height)]_vars

(* A click stops the session that was under the press, unless the rows moved
   between press and release: the click machine compares slots, not sessions
   (ui/kit.rs ListSieve, console/mod.rs).  *)
ClickStopsPressed ==
  [][(ReleaseStop /\ listed' # listed /\ ~slid) =>
       listed \ listed' = {pressed}]_vars

(* An SSH session that is told to stop ends, also when the connector behind the
   tunnel never answers (launcher/mod.rs: STOP_GRACE and the force signal).  A
   relay that is told to stop ends with its port free, or waits for ever in
   destroy_all_sessions (relay/mod.rs accept_loop), which nothing bounds.  *)
StopEnds ==
  \A i \in Ids :
    /\ (task[i].stop /\ task[i].kind = "ssh") ~> (~open \/ task[i].at = "over")
    /\ (task[i].stop /\ task[i].kind = "server")
         ~> (~open \/ (task[i].at = "over" /\ port # i)
              \/ [](task[i].at = "destroying"))

(* The launcher's records against its tasks, over every order of starts,
   stops, forced ends and removals.  *)
SessionsAccounted == RecordsTyped /\ EndedIsShown /\ NoOrphans /\ GraceKept

(* The log page against the ring, over every cut of either, every filter and
   every scroll position.  *)
LogFaithful == ShownOnceInOrder /\ UnreadCountsNew /\ FollowShowsNewest

(* What is laid out, painted and hit is the same geometry.  *)
GeometryAgrees == TypeOK /\ HitsMatchPaint /\ EveryFieldReachable /\ SolverKeepsPromises

(* What is under the operator's eye or pointer stays there.  *)
HandAndEye == ReadingStaysPut /\ ClickStopsPressed
=============================================================================
