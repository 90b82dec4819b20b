------------------------------- MODULE LogPage -------------------------------
(* The GUI's log stream: threads push lines into a bounded ring
   (launcher/logging.rs), the poll copies the new ones into the page
   (app/mod.rs), and the page filters, scrolls and follows them
   (ui/pages/logs).  A line is its sequence number; its level and whether the
   search text occurs in it are fixed by LineLevel and LineMatches.  *)
EXTENDS Integers, Sequences, FiniteSets

-----------------------------------------------------------------------------
(* The one-dimensional layout solver (ui/layout.rs) and the three page trees
   whose geometry the scrolling code depends on: the overview's session card,
   the log well and a form's field column.  Only the main axis is modelled: on
   the cross axis a child takes the container's extent.  *)

Larger(a, b) == IF a > b THEN a ELSE b
Smaller(a, b) == IF a < b THEN a ELSE b
Clamp(v, lo, hi) == IF v <= lo THEN lo ELSE IF v <= hi THEN v ELSE hi

(* What a child asks for along its parent's main axis, and the space that is
   inserted before it.  *)
Fixed(v, lead) == [kind |-> "fixed", v |-> v, lead |-> lead]
Hug(v, lead) == [kind |-> "hug", v |-> v, lead |-> lead]
Fill(w, lead) == [kind |-> "fill", v |-> w, lead |-> lead]

Total(kids, F(_)) ==
  LET upTo[i \in 0 .. Len(kids)] ==
        IF i = 0 THEN 0 ELSE upTo[i - 1] + F(kids[i])
  IN  upTo[Len(kids)]

LeadOf(kid) == kid.lead
FixedAsk(kid) == IF kid.kind = "fixed" THEN Larger(kid.v, 0) ELSE 0
FirmAsk(kid) == IF kid.kind = "fill" THEN 0 ELSE Larger(kid.v, 0)
Weight(kid) == IF kid.kind = "fill" THEN Larger(kid.v, 1) ELSE 0

(* Layout::place divides what the gaps and leads of a stack leave.  *)
Available(kids, gap, extent) ==
  Larger(extent - gap * (Len(kids) - 1) - Total(kids, LeadOf), 0)

Overflows(kids, gap, extent) ==
  Total(kids, FixedAsk) > Available(kids, gap, extent)

(* A hugging child that forgets the fixed siblings after it.  *)
WantGreedy(kids, i, available, remaining) ==
  LET kid == kids[i]
      later == SubSeq(kids, i + 1, Len(kids))
  IN  CASE kid.kind = "fixed" -> Larger(kid.v, 0)
        [] kid.kind = "hug" -> Smaller(Larger(kid.v, 0), remaining)
        [] OTHER -> Larger(remaining - Total(later, FirmAsk), 0)

(* What child i takes of the space that is left: a hug yields to the fixed
   siblings after it, the last fill soaks up the rounding remainder.  *)
Want(kids, i, available, remaining) ==
  LET kid == kids[i]
      later == SubSeq(kids, i + 1, Len(kids))
      leftover == Larger(available - Total(kids, FixedAsk), 0)
      lastFill == Total(later, Weight) = 0
  IN  CASE kid.kind = "fixed" -> Larger(kid.v, 0)
        [] kid.kind = "hug" ->
             Smaller(Larger(kid.v, 0),
                     Larger(remaining - Total(later, FixedAsk), 0))
        [] kid.kind = "fill" /\ lastFill ->
             Larger(remaining - Total(later, FirmAsk), 0)
        [] OTHER -> (leftover * Weight(kid)) \div Total(kids, Weight)

(* The spans of the children of one stack whose inner box starts at `start`
   and is `extent` long.  *)
Place(kids, gap, start, extent) ==
  LET available == Available(kids, gap, extent)
      step[i \in 0 .. Len(kids)] ==
        IF i = 0 THEN [cursor |-> start, left |-> available, spans |-> << >>]
        ELSE LET was == step[i - 1]
                 at == was.cursor + kids[i].lead
                 take == Smaller(Want(kids, i, available, was.left), was.left)
             IN  [cursor |-> at + take + gap,
                  left |-> was.left - take,
                  spans |-> Append(was.spans, [at |-> at, len |-> take])]
  IN  step[Len(kids)].spans

(* Rect::inset on one axis: never a negative extent.  *)
Inset(span, before, after) ==
  [at |-> span.at + before, len |-> Larger(span.len - before - after, 0)]

PAD == 22
GAP == 14
PAGE_HEADER_H == 84

(* build_layout of the overview: the box its session rows are listed in, for a
   page of height h starting at 0 and `sessions` sessions.  *)
TABLE_ROW_H == 46
SESSION_CHROME_H == 106

RowArea(h, sessions) ==
  LET page == Inset([at |-> 0, len |-> h], PAD, PAD)
      needed == SESSION_CHROME_H + Larger(sessions, 2) * TABLE_ROW_H
      card == Place(<<Fixed(PAGE_HEADER_H, 0), Fixed(76, 0), Fixed(300, GAP),
                      Hug(needed, GAP)>>, 0, page.at, page.len)[4]
      inner == Inset(card, 16, 8)
  IN  Place(<<Fixed(20, 0), Fixed(34, 0), Fill(1, 8)>>, 0,
            inner.at, inner.len)[3]

TableFit(h, sessions) ==
  Larger(RowArea(h, sessions).len \div TABLE_ROW_H, 1)

(* build_layout of the log page: the rows its well holds.  *)
ROW_LINE_H == 20

LogWell(h) ==
  LET page == Inset([at |-> 0, len |-> h], PAD, PAD)
      body == Place(<<Fixed(PAGE_HEADER_H, 0), Fill(1, 0)>>, 0,
                    page.at, page.len)[2]
  IN  Place(<<Fixed(34, 0), Fixed(18, 0), Fill(1, 0)>>, 8,
            body.at, body.len)[3]

LogRows(h) == Larger((LogWell(h).len - 36) \div ROW_LINE_H, 1)

(* form_layout: the cards of a form with the given number of fields in each
   section, and the top of every field's row, before scrolling.  *)
FORM_ROW_H == 52
SECTION_HEAD == 46
SECTION_GAP == 16
FORM_VIRTUAL_H == 4096

FormCards(sections) ==
  LET page == Inset([at |-> 0, len |-> PAGE_HEADER_H + FORM_VIRTUAL_H],
                    PAD, PAD)
      column == Place(<<Fixed(PAGE_HEADER_H, 0), Fill(1, 0)>>, 0,
                      page.at, page.len)[2]
      kids == [i \in 1 .. Len(sections) |->
                 Fixed(SECTION_HEAD + sections[i] * FORM_ROW_H + 12,
                       IF i = 1 THEN 0 ELSE SECTION_GAP)]
  IN  Place(kids, 0, column.at, column.len)

FormRowTops(sections) ==
  LET cards == FormCards(sections)
      rowsOf(i) ==
        Place([k \in 1 .. sections[i] + 1 |->
                 Fixed(IF k = 1 THEN SECTION_HEAD ELSE FORM_ROW_H, 0)],
              0, cards[i].at, cards[i].len)
  IN  UNION {{rowsOf(i)[k].at : k \in 2 .. sections[i] + 1} :
               i \in 1 .. Len(sections)}

ContentBottom(sections) ==
  LET last == FormCards(sections)[Len(sections)]
  IN  last.at + last.len + SECTION_GAP

-----------------------------------------------------------------------------
CONSTANTS
  Nil,          \* Rust's None
  Heights,      \* heights of a page
  MaxRows,      \* bound: sessions in the table
  Forms         \* fields per section of the form pages

VARIABLE solved \* the pages' layouts; every page is solved once, at the start

(* The geometry of every page height and content.  *)
SolvedPages ==
  [table |-> [h \in Heights, n \in 0 .. MaxRows |-> RowArea(h, n)],
   fit |-> [h \in Heights, n \in 0 .. MaxRows |-> TableFit(h, n)],
   well |-> [h \in Heights |-> LogWell(h)],
   lines |-> [h \in Heights |-> LogRows(h)],
   tops |-> [s \in Forms |-> FormRowTops(s)],
   bottom |-> [s \in Forms |-> ContentBottom(s)]]

MIN_THUMB == 24

(* ScrollBar::new: Nil when the content fits.  *)
NewBar(top, height, content, view, scroll) ==
  LET max == content - view
      thumb == Smaller(Larger((height * view) \div Larger(content, 1),
                              MIN_THUMB), height)
      span == height - thumb
  IN  IF max <= 0 \/ height <= 0 \/ content <= 0 THEN Nil
      ELSE [top |-> top, height |-> height, view |-> view, max |-> max,
            thumbH |-> thumb, span |-> span,
            thumbTop |-> top + (span * scroll) \div max]

(* ScrollBar::hit for a pointer in the bar's column.  *)
Hit(bar, y) ==
  CASE y < bar.top \/ y > bar.top + bar.height -> [on |-> "none", v |-> 0]
    [] y >= bar.thumbTop /\ y < bar.thumbTop + bar.thumbH ->
         [on |-> "thumb", v |-> y - bar.thumbTop]
    [] OTHER -> [on |-> "track", v |-> IF y < bar.thumbTop THEN -1 ELSE 1]

(* ScrollBar::scroll_at: the offset of a knob dragged to `knob`.  *)
ScrollAt(bar, knob) ==
  IF bar.span <= 0 THEN 0
  ELSE (Clamp(knob - bar.top, 0, bar.span) * bar.max) \div bar.span

(* A range that ends one row early.  *)
ListMaxScrollShort(total, fit, rowH) == Larger(total - fit - 1, 0) * rowH

(* list_max_scroll.  *)
ListMaxScroll(total, fit, rowH) == Larger(total - fit, 0) * rowH

(* list_row_window: the first drawn row, how far it has slid past the top, and
   how many slots are drawn.  *)
RowWindow(scroll, total, fit, rowH) ==
  LET first == scroll \div rowH
  IN  [first |-> first, frac |-> scroll % rowH,
       count |-> Smaller(fit + 1, Larger(total - first, 0))]

(* ListSieve: hover and press over a list of slots.  *)
NoTouch == [hover |-> Nil, pressed |-> Nil]

(* A release that fires wherever it lands.  *)
FiresAnywhere(sieve, slot) == sieve.pressed # Nil /\ slot # Nil

(* ListSieve::release.  *)
Fires(sieve, slot) == sieve.pressed # Nil /\ sieve.pressed = slot

(* Grip: how far below the knob's top it was grabbed, and where the knob is
   drawn while it is held.  *)
Released == [grab |-> Nil, knob |-> Nil]

(* Inputs a page receives: a wheel notch, a press, a drag or a release in the
   bar's column, or a navigation key.  *)
Wheel(dy) == [op |-> "wheel", v |-> dy]
Push(y) == [op |-> "push", v |-> y]
Drag(y) == [op |-> "drag", v |-> y]
Release == [op |-> "release", v |-> 0]
Key(by) == [op |-> "key", v |-> by]

Keys == {"up", "down", "pageup", "pagedown", "home", "end"}

(* glide: where a navigation key asks the surface to go.  *)
KeyTarget(key, bar, cur, rowH) ==
  CASE key = "up" -> cur - rowH
    [] key = "down" -> cur + rowH
    [] key = "pageup" -> cur - bar.view
    [] key = "pagedown" -> cur + bar.view
    [] key = "home" -> 0
    [] key = "end" -> 2147483647

(* Grip::on_input and Grip::on_key: the gesture after the input, and the
   offset it asks the surface for (Nil: none).  `notch` is the offset the
   surface's own wheel rule gives.  *)
OnInput(grip, input, bar, cur, rowH, notch) ==
  CASE input.op = "wheel" -> [grip |-> grip, to |-> notch]
    [] input.op = "push" /\ bar # Nil ->
         LET hit == Hit(bar, input.v)
         IN  CASE hit.on = "thumb" ->
                    [grip |-> [grab |-> hit.v, knob |-> bar.thumbTop],
                     to |-> Nil]
               [] hit.on = "track" ->
                    [grip |-> grip, to |-> cur + hit.v * bar.view]
               [] OTHER -> [grip |-> grip, to |-> Nil]
    [] input.op = "drag" /\ bar # Nil /\ grip.grab # Nil ->
         LET knob == Clamp(input.v - grip.grab, bar.top, bar.top + bar.span)
         IN  [grip |-> [grip EXCEPT !.knob = knob],
              to |-> ScrollAt(bar, knob)]
    [] input.op = "release" -> [grip |-> Released, to |-> Nil]
    [] input.op = "key" /\ bar # Nil ->
         [grip |-> grip, to |-> KeyTarget(input.v, bar, cur, rowH)]
    [] OTHER -> [grip |-> grip, to |-> Nil]

(* The session table (console/scroll.rs).  A row's stop button is live only
   when its 24 pixels lie inside the band of whole rows.  *)
BUTTON_H == 24

TableMaxScroll(h, total) ==
  ListMaxScroll(total, solved.fit[h, total], TABLE_ROW_H)

RowHits(h, ids, scroll) ==
  LET area == solved.table[h, Len(ids)]
      fit == solved.fit[h, Len(ids)]
      shown == Clamp(scroll, 0, TableMaxScroll(h, Len(ids)))
      window == RowWindow(shown, Len(ids), fit, TABLE_ROW_H)
      button(slot) == area.at + (slot - 1) * TABLE_ROW_H - window.frac
                        + (TABLE_ROW_H - BUTTON_H) \div 2
  IN  [slot \in 1 .. window.count |->
         [id |-> ids[window.first + slot],
          stop |-> /\ button(slot) >= area.at
                   /\ button(slot) + BUTTON_H <= area.at + fit * TABLE_ROW_H]]

SessionBar(h, total, scroll) ==
  LET fit == solved.fit[h, total]
  IN  NewBar(solved.table[h, total].at, Larger(fit * TABLE_ROW_H, 20),
             total * TABLE_ROW_H, fit * TABLE_ROW_H,
             Clamp(scroll, 0, TableMaxScroll(h, total)))

TableNotch(cur, dy) == IF dy > 0 THEN cur + TABLE_ROW_H ELSE cur - TABLE_ROW_H

(* The field column of a form page (form/scroll.rs).  *)
FormTop == PAD + 64 + 20

(* A view as high as the page.  *)
FormViewPage(h) == h

FormView(h) == h - FormTop

FormContent(sections) == solved.bottom[sections] - FormTop
FormMaxScroll(h, sections) ==
  Larger(FormContent(sections) - FormView(h), 0)

ScrollBand(h) == [at |-> PAD + PAGE_HEADER_H,
                  len |-> h - PAD - (PAD + PAGE_HEADER_H)]

RowFits(top, scroll, h) ==
  LET band == ScrollBand(h)
  IN  /\ top - scroll >= band.at
      /\ top - scroll + 31 + 16 <= band.at + band.len

FormBar(h, sections, scroll) ==
  NewBar(ScrollBand(h).at, ScrollBand(h).len, FormContent(sections),
         ScrollBand(h).len, scroll)

FormNotch(h, sections, cur, dy) ==
  IF FormContent(sections) <= FormView(h) THEN Nil
  ELSE cur + (dy * FORM_ROW_H * 3) \div 2

-----------------------------------------------------------------------------
(* The log stream. *)

CONSTANTS
  MaxLines,       \* bound: lines logged
  RingCapacity,   \* GuiDefaults::LOG_RING_CAPACITY
  TailCap,        \* TAIL_CAP
  LineLevel,      \* 1..MaxLines -> 0..4, 0 an error and 4 a trace
  LineMatches     \* the lines the search text occurs in

VARIABLES
  taken,      \* LogRing.next_seq - 1: sequence numbers handed out
  pushing,    \* lines whose number is taken and that are not in the ring yet
  ring,       \* LogRing.lines
  logSeq,     \* AppState.log_seq: the poll's watermark
  view,       \* the page's LogView
  logGrip,    \* LogState.grip
  (* What the properties compare with: *)
  overtaken,  \* has a line entered the ring after one with a larger number?
  newest      \* the last entry when the view last sat at the bottom

logVars == <<taken, pushing, ring, logSeq, view, logGrip, overtaken, newest>>

Levels == 0 .. 4

LogInit ==
  /\ taken = 0 /\ pushing = {} /\ ring = << >> /\ logSeq = 0
  /\ view = [entries |-> << >>, minLevel |-> 2, filter |-> FALSE,
             scroll |-> 0, follow |-> TRUE, seen |-> 0]
  /\ logGrip = Released
  /\ overtaken = FALSE /\ newest = 0

(* LogRing::push: the number is taken before the lock.  *)
TakeSeq ==
  /\ taken < MaxLines
  /\ taken' = taken + 1
  /\ pushing' = pushing \cup {taken + 1}
  /\ UNCHANGED <<ring, logSeq, view, logGrip, overtaken, newest>>

Last(s) == IF s = << >> THEN 0 ELSE s[Len(s)]

PushLine(seq) ==
  LET kept == SubSeq(ring, Larger(Len(ring) - RingCapacity + 2, 1), Len(ring))
  IN  /\ seq \in pushing
      /\ pushing' = pushing \ {seq}
      /\ ring' = Append(kept, seq)
      /\ overtaken' = (overtaken \/ \E late \in pushing : late < seq)
      /\ UNCHANGED <<taken, logSeq, view, logGrip, newest>>

(* LogAction::Clear empties the ring; the page keeps its lines.  *)
ClearLogs ==
  /\ ring # << >>
  /\ ring' = << >>
  /\ UNCHANGED <<taken, pushing, logSeq, view, logGrip, overtaken, newest>>

(* LogRing::since that hands the watermark's own line out again.  *)
SinceInclusive(seq) == LET newer(s) == s >= seq IN SelectSeq(ring, newer)

(* LogRing::since.  *)
Since(seq) == LET newer(s) == s > seq IN SelectSeq(ring, newer)

(* LogView::visible: the positions that pass both filters.  *)
Visible(v) ==
  LET passes(k) == /\ LineLevel[v.entries[k]] <= v.minLevel
                   /\ v.filter => v.entries[k] \in LineMatches
  IN  SelectSeq([k \in 1 .. Len(v.entries) |-> k], passes)

LogMaxScroll(total, rows) == ListMaxScroll(total, rows, ROW_LINE_H)

EffectiveScroll(v, total, rows) ==
  IF v.follow THEN LogMaxScroll(total, rows)
  ELSE Larger(Smaller(v.scroll, LogMaxScroll(total, rows)), 0)

(* LogView::scroll_to, the only writer of the offset by input: crossing either
   edge of the bottom marks everything as seen.  *)
ScrollTo(v, value, rows) ==
  LET max == LogMaxScroll(Len(Visible(v)), rows)
      next == Clamp(value, 0, max)
      atEnd == next >= max
  IN  [v EXCEPT !.scroll = next, !.follow = atEnd,
                !.seen = IF atEnd # v.follow THEN Len(v.entries) ELSE @]

Unread(v) ==
  IF v.follow THEN 0
  ELSE Cardinality({j \in 1 .. Len(Visible(v)) : Visible(v)[j] > v.seen})

(* adopt_entries that forgets the watermark when the tail is cut.  *)
AdoptUnshifted(v, entries) ==
  LET drop == Larger(Len(entries) - TailCap, 0)
      kept == SubSeq(entries, drop + 1, Len(entries))
  IN  [v EXCEPT !.entries = kept,
                !.seen = IF v.follow THEN Len(kept) ELSE @]

(* adopt_entries that resets the view, as an earlier set_view did.  *)
AdoptSnapping(v, entries) ==
  LET drop == Larger(Len(entries) - TailCap, 0)
      kept == SubSeq(entries, drop + 1, Len(entries))
  IN  [v EXCEPT !.entries = kept, !.scroll = 0,
                !.seen = IF v.follow THEN Len(kept) ELSE Larger(@ - drop, 0)]

(* LogView::adopt_entries.  *)
Adopt(v, entries) ==
  LET drop == Larger(Len(entries) - TailCap, 0)
      kept == SubSeq(entries, drop + 1, Len(entries))
  IN  [v EXCEPT !.entries = kept,
                !.seen = IF v.follow THEN Len(kept) ELSE Larger(@ - drop, 0)]

(* The log half of App::tick: append what is new, move the watermark to the
   last record's number.  *)
PollLogs ==
  LET new == Since(logSeq)
  IN  IF new = << >>
      THEN UNCHANGED <<logSeq, view, newest>>
      ELSE /\ logSeq' = Larger(logSeq, Last(new))
           /\ view' = Adopt(view, view.entries \o new)
           /\ newest' = IF view.follow THEN Last(new) ELSE newest

(* The search field and the level button pin the view to the newest match.  *)
LevelAfter(level) ==
  CASE level = 2 -> 3 [] level = 3 -> 4 [] level = 4 -> 1
    [] level = 1 -> 0 [] level = 0 -> 2

Pinned(v) == [v EXCEPT !.follow = TRUE, !.seen = Len(v.entries)]

ChangeFilter ==
  /\ view' = Pinned([view EXCEPT !.filter = ~@, !.scroll = 0])
  /\ newest' = Last(view.entries)
  /\ UNCHANGED <<taken, pushing, ring, logSeq, logGrip, overtaken>>

CycleLevel ==
  /\ view' = Pinned([view EXCEPT !.minLevel = LevelAfter(@)])
  /\ newest' = Last(view.entries)
  /\ UNCHANGED <<taken, pushing, ring, logSeq, logGrip, overtaken>>

(* log_bar and the page's input handler, on a page of height h.  *)
LogBar(h) ==
  LET rows == solved.lines[h]
      total == Len(Visible(view))
      text == Inset(solved.well[h], 16, 16)
  IN  NewBar(text.at + 4, Larger(rows * ROW_LINE_H, 20), total * ROW_LINE_H,
             rows * ROW_LINE_H, EffectiveScroll(view, total, rows))

LogNotch(h, dy) ==
  LET total == Len(Visible(view))
  IN  IF total <= solved.lines[h] THEN Nil
      ELSE EffectiveScroll(view, total, solved.lines[h]) + dy * ROW_LINE_H

LogMoves(h, bar, inputs) ==
  LET cur == EffectiveScroll(view, Len(Visible(view)), solved.lines[h])
      notch(input) == IF input.op = "wheel" THEN LogNotch(h, input.v) ELSE Nil
      outs == {OnInput(logGrip, input, bar, cur, ROW_LINE_H, notch(input)) :
                 input \in inputs}
  IN  {[grip |-> out.grip,
        view |-> IF out.to = Nil THEN view
                 ELSE ScrollTo(view, out.to, solved.lines[h])] : out \in outs}
        \ {[grip |-> logGrip, view |-> view]}

LogInput(move) ==
  /\ logGrip' = move.grip
  /\ view' = move.view
  /\ newest' = IF view'.follow # view.follow THEN Last(view.entries) ELSE newest
  /\ UNCHANGED <<taken, pushing, ring, logSeq, overtaken>>

(* What the page paints: the line in the first slot, and the newest line in
   the slots drawn whole.  *)
LogWindow(v, h) ==
  LET shown == Visible(v)
  IN  RowWindow(EffectiveScroll(v, Len(shown), solved.lines[h]), Len(shown),
                solved.lines[h], ROW_LINE_H)

TopLine(v, h) ==
  IF Visible(v) = << >> THEN 0
  ELSE v.entries[Visible(v)[LogWindow(v, h).first + 1]]
=============================================================================
