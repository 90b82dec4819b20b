------------------------------ MODULE MCConsole ------------------------------
(* Bounds of the console's run.  The plans let each part of the window be busy
   in turn, so that their states add up instead of multiplying.  *)
EXTENDS Console

MCLineLevel == <<2, 1, 2, 3, 0, 2>>
MCLineMatches == {1, 3, 4}

MCForms == {<<3>>, <<4>>, <<8>>, <<3, 7, 4, 5, 3>>}

Sizes == {Fixed(2, 0), Fixed(5, 1), Hug(1, 0), Hug(4, 1), Fill(1, 0), Fill(2, 1)}

Stacks ==
  [kids : UNION {[1 .. n -> Sizes] : n \in 1 .. 4}, gap : {1},
   extent : {3, 9, 15}]

(* A plan for one part, on a page of normal height that needs no scrolling.  *)
Plan(p, kinds, starts, lines, touches, moves, window) ==
  [page |-> p, kinds |-> kinds, starts |-> starts, lines |-> lines,
   touches |-> touches, moves |-> moves, window |-> window,
   heights |-> {714}, forms |-> {<<3>>}, probes |-> {Nil}]

At(plan, heights) == [plan EXCEPT !.heights = heights]

MCPlans ==
  {Plan("form", {"server", "ssh"}, 2, 0, 2, 1, 0),   \* the life of sessions
   Plan("form", {"server"}, 3, 0, 2, 0, 0),          \* one listening port
   Plan("console", {"client", "ssh"}, 2, 0, 2, 1, 0),
   At(Plan("console", {"client"}, 3, 0, 3, 0, 1), Heights),  \* the table
   At(Plan("logs", {}, 0, 4, 2, 0, 0), {250}),       \* the log page
   At(Plan("logs", {}, 0, 5, 1, 0, 0), {250}),
   At(Plan("logs", {"client"}, 1, 2, 1, 0, 1), {250}),
   [At(Plan("form", {}, 0, 0, 3, 0, 1), Heights) EXCEPT !.forms = Forms],
   [Plan("none", {}, 0, 0, 0, 0, 0) EXCEPT !.probes = Stacks]}

=============================================================================
