------------------------------ MODULE MCAudio ------------------------------
(* Model-checking instance of Audio. *)
EXTENDS Audio

\* 1 init; 2 the desktop session; 3 a terminal's shell (a leader); 4 a browser
\* started by the shell, 5 its audio service; 6 a player in a session of its own
\* with a helper 7 of the same program.
MCParent == <<0, 1, 2, 3, 4, 2, 6>>
MCLeaders == {1, 2, 3, 6}
MCProgram == <<"init", "desktop", "shell", "browser", "browser", "player", "player">>
MCTruth == <<"init", "desktop", "shell", "browser", "browser", "player", "player">>

Node(pid) == [class |-> "output", pid |-> pid]

Conf(clients, tier, local, faults, pid, nodes) ==
    [clients |-> clients, forward |-> tier # "off", perApp |-> tier \in {"app", "fallback"},
     mixOnly |-> tier = "fallback", local |-> local, faults |-> faults, pid |-> pid, nodes |-> nodes]

\* The mix for two clients; captures for two connections of one application that
\* come and go, and that stay while the focus moves; one connection with every
\* fault; a negotiated tier on a host that can only record the whole desktop;
\* three connections of two applications, without sound.
MCConfigs ==
    {Conf({"c1", "c2"}, "mix", TRUE, {"link", "player"}, [x \in {} |-> 0], {}),
     Conf({"c1"}, "app", FALSE, {"leave", "link"}, [x1 |-> 4, x2 |-> 5], {Node(5), Node(7)}),
     Conf({"c1"}, "app", TRUE, {"monitor"}, [x1 |-> 4, x2 |-> 5], {Node(5)}),
     Conf({"c1"}, "app", TRUE, {"leave", "monitor", "player"}, [x1 |-> 7], {Node(5), Node(7)}),
     Conf({"c1"}, "fallback", TRUE, {}, [x1 |-> 4], {}),
     Conf({"c1"}, "off", FALSE, {"leave"}, [x1 |-> 3, x2 |-> 6, x3 |-> 7], {})}
=============================================================================
