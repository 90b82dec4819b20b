---------------------------- MODULE MCDataPlane ----------------------------
(* Model-checking instance of DataPlane.  Cells are 0 and 1, blocks of two.  *)
EXTENDS DataPlane

CONSTANTS c1, c2

\* A picture, the same with one block changed, a longer one, and a short
\* event that only an exact repeat turns into a reference.
Picture == <<0, 0, 0, 0>>
Changed == <<0, 0, 1, 1>>
Longer == <<0, 0, 1, 1, 1>>
Event == <<1, 1>>

MCGarbage == <<2>>

Diffing == {"incremental", "incremental_uplink", "resync"}

Conf(dir, algo, features, payloads, conns, budget) ==
    [dir |-> dir, algo |-> algo, features |-> features, payloads |-> payloads,
     conns |-> conns, skips |-> budget]

\* One lost frame on a diffed channel, with and without resync; two channels
\* on one stream encoder, as the relay's single task uses it and as two pumps
\* do; a stream that loses a frame, and a diffed channel that loses two.
MCConfigs ==
    {Conf("down", "none", Diffing, {Picture, Changed}, {c1}, 1),
     Conf("up", "oneshot", Diffing, {Picture, Changed}, {c1}, 1),
     Conf("up", "none", {"incremental", "resync"}, {Longer, Event}, {c1}, 1),
     Conf("down", "oneshot", {"incremental"}, {Changed, Longer}, {c1}, 1),
     Conf("up", "stream", Diffing, {Picture, Event}, {c1}, 0),
     Conf("down", "stream", {}, {Picture, Event}, {c1, c2}, 0),
     Conf("up", "stream", {}, {Picture}, {c1, c2}, 0),
     Conf("down", "stream", {"incremental"}, {Picture, Event}, {c1}, 1),
     Conf("down", "none", Diffing, {Picture, Changed}, {c1}, 2)}
=============================================================================
