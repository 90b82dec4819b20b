-------------------------- MODULE MCClientSession --------------------------
(* Model-checking instance of ClientSession. *)
EXTENDS ClientSession

All == {"zstd_stream", "zstd", "lz4", "zlib"}

End(token, off, algos, version) ==
    [token |-> token, off |-> off, algos |-> algos, version |-> version]

Conf(client, server, fixed, ssh, retries, faults) ==
    [client |-> client, server |-> server, fixed |-> fixed, ssh |-> ssh,
     reconnect |-> retries = 1, retries |-> retries, faults |-> faults]

Quiet == End("t", {"audio_forward"}, All, 1)
Loud == End("t", {"flow_control"}, {"lz4", "zlib"}, 1)

\* Both ends of this build, directly and through ssh; a fixed display; other
\* switches at the relay; a wrong, an empty and a malformed token; an older relay.
MCConfigs ==
    {Conf(Quiet, Loud, FALSE, FALSE, 1, {"crash", "network"}),
     Conf(Quiet, Quiet, FALSE, FALSE, 1, {"others", "network"}),
     Conf(Loud, Loud, FALSE, FALSE, 0, {"stop", "network"}),
     Conf(Quiet, Quiet, TRUE, FALSE, 1, {"slow", "network"}),
     Conf(Quiet, Quiet, TRUE, FALSE, 2, {"network"}),
     Conf(Quiet, Quiet, FALSE, TRUE, 1, {}),
     Conf(Quiet, Quiet, FALSE, TRUE, 0, {}),
     Conf(Quiet, End("u", {}, All, 1), FALSE, FALSE, 0, {}),
     Conf(Quiet, End("", {}, All, 1), FALSE, FALSE, 0, {}),
     Conf(End("", {}, All, 1), Quiet, FALSE, FALSE, 0, {}),
     Conf(Quiet, End("t", {}, {}, 2), FALSE, FALSE, 0, {})}
=============================================================================
