----------------------------- MODULE Handshake -----------------------------
(***************************************************************************)
(* Connection establishment over one transport (protocol/handshake.rs): the *)
(* capability lists of both ends (capability.rs), the compression choice    *)
(* (compress.rs), the token (auth.rs), and the two ends' steps.             *)
(*                                                                         *)
(* A transport is one TCP connection of the client, numbered in the order   *)
(* they are opened.  Its link is "open", "silent" (nothing passes and       *)
(* neither end has noticed) or "dead" (both ends will read an error).       *)
(***************************************************************************)
EXTENDS Integers, Sequences, FiniteSets

CONSTANTS
    Configs,        \* the settings of both ends, and how the client connects
    MaxRetries,     \* bound: the largest max_retries of a configuration
    Version         \* PROTOCOL_VERSION of the client's build

ASSUME HandshakeAssumption ==
    MaxRetries \in Nat /\ \A g \in Configs : g.retries \in 0 .. MaxRetries

Transports == 1 .. MaxRetries + 1

VARIABLES
    config,
    link,       \* transport -> "none", "backlog", "open", "silent", "dead"
    up, down,   \* transport -> frames under way to the relay, to the client
    task,       \* transport -> where the relay's task for it stands
    cliHas,     \* transport -> features and algorithm the client goes by
    srvHas      \* transport -> the same at the relay

linkVars == <<link, up, down, task, cliHas, srvHas>>

Supported == {"request_resync", "incremental", "incremental_uplink", "flow_control",
              "x11", "x11_recode", "audio_forward", "audio_per_app"}

\* advertised_for: the capabilities with a kill switch.
Gated == {"x11_recode", "audio_forward", "audio_per_app", "flow_control",
          "incremental_uplink"}

\* A configuration can switch off only what has a switch.
ASSUME SwitchAssumption ==
    \A g \in Configs : g.client.off \subseteq Gated /\ g.server.off \subseteq Gated

\* Plausible slip: a switched-off capability is still advertised.
AdvertisedAll(off) == Supported

AdvertisedFor(off) == Supported \ (Gated \cap off)

NegotiateFeatures(client, server) == {c \in Supported : c \in client /\ c \in server}

Algos == <<"zstd_stream", "zstd", "lz4", "zlib">>

NegotiateAlgo(client, server) ==
    LET both == {i \in 1 .. Len(Algos) : Algos[i] \in client \cap server}
    IN  IF both = {} THEN "disabled" ELSE Algos[CHOOSE i \in both : \A j \in both : i <= j]

\* Token::new, and verify_token: an empty token never matches.
WellFormed(token) == token # ""

VerifyToken(provided, expected) ==
    provided # "" /\ expected # "" /\ provided = expected

NoTerms == [features |-> {}, algo |-> "disabled"]

-----------------------------------------------------------------------------
(* Frames                                                                   *)

Hello(resume) ==
    [kind |-> "Hello", version |-> Version, resume |-> resume,
     algos |-> config.client.algos, caps |-> AdvertisedFor(config.client.off)]

HelloAck(terms) == [kind |-> "HelloAck", success |-> TRUE, version |-> config.server.version,
                    terms |-> terms]
FailedHelloAck == [kind |-> "HelloAck", success |-> FALSE, version |-> config.server.version,
                   terms |-> NoTerms]
AuthRequest == [kind |-> "AuthRequest", token |-> config.client.token]
AuthResponse(ok) == [kind |-> "AuthResponse", success |-> ok]

CanRead(q, t) == q[t] # <<>> /\ link[t] \in {"open", "dead"}

\* A frame written to a link that is not open is lost.
Written(q, t, f) == IF link[t] = "open" THEN [q EXCEPT ![t] = Append(@, f)] ELSE q

-----------------------------------------------------------------------------
(* server_handshake                                                         *)

ServerTerms(hello) ==
    [features |-> NegotiateFeatures(hello.caps, AdvertisedFor(config.server.off)),
     algo |-> NegotiateAlgo(hello.algos, config.server.algos)]

\* Hello: wrong version, or an answer with the negotiated terms.
ServerHello(t) ==
    /\ task[t] = "hello" /\ CanRead(up, t)
    /\ LET hello == Head(up[t]) IN
       IF hello.version # config.server.version
       THEN /\ down' = Written(down, t, FailedHelloAck)
            /\ task' = [task EXCEPT ![t] = "failed"]
            /\ UNCHANGED srvHas
       ELSE /\ srvHas' = [srvHas EXCEPT ![t] = ServerTerms(hello)]
            /\ down' = Written(down, t, HelloAck(ServerTerms(hello)))
            /\ task' = [task EXCEPT ![t] = "auth"]
    /\ up' = [up EXCEPT ![t] = Tail(@)]
    /\ UNCHANGED <<link, cliHas>>

ServerAuth(t) ==
    /\ task[t] = "auth" /\ CanRead(up, t)
    /\ LET good == VerifyToken(Head(up[t]).token, config.server.token) IN
       /\ down' = Written(down, t, AuthResponse(good))
       /\ task' = [task EXCEPT ![t] = IF good THEN "serving" ELSE "failed"]
    /\ up' = [up EXCEPT ![t] = Tail(@)]
    /\ UNCHANGED <<link, cliHas, srvHas>>

\* recv_handshake_frame at the relay: a timeout, or the client is gone.
ServerHandshakeEnds(t) ==
    /\ "slow" \in config.faults \/ link[t] # "open"
    /\ task[t] \in {"hello", "auth"}
    /\ task' = [task EXCEPT ![t] = "failed"]
    /\ UNCHANGED <<link, up, down, cliHas, srvHas>>

-----------------------------------------------------------------------------
(* client_handshake: what the client makes of the relay's answers           *)

\* The echo is intersected once more with what the client advertised.
ClientTerms(ack) ==
    [features |-> NegotiateFeatures(AdvertisedFor(config.client.off), ack.terms.features),
     algo |-> ack.terms.algo]

AcceptsHelloAck(f) == f.kind = "HelloAck" /\ f.success /\ f.version = Version

AcceptsAuth(f) == f.kind = "AuthResponse" /\ f.success
=============================================================================
