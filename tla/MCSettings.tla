----------------------------- MODULE MCSettings -----------------------------
(***************************************************************************)
(* An instance of Settings: keys of every type and widget, documents with *)
(* foreign keys, an inline table, a value of the wrong type and a syntax  *)
(* error, and an environment in which the two programs part ways.         *)
(***************************************************************************)
EXTENDS Settings

MCFields ==
    {<<"client", "relay">>, <<"client", "token">>, <<"client", "display">>,
     <<"runtime", "heartbeat_interval_secs">>, <<"runtime", "heartbeat_timeout_secs">>,
     <<"runtime", "audio_play_command">>, <<"runtime", "image_recode_codec">>,
     <<"runtime", "flow_control">>, <<"ssh", "identity">>, <<"ssh", "host">>,
     <<"ssh", "token">>, <<"ssh", "reconnect">>, <<"ssh", "display">>, <<"server", "token">>}

MCEdits ==
    <<"client", "display">> :> {Num(7)}
    @@ <<"client", "token">> :> {Blank}
    @@ <<"runtime", "heartbeat_interval_secs">> :> {Num(95), Num(300000)}
    @@ <<"runtime", "image_recode_codec">> :> {Word("jpeg")}
    @@ <<"runtime", "flow_control">> :> {<<"bool", FALSE, FALSE>>}

MCShape == [client |-> "table", server |-> "none", ssh |-> "inline", runtime |-> "table"]

MCGood ==
    [exists |-> TRUE, whole |-> TRUE, syntax |-> TRUE, shape |-> MCShape,
     known |-> <<"client", "relay">> :> <<"string", Addr(7000)>>
            @@ <<"client", "token">> :> <<"string", <<"word", "secret", TRUE>> >>
            @@ <<"runtime", "heartbeat_timeout_secs">> :> <<"int", 95>>
            @@ <<"runtime", "audio_play_command">> :> <<"argv", <<Word("pw-cat"), Word("-p")>> >>
            @@ <<"ssh", "identity">> :> <<"string", Word("key")>>
            @@ <<"ssh", "host">> :> <<"string", Word("host")>>
            @@ <<"ssh", "token">> :> <<"string", Word("secret")>>,
     extra |-> {<<"ssh", "note">>, <<"client", "note">>, <<"editor", "note">>}]

MCOther ==
    [MCGood EXCEPT !.known = <<"server", "token">> :> <<"string", Word("other")>>
                          @@ <<"client", "relay">> :> <<"string", Addr(7001)>>
                          @@ <<"client", "token">> :> <<"string", Word("other")>>
                          @@ <<"client", "display">> :> <<"int", 5>>
                          @@ <<"ssh", "host">> :> <<"string", Word("host")>>
                          @@ <<"ssh", "token">> :> <<"string", Word("secret")>>
                          @@ <<"ssh", "display">> :> <<"int", 6>>
                          @@ <<"runtime", "image_recode_codec">> :> <<"string", Word("webp")>>]

MCMistyped ==
    [MCGood EXCEPT !.known = <<"client", "display">> :> <<"int", 70000>> @@ @]

MCBroken == [MCGood EXCEPT !.syntax = FALSE]

MCDocs == {MCGood, MCOther, MCMistyped, MCBroken}

MCEnvs ==
    {[HOME |-> "set", USERPROFILE |-> "unset"], [HOME |-> "unset", USERPROFILE |-> "unset"]}
=============================================================================
