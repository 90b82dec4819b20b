----------------------------- MODULE ConfigModel -----------------------------
(***************************************************************************)
(* config.toml as the two programs understand it: the keys and types of   *)
(* its four sections, the text a form shows for a value and the value a   *)
(* text is read as, the rules a value must meet, the defaults laid under  *)
(* the file, and the session each program starts from it.                 *)
(*                                                                         *)
(* A text is <<class, payload, padded>>: what matters of a string is how  *)
(* each parser reads it and whether white space follows it.  A value is   *)
(* <<type, payload>>; a configuration is a function whose domain holds    *)
(* the keys that are filled in.  Wide integers are scaled: U32Max and     *)
(* I64Max keep their order and stand for 2^32 - 1 and 2^63 - 1.           *)
(***************************************************************************)
EXTENDS Integers, Sequences, FiniteSets

CONSTANTS U32Max, I64Max

ASSUME WidthAssumption ==
    /\ U32Max \in Nat /\ I64Max \in Nat
    /\ 65535 < U32Max /\ U32Max < I64Max

None == <<"none">>

Blank == <<"blank", "", FALSE>>

Word(w) == <<"word", w, FALSE>>

Num(n) == <<"num", n, FALSE>>

Addr(port) == <<"addr", port, FALSE>>

-----------------------------------------------------------------------------
(* The sections, field by field.                                           *)

ClientSection ==
    [relay |-> "string", token |-> "string", x11 |-> "string", display |-> "u16"]

ServerSection ==
    [listen |-> "string", x11_port |-> "u16", token |-> "string"]

SshSection ==
    [host |-> "string", port |-> "u16", user |-> "string", identity |-> "string",
     token |-> "string", relay_port |-> "u16", x11 |-> "string",
     display |-> "u16", reconnect |-> "bool"]

RuntimeSection ==
    [heartbeat_interval_secs |-> "u64", heartbeat_timeout_secs |-> "u64",
     client_read_timeout_secs |-> "u64", compression_threshold |-> "u64",
     diff_chunk_size |-> "u64", diff_min_block_size |-> "u64",
     diff_min_savings_ratio |-> "f64", incremental_uplink |-> "bool",
     outbound_queue_bytes |-> "u64", tcp_send_buffer_bytes |-> "u64",
     image_recode |-> "bool", image_recode_codec |-> "string",
     image_recode_quality |-> "u8", image_recode_min_bytes |-> "u64",
     audio_forward |-> "bool", audio_per_app |-> "bool",
     audio_bitrate_kbps |-> "u32", audio_record_command |-> "argv",
     audio_play_command |-> "argv", flow_control |-> "bool",
     flow_pause_bytes |-> "u64", flow_resume_bytes |-> "u64"]

(* GuiConfig: what the console deserializes.                               *)
GuiConfig ==
    [client |-> ClientSection, server |-> ServerSection,
     ssh |-> SshSection, runtime |-> RuntimeSection]

(* RuntimeFileConfig and the three other structs the command line          *)
(* deserializes the same file into.                                        *)
RuntimeFileConfig ==
    [heartbeat_interval_secs |-> "u64", heartbeat_timeout_secs |-> "u64",
     client_read_timeout_secs |-> "u64", compression_threshold |-> "u64",
     diff_chunk_size |-> "u64", diff_min_block_size |-> "u64",
     diff_min_savings_ratio |-> "f64", incremental_uplink |-> "bool",
     outbound_queue_bytes |-> "u64", tcp_send_buffer_bytes |-> "u64",
     image_recode |-> "bool", image_recode_codec |-> "string",
     image_recode_quality |-> "u8", image_recode_min_bytes |-> "u64",
     audio_forward |-> "bool", audio_per_app |-> "bool",
     audio_bitrate_kbps |-> "u32", audio_record_command |-> "argv",
     audio_play_command |-> "argv", flow_control |-> "bool",
     flow_pause_bytes |-> "u64", flow_resume_bytes |-> "u64"]

CliSections ==
    [relay |-> "string", token |-> "string", x11 |-> "string", display |-> "u16",
     listen |-> "string", x11_port |-> "u16", host |-> "string", port |-> "u16",
     user |-> "string", identity |-> "string", relay_port |-> "u16",
     reconnect |-> "bool"]

Keys ==
    UNION {{<<s, f>> : f \in DOMAIN GuiConfig[s]} : s \in DOMAIN GuiConfig}

GuiType(k) == GuiConfig[k[1]][k[2]]

CliType(k) ==
    IF k[1] = "runtime" THEN RuntimeFileConfig[k[2]] ELSE CliSections[k[2]]

-----------------------------------------------------------------------------
(* Text and value.                                                         *)

MaxOf(type) ==
    CASE type = "u8" -> 255 [] type = "u16" -> 65535 [] type = "u32" -> U32Max
      [] OTHER -> 2 * I64Max + 1

Widths == {"u8", "u16", "u32", "u64"}

(* Whether a TOML value deserializes as a field of the given type: an      *)
(* integer is at most i64::MAX in the file and must fit the field.         *)
TypedAs(type, v) ==
    \/ type \in Widths /\ v[1] = "int" /\ v[2] \in 0..MaxOf(type)
    \/ type \notin Widths /\ v[1] = type

(* parse_num, parse_f64, parse_bool, parse_argv, parse_string: how the     *)
(* text of a form field is read.  Only parse_string keeps the padding.     *)
ParseAs(type, t) ==
    CASE type = "string" -> <<"string", t>>
      [] type \in Widths ->
           IF t[1] = "num" /\ t[2] \in 0..MaxOf(type) THEN <<"int", t[2]>> ELSE None
      [] type = "f64" ->
           IF t[1] = "num" THEN <<"f64", 100 * t[2]>>
           ELSE IF t[1] = "dec" THEN <<"f64", t[2]>> ELSE None
      [] type = "bool" ->
           IF t[1] = "bool" THEN <<"bool", t[2]>>
           ELSE IF t[1] = "num" /\ t[2] \in {0, 1} THEN <<"bool", t[2] = 1>> ELSE None
      [] type = "argv" ->
           IF t[1] = "array" THEN <<"argv", t[2]>>
           ELSE IF t[1] = "broken" THEN None
           ELSE <<"argv", << <<t[1], t[2], FALSE>> >> >>

(* Section::get with the words of a command joined by blanks.              *)
FormatJoined(v) ==
    CASE v[1] = "string" -> v[2]
      [] v[1] = "int" -> Num(v[2])
      [] v[1] = "bool" -> <<"bool", v[2], FALSE>>
      [] v[1] = "argv" -> v[2][1]
      [] v[1] = "f64" ->
           IF v[2] % 100 = 0 THEN Num(v[2] \div 100) ELSE <<"dec", v[2], FALSE>>

(* Section::get: the text that shows a value; format_argv writes an array  *)
(* literal, and a whole ratio prints without its decimals.                 *)
FormatOf(v) ==
    CASE v[1] = "string" -> v[2]
      [] v[1] = "int" -> Num(v[2])
      [] v[1] = "bool" -> <<"bool", v[2], FALSE>>
      [] v[1] = "argv" -> <<"array", v[2], FALSE>>
      [] v[1] = "f64" ->
           IF v[2] % 100 = 0 THEN Num(v[2] \div 100) ELSE <<"dec", v[2], FALSE>>

(* flat_values: the text of every filled field.                            *)
FlatValues(cfg) == [k \in DOMAIN cfg |-> FormatOf(cfg[k])]

(* apply_flat_checked reports the texts that parse as nothing ...          *)
Unparsed(values) ==
    {k \in DOMAIN values : values[k][1] # "blank" /\ ParseAs(GuiType(k), values[k]) = None}

(* ... and apply_flat fills in the others: with_parsed clears a field      *)
(* whose text is blank and leaves one whose text does not parse alone.     *)
ApplyFlat(cfg, values) ==
    LET read(k) == ParseAs(GuiType(k), values[k])
        set == {k \in DOMAIN values : values[k][1] # "blank" /\ read(k) # None}
        cleared == {k \in DOMAIN values : values[k][1] = "blank"}
    IN  [k \in (DOMAIN cfg \ cleared) \cup set |-> IF k \in set THEN read(k) ELSE cfg[k]]

-----------------------------------------------------------------------------
(* GuiConfig::validate.                                                    *)

(* check_host_port: a host, a colon and a port that parses as it stands.   *)
HostPort(t) == t[1] = "addr" /\ ~t[3] /\ t[2] \in 1..65535

(* check_non_empty, check_port, check_display, check_min_*, check_argv and *)
(* the rules of single fields.                                             *)
LegalValue(k, v) ==
    LET f == k[2] IN
    CASE f \in {"relay", "x11", "listen"} -> HostPort(v[2])
      [] f \in {"token", "host", "user", "identity"} -> v[2][1] # "blank"
      [] f = "display" -> v[2] <= 255
      [] f \in {"port", "relay_port"} -> v[2] # 0
      [] f = "x11_port" -> v[2] \in 1..(65535 - 255)
      [] f = "diff_min_savings_ratio" -> v[2] \in 0..100
      [] f = "image_recode_codec" -> v[2] \in {Word("png"), Word("jpeg")}
      [] f = "image_recode_quality" -> v[2] \in 1..100
      [] f = "audio_bitrate_kbps" -> v[2] \in 6..510
      [] f \in {"audio_record_command", "audio_play_command"} ->
           \E i \in DOMAIN v[2] : v[2][i][1] # "blank"
      [] f = "compression_threshold" -> TRUE
      [] GuiType(k) = "bool" -> TRUE
      [] OTHER -> v[2] >= 1

(* A pair is judged only when both of its fields are filled in.            *)
PairIssue(cfg, low, high, strict, blamed) ==
    LET a == <<"runtime", low>>
        b == <<"runtime", high>>
    IN  IF {a, b} \subseteq DOMAIN cfg
           /\ (cfg[a][2] > cfg[b][2] \/ (strict /\ cfg[a][2] = cfg[b][2]))
        THEN {<<"runtime", blamed>>} ELSE {}

Validate(cfg) ==
    {k \in DOMAIN cfg : ~LegalValue(k, cfg[k])}
    \cup PairIssue(cfg, "heartbeat_interval_secs", "heartbeat_timeout_secs", TRUE,
                   "heartbeat_timeout_secs")
    \cup PairIssue(cfg, "diff_min_block_size", "diff_chunk_size", FALSE,
                   "diff_min_block_size")
    \cup PairIssue(cfg, "flow_resume_bytes", "flow_pause_bytes", TRUE,
                   "flow_resume_bytes")

-----------------------------------------------------------------------------
(* Defaults, and the sessions started from a configuration.                *)

ServerDefaults ==
    [LISTEN_ADDR |-> Addr(7000), HEARTBEAT_INTERVAL |-> 30, HEARTBEAT_TIMEOUT |-> 90,
     X11_ADDR |-> Addr(6000), READ_TIMEOUT |-> 100, DEFAULT_PORT |-> 22,
     LOCAL_BIND_BASE |-> 17000, OUTBOUND_QUEUE_BYTES |-> 1048576,
     DEFAULT_CHUNK_SIZE |-> 4096, MIN_BLOCK_SIZE_FOR_DIFF |-> 1024,
     MIN_SAVINGS_RATIO |-> 10, PAUSE_BYTES |-> 2097152, RESUME_BYTES |-> 262144]

(* RuntimeConfig::default, with the threshold of compress.rs and the       *)
(* bitrate of audio/mod.rs; None is an Option left empty.                  *)
RuntimeDefault ==
    [heartbeat_interval_secs |-> <<"int", ServerDefaults.HEARTBEAT_INTERVAL>>,
     heartbeat_timeout_secs |-> <<"int", ServerDefaults.HEARTBEAT_TIMEOUT>>,
     client_read_timeout_secs |-> <<"int", ServerDefaults.READ_TIMEOUT>>,
     compression_threshold |-> <<"int", 256>>,
     diff_chunk_size |-> <<"int", ServerDefaults.DEFAULT_CHUNK_SIZE>>,
     diff_min_block_size |-> <<"int", ServerDefaults.MIN_BLOCK_SIZE_FOR_DIFF>>,
     diff_min_savings_ratio |-> <<"f64", ServerDefaults.MIN_SAVINGS_RATIO>>,
     incremental_uplink |-> <<"bool", TRUE>>,
     outbound_queue_bytes |-> <<"int", ServerDefaults.OUTBOUND_QUEUE_BYTES>>,
     tcp_send_buffer_bytes |-> None, image_recode |-> <<"bool", TRUE>>,
     image_recode_codec |-> <<"string", Word("png")>>,
     image_recode_quality |-> <<"int", 80>>, image_recode_min_bytes |-> <<"int", 16384>>,
     audio_forward |-> <<"bool", TRUE>>, audio_per_app |-> <<"bool", TRUE>>,
     audio_bitrate_kbps |-> <<"int", 64>>, audio_record_command |-> None,
     audio_play_command |-> None, flow_control |-> <<"bool", TRUE>>,
     flow_pause_bytes |-> <<"int", ServerDefaults.PAUSE_BYTES>>,
     flow_resume_bytes |-> <<"int", ServerDefaults.RESUME_BYTES>>]

(* One field of a runtime section over its default; a codec that is        *)
(* neither png nor jpeg falls back to the default one.                     *)
OverDefault(cfg, f) ==
    LET k == <<"runtime", f>> IN
    IF k \notin DOMAIN cfg THEN RuntimeDefault[f]
    ELSE IF f = "image_recode_codec" /\ cfg[k][2] \notin {Word("png"), Word("jpeg")}
    THEN RuntimeDefault[f]
    ELSE cfg[k]

(* RuntimeSection::to_runtime of the console ...                           *)
GuiRuntime(cfg) == [f \in DOMAIN RuntimeSection |-> OverDefault(cfg, f)]

(* (The same without the heartbeat timeout of the file.)                   *)
CliRuntimeOld(cfg) ==
    [f \in DOMAIN RuntimeFileConfig |->
        IF f = "heartbeat_timeout_secs" THEN RuntimeDefault[f] ELSE OverDefault(cfg, f)]

(* ... and RuntimeFileConfig::to_runtime of the command line.              *)
CliRuntime(cfg) == [f \in DOMAIN RuntimeFileConfig |-> OverDefault(cfg, f)]

(* The command line's value of a field: argument, then file, then default. *)
Chosen(args, cfg, k, default) ==
    IF k \in DOMAIN args THEN args[k] ELSE IF k \in DOMAIN cfg THEN cfg[k] ELSE default

Given(cfg, k) == IF k \in DOMAIN cfg THEN cfg[k] ELSE None

(* pick_local_bind_port: fixed displays get a fixed port, saturating.      *)
LocalBindPort(auto, display) ==
    IF auto THEN None
    ELSE LET p == ServerDefaults.LOCAL_BIND_BASE + (IF display = None THEN 0 ELSE display[2])
         IN  <<"int", IF p > 65535 THEN 65535 ELSE p>>

Refused == [ok |-> FALSE]

(* commands::server: a missing token is generated.                         *)
CliServer(args, cfg) ==
    [ok |-> TRUE,
     listen |-> Chosen(args, cfg, <<"server", "listen">>,
                       <<"string", ServerDefaults.LISTEN_ADDR>>),
     x11_port |-> Chosen(args, cfg, <<"server", "x11_port">>, <<"int", 6000>>),
     token |-> Chosen(args, cfg, <<"server", "token">>, <<"string", Word("generated")>>),
     runtime |-> CliRuntime(cfg)]

(* commands::client, run without --auto: the display handed to the         *)
(* connector is the argument, while auto-assignment also looks at the file.*)
CliClient(args, cfg) ==
    LET relay == Chosen(args, cfg, <<"client", "relay">>, None)
        token == Chosen(args, cfg, <<"client", "token">>, None)
        d == <<"client", "display">>
    IN  IF relay = None \/ token = None THEN Refused
        ELSE [ok |-> TRUE, relay |-> relay, token |-> token,
              x11 |-> Chosen(args, cfg, <<"client", "x11">>,
                             <<"string", ServerDefaults.X11_ADDR>>),
              display |-> Given(args, d),
              auto |-> d \notin DOMAIN args \cup DOMAIN cfg,
              runtime |-> CliRuntime(cfg)]

(* commands::ssh up to the tunnel.                                         *)
CliSsh(args, cfg) ==
    LET host == Chosen(args, cfg, <<"ssh", "host">>, None)
        token == Chosen(args, cfg, <<"ssh", "token">>, None)
        d == <<"ssh", "display">>
        auto == d \notin DOMAIN args \cup DOMAIN cfg
    IN  IF host = None \/ token = None THEN Refused
        ELSE [ok |-> TRUE, host |-> host, token |-> token,
              port |-> Chosen(args, cfg, <<"ssh", "port">>,
                              <<"int", ServerDefaults.DEFAULT_PORT>>),
              user |-> Chosen(args, cfg, <<"ssh", "user">>, None),
              identity |-> Chosen(args, cfg, <<"ssh", "identity">>, None),
              relay_port |-> Chosen(args, cfg, <<"ssh", "relay_port">>, <<"int", 7000>>),
              x11 |-> Chosen(args, cfg, <<"ssh", "x11">>,
                             <<"string", ServerDefaults.X11_ADDR>>),
              display |-> Given(args, d), auto |-> auto,
              bind |-> LocalBindPort(auto, Chosen(args, cfg, d, None)),
              reconnect |-> Chosen(<<>>, cfg, <<"ssh", "reconnect">>, <<"bool", TRUE>>),
              runtime |-> CliRuntime(cfg)]

(* required: filled in and not white space.                                *)
Required(cfg, k) == k \in DOMAIN cfg /\ cfg[k][2][1] # "blank"

(* SessionSpec::server_from_config.                                        *)
ServerFromConfig(cfg) ==
    IF ~Required(cfg, <<"server", "token">>) THEN Refused
    ELSE [ok |-> TRUE,
          listen |-> Chosen(<<>>, cfg, <<"server", "listen">>,
                            <<"string", ServerDefaults.LISTEN_ADDR>>),
          x11_port |-> Chosen(<<>>, cfg, <<"server", "x11_port">>, <<"int", 6000>>),
          token |-> cfg[<<"server", "token">>], runtime |-> GuiRuntime(cfg)]

(* SessionSpec::client_from_config: a display in the file is fixed.        *)
ClientFromConfig(cfg) ==
    IF ~Required(cfg, <<"client", "relay">>) \/ ~Required(cfg, <<"client", "token">>)
    THEN Refused
    ELSE [ok |-> TRUE, relay |-> cfg[<<"client", "relay">>],
          token |-> cfg[<<"client", "token">>],
          x11 |-> Chosen(<<>>, cfg, <<"client", "x11">>, <<"string", ServerDefaults.X11_ADDR>>),
          display |-> Given(cfg, <<"client", "display">>),
          auto |-> <<"client", "display">> \notin DOMAIN cfg,
          runtime |-> GuiRuntime(cfg)]

(* SessionSpec::ssh_from_config, and the port start_ssh picks.             *)
SshFromConfig(cfg) ==
    IF ~Required(cfg, <<"ssh", "host">>) \/ ~Required(cfg, <<"ssh", "token">>) THEN Refused
    ELSE LET display == Given(cfg, <<"ssh", "display">>) IN
         [ok |-> TRUE, host |-> cfg[<<"ssh", "host">>], token |-> cfg[<<"ssh", "token">>],
          port |-> Chosen(<<>>, cfg, <<"ssh", "port">>, <<"int", ServerDefaults.DEFAULT_PORT>>),
          user |-> Given(cfg, <<"ssh", "user">>),
          identity |-> Given(cfg, <<"ssh", "identity">>),
          relay_port |-> Chosen(<<>>, cfg, <<"ssh", "relay_port">>, <<"int", 7000>>),
          x11 |-> Chosen(<<>>, cfg, <<"ssh", "x11">>, <<"string", ServerDefaults.X11_ADDR>>),
          display |-> display, auto |-> display = None,
          bind |-> LocalBindPort(display = None, display),
          reconnect |-> Chosen(<<>>, cfg, <<"ssh", "reconnect">>, <<"bool", TRUE>>),
          runtime |-> GuiRuntime(cfg)]
=============================================================================
