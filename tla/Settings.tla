------------------------------ MODULE Settings ------------------------------
(***************************************************************************)
(* One config.toml and everyone who touches it: the console's four forms  *)
(* (App, FormPage) with the backend behind them, whose save goes through  *)
(* a temporary file and a rename; `rx11 config init`; the command line    *)
(* that reads it; and an editor outside the project.                      *)
(*                                                                         *)
(* The console handles one event at a time, but a save is four file       *)
(* operations and the other programs run between them.  Fields is the set *)
(* of keys of the instance.  A document keeps what the programs can tell  *)
(* apart: whether it parses, how each section is written, the known keys  *)
(* and the foreign ones; comments and layout are left out.                *)
(***************************************************************************)
EXTENDS ConfigModel, TLC

CONSTANTS Fields,   \* the keys of the instance
          Edits,    \* the texts the user types: a function from keys to sets
          Docs,     \* the documents the editor may leave behind
          Envs,     \* the environments: HOME and USERPROFILE
          MaxTouches,  \* how many things the user does: edits, saves, starts
          MaxOutside   \* how often the editor leaves a document behind

ASSUME FieldsAssumption == Fields \subseteq Keys

VARIABLES env,         \* what the environment says of the home directory
          file,        \* config.toml
          loaded,      \* LauncherBackend::loaded
          fileValues,  \* App::file_values
          form,        \* FormState and the widgets of each page
          dirty,       \* AppState::dirty, as the set of marked pages
          issues,      \* the problems listed on each page
          saver,       \* where the console is in a save
          init,        \* where `rx11 config init` is
          touches,     \* how many things the user did
          outside      \* how often the editor saved

vars == <<env, file, loaded, fileValues, form, dirty, issues, saver, init,
          touches, outside>>

spent == <<touches, outside>>

gui == <<loaded, fileValues, form, dirty, issues>>

-----------------------------------------------------------------------------
(* Where the file is.                                                      *)

NonEmptyVar(e, name) == e[name] = "set"

(* config_home of both programs.                                           *)
ConfigHome(e) ==
    IF NonEmptyVar(e, "HOME") THEN "home"
    ELSE IF NonEmptyVar(e, "USERPROFILE") THEN "profile" ELSE "none"

(* default_config_path of the console falls back to the temp directory ... *)
GuiPath(e) == IF ConfigHome(e) = "none" THEN "temp" ELSE ConfigHome(e)

(* ... and config_path of the command line gives up.                       *)
CliPath(e) == ConfigHome(e)

(* The command line works on the file the console works on.                *)
SharesFile == CliPath(env) = GuiPath(env)

-----------------------------------------------------------------------------
(* The document.                                                           *)

NoKeys == [k \in {} |-> None]

Absent ==
    [exists |-> FALSE, whole |-> TRUE, syntax |-> TRUE,
     shape |-> [s \in DOMAIN GuiConfig |-> "none"], known |-> NoKeys, extra |-> {}]

EmptyDoc == [Absent EXCEPT !.exists = TRUE]

(* CONFIG_TEMPLATE: four section headers and every key commented out.      *)
Template == [EmptyDoc EXCEPT !.shape = [s \in DOMAIN GuiConfig |-> "table"]]

Readable(doc) == doc.syntax /\ \A k \in DOMAIN doc.known : TypedAs(GuiType(k), doc.known[k])

(* GuiConfig::load: a missing file is an empty configuration; a syntax     *)
(* error or one value of the wrong type refuses the file.                  *)
GuiLoads(doc) == ~doc.exists \/ Readable(doc)

(* load_config of the command line: a file it cannot read, or cannot read  *)
(* in full, counts as no file.                                             *)
CliLoad(doc) ==
    IF doc.exists /\ doc.syntax
       /\ \A k \in DOMAIN doc.known : TypedAs(CliType(k), doc.known[k])
    THEN doc.known ELSE NoKeys

(* load_config().unwrap_or_default().                                      *)
LoadedOrDefault(doc) == IF GuiLoads(doc) THEN doc.known ELSE NoKeys

(* int_value: an integer TOML cannot hold is written as i64::MAX.          *)
AsToml(v) == IF v[1] = "int" /\ v[2] > I64Max THEN <<"int", I64Max>> ELSE v

(* write_section leaves out a section that is neither there nor filled.    *)
Written(cfg, doc, s) == doc.shape[s] # "none" \/ \E k \in DOMAIN cfg : k[1] = s

(* Plausible slip: every section starts from an empty table.               *)
ExtraKeptOutside(cfg, doc) ==
    {x \in doc.extra : x[1] \notin DOMAIN GuiConfig \/ ~Written(cfg, doc, x[1])}

(* ensure_table puts an empty table where the section was not one, so what *)
(* an inline table held besides the known keys goes with it.               *)
ExtraKept(cfg, doc) ==
    {x \in doc.extra :
        ~(x[1] \in DOMAIN GuiConfig /\ doc.shape[x[1]] = "inline" /\ Written(cfg, doc, x[1]))}

(* apply_to: every known key becomes what the configuration says of it,    *)
(* assign writing the ones that are filled in and removing the others.     *)
KnownAfterStale(cfg, doc) ==
    [k \in DOMAIN cfg \cup DOMAIN doc.known |->
        IF k \in DOMAIN cfg THEN AsToml(cfg[k]) ELSE doc.known[k]]

KnownAfter(cfg, doc) == [k \in DOMAIN cfg |-> AsToml(cfg[k])]

ApplyTo(cfg, doc) ==
    [exists |-> TRUE, whole |-> TRUE, syntax |-> TRUE,
     shape |-> [s \in DOMAIN GuiConfig |->
                  IF Written(cfg, doc, s) THEN "table" ELSE doc.shape[s]],
     known |-> KnownAfter(cfg, doc), extra |-> ExtraKept(cfg, doc)]

-----------------------------------------------------------------------------
(* The forms.                                                              *)

ServerPage == [listen |-> "text", x11_port |-> "text", token |-> "text"]

ClientPage == [relay |-> "text", token |-> "text", x11 |-> "text", display |-> "text"]

(* The page has no row for ssh.x11.                                        *)
SshPage ==
    [host |-> "text", port |-> "text", user |-> "text", identity |-> "text",
     relay_port |-> "text", token |-> "text", reconnect |-> "toggle", display |-> "text"]

RuntimePage ==
    [f \in DOMAIN RuntimeSection |->
        IF RuntimeSection[f] = "bool" THEN "toggle"
        ELSE IF f = "image_recode_codec" THEN "select" ELSE "text"]

Pages == [server |-> ServerPage, client |-> ClientPage, ssh |-> SshPage,
          runtime |-> RuntimePage]

Roles == {"server", "client", "ssh"}

(* keys_for, within the instance.                                          *)
KeysOf(p) == {k \in Fields : k[1] = p /\ k[2] \in DOMAIN Pages[p]}

WidgetOf(k) == Pages[k[1]][k[2]]

SelectItems == {Word("png"), Word("jpeg")}

(* A widget before anything is loaded: an empty field, a switch that is    *)
(* off, the first item of a selection.                                     *)
FreshWidget(k) ==
    CASE WidgetOf(k) = "toggle" -> <<"bool", FALSE, FALSE>>
      [] WidgetOf(k) = "select" -> Word("png")
      [] OTHER -> Blank

(* What set_values makes of one widget, given the page's cached text.      *)
Redrawn(k, cache, shown) ==
    LET v == IF k \in DOMAIN cache THEN cache[k] ELSE Blank IN
    CASE WidgetOf(k) = "toggle" -> <<"bool", v[1] = "bool" /\ v[2], FALSE>>
      [] WidgetOf(k) = "select" -> IF v \in SelectItems THEN v ELSE shown[k]
      [] OTHER -> v

(* Plausible slip: a page takes over the texts of every page.              *)
SetValuesAll(p, f, values) ==
    LET cache == values @@ f.cache
    IN  [cache |-> cache, dirty |-> {},
         shown |-> [k \in KeysOf(p) |-> Redrawn(k, cache, f.shown)]]

(* FormPage::set_values: cached texts are only ever added or replaced.     *)
SetValues(p, f, values) ==
    LET new == [k \in DOMAIN values \cap KeysOf(p) |-> values[k]]
        cache == new @@ f.cache
    IN  [cache |-> cache, dirty |-> {},
         shown |-> [k \in KeysOf(p) |-> Redrawn(k, cache, f.shown)]]

(* merged_values for a role page; for the runtime page the loops of        *)
(* save_runtime and save_all come to the same: the page's live values over *)
(* the values remembered of the file.                                      *)
Merged(p) ==
    form[p].shown @@ [k \in DOMAIN fileValues \ KeysOf(p) |-> fileValues[k]]

-----------------------------------------------------------------------------
Idle == [pc |-> "idle", page |-> "", all |-> FALSE, values |-> NoKeys, cfg |-> NoKeys,
         doc |-> Absent]

(* App::new over a backend that has just read the file: load_config fills  *)
(* the four forms.                                                         *)
OpenedFrom(doc) ==
    LET known == LoadedOrDefault(doc)
        values == FlatValues(known)
    IN  [loaded |-> known, values |-> values,
         form |-> [p \in DOMAIN Pages |->
            SetValues(p, [cache |-> NoKeys, dirty |-> {},
                          shown |-> [k \in KeysOf(p) |-> FreshWidget(k)]], values)]]

Init ==
    /\ env \in Envs
    /\ file \in Docs \cup {Absent}
    /\ loaded = OpenedFrom(file).loaded
    /\ fileValues = OpenedFrom(file).values
    /\ form = OpenedFrom(file).form
    /\ dirty = {}
    /\ issues = [p \in DOMAIN Pages |-> {}]
    /\ saver = Idle
    /\ init = [pc |-> "idle", held |-> FALSE]
    /\ touches = 0 /\ outside = 0

(* The user's hand on the console, within the bound.                       *)
Touch ==
    /\ saver.pc = "idle" /\ touches < MaxTouches
    /\ touches' = touches + 1
    /\ UNCHANGED outside

(* The user types into a text field.  The widget holds the text at once;   *)
(* the page learns of it when the field's callback runs.                   *)
TypeText(k, t) ==
    /\ Touch
    /\ WidgetOf(k) = "text" /\ form[k[1]].shown[k] # t
    /\ form' = [form EXCEPT ![k[1]].shown[k] = t]
    /\ UNCHANGED <<env, file, loaded, fileValues, dirty, issues, saver, init>>

(* The callback of a text field: cached and marked on the page, but no     *)
(* Changed action tells the app.                                           *)
LeaveField(k) ==
    LET p == k[1] IN
    /\ saver.pc = "idle"
    /\ WidgetOf(k) = "text" /\ Given(form[p].cache, k) # form[p].shown[k]
    /\ form' = [form EXCEPT ![p].cache = (k :> form[p].shown[k]) @@ @,
                            ![p].dirty = @ \cup {k}]
    /\ UNCHANGED <<env, file, loaded, fileValues, dirty, issues, saver, init, spent>>

(* A switch caches its new value; a selection does not.  Both emit Changed.*)
ChangeControl(k, t) ==
    LET p == k[1] IN
    /\ Touch
    /\ WidgetOf(k) # "text" /\ form[p].shown[k] # t
    /\ form' = [form EXCEPT ![p].shown[k] = t, ![p].dirty = @ \cup {k},
                            ![p].cache = IF WidgetOf(k) = "toggle" THEN (k :> t) @@ @ ELSE @]
    /\ dirty' = dirty \cup {p}
    /\ UNCHANGED <<env, file, loaded, fileValues, issues, saver, init>>

(* pick_file: the chosen path goes in through set_values.                  *)
PickFile(t) ==
    LET k == <<"ssh", "identity">> IN
    /\ Touch /\ k \in Fields
    /\ form' = [form EXCEPT !["ssh"] = SetValues("ssh", @, k :> t)]
    /\ dirty' = dirty \cup {"ssh"}
    /\ UNCHANGED <<env, file, loaded, fileValues, issues, saver, init>>

(* FormAction::Reload.  A file that does not load leaves nothing to set;   *)
(* the backend then keeps the configuration it had.                        *)
Reload ==
    LET values == IF GuiLoads(file) THEN FlatValues(file.known) ELSE NoKeys IN
    /\ Touch
    /\ loaded' = IF GuiLoads(file) THEN file.known ELSE loaded
    /\ fileValues' = values
    /\ form' = [p \in DOMAIN Pages |-> SetValues(p, form[p], values)]
    /\ UNCHANGED <<env, file, dirty, issues, saver, init>>

(* LauncherBackend::start builds the session from the backend's copy and   *)
(* the page's live values; the page counts as changed from then on.        *)
StartConfig(r) == ApplyFlat(loaded, Merged(r))

GuiSpec(r) ==
    CASE r = "server" -> ServerFromConfig(StartConfig(r))
      [] r = "client" -> ClientFromConfig(StartConfig(r))
      [] r = "ssh" -> SshFromConfig(StartConfig(r))

StartRole(r) ==
    /\ Touch
    /\ GuiSpec(r).ok
    /\ dirty' = dirty \cup {r}
    /\ UNCHANGED <<env, file, loaded, fileValues, form, issues, saver, init>>

(* The checks a save makes on the backend's copy.                          *)
SaveIssuesUnpaired(values) ==
    Unparsed(values) \cup {k \in DOMAIN ApplyFlat(loaded, values) :
                              ~LegalValue(k, ApplyFlat(loaded, values)[k])}

SaveIssues(values) == Unparsed(values) \cup Validate(ApplyFlat(loaded, values))

SaveRefused(p) ==
    /\ Touch
    /\ SaveIssues(Merged(p)) # {}
    /\ issues' = [issues EXCEPT ![p] = SaveIssues(Merged(p))]
    /\ UNCHANGED <<env, file, loaded, fileValues, form, dirty, saver, init>>

(* save_page, save_runtime and save_all (all, from the top bar): what is   *)
(* on disk now, with the page's values over it.                            *)
SaveBeginCached(p, all) ==
    /\ Touch /\ (all => p = "runtime")
    /\ SaveIssues(Merged(p)) = {}
    /\ saver' = [Idle EXCEPT !.pc = "read", !.page = p, !.all = all, !.values = Merged(p),
                             !.cfg = ApplyFlat(loaded, Merged(p))]
    /\ UNCHANGED <<env, file, gui, init>>

SaveBegin(p, all) ==
    /\ Touch /\ (all => p = "runtime")
    /\ SaveIssues(Merged(p)) = {}
    /\ saver' = [Idle EXCEPT !.pc = "read", !.page = p, !.all = all, !.values = Merged(p),
                             !.cfg = ApplyFlat(LoadedOrDefault(file), Merged(p))]
    /\ UNCHANGED <<env, file, gui, init>>

(* The save ends without having written.                                   *)
SaveFails ==
    /\ issues' = [issues EXCEPT ![saver.page] = {}]
    /\ saver' = Idle
    /\ UNCHANGED <<loaded, fileValues, form, dirty>>

(* Plausible slip: a file that does not parse is read again and again.     *)
SaveReadWaits ==
    /\ saver.pc = "read"
    /\ ~(file.exists /\ ~file.syntax)
    /\ saver' = [saver EXCEPT !.pc = "write", !.doc = file]
    /\ UNCHANGED <<gui, env, file, init, spent>>

(* GuiConfig::save reads the file again, and refuses one it cannot parse.  *)
SaveRead ==
    /\ saver.pc = "read"
    /\ IF file.exists /\ ~file.syntax
       THEN SaveFails
       ELSE /\ saver' = [saver EXCEPT !.pc = "write", !.doc = file]
            /\ UNCHANGED gui
    /\ UNCHANGED <<env, file, init, spent>>

(* Plausible slip: the document is written straight to config.toml.        *)
SaveWriteInPlace ==
    /\ saver.pc = "write"
    /\ \/ /\ saver' = [saver EXCEPT !.pc = "rename"]
          /\ file' = [EmptyDoc EXCEPT !.whole = FALSE]
          /\ UNCHANGED gui
       \/ SaveFails /\ UNCHANGED file
    /\ UNCHANGED <<env, init, spent>>

(* The rendered document goes to the temporary file; the disk may refuse.  *)
SaveWrite ==
    /\ saver.pc = "write"
    /\ \/ saver' = [saver EXCEPT !.pc = "rename"] /\ UNCHANGED gui
       \/ SaveFails
    /\ UNCHANGED <<env, file, init, spent>>

SaveRename ==
    /\ saver.pc = "rename"
    /\ \/ /\ file' = ApplyTo(saver.cfg, saver.doc)
          /\ init' = [init EXCEPT !.held = FALSE]
          /\ loaded' = saver.cfg
          /\ fileValues' = saver.values
          /\ dirty' = IF saver.all THEN {} ELSE dirty \ {saver.page}
          /\ issues' = [issues EXCEPT ![saver.page] = {}]
          /\ saver' = Idle
          /\ UNCHANGED form
       \/ SaveFails /\ UNCHANGED <<file, init>>
    /\ UNCHANGED <<env, spent>>

(* The console dies and is opened again; the temporary file it may leave   *)
(* behind is never read by anyone.                                         *)
GuiCrash ==
    /\ saver.pc # "idle"
    /\ saver' = Idle
    /\ loaded' = OpenedFrom(file).loaded
    /\ fileValues' = OpenedFrom(file).values
    /\ form' = OpenedFrom(file).form
    /\ dirty' = {}
    /\ issues' = [p \in DOMAIN Pages |-> {}]
    /\ UNCHANGED <<env, file, init, spent>>

(* `rx11 config init`: exists(), then a write that first creates an empty  *)
(* file and then fills the file it opened, wherever the path leads by then.*)
InitCheck ==
    /\ init.pc = "idle" /\ SharesFile /\ ~file.exists
    /\ init' = [init EXCEPT !.pc = "create"]
    /\ UNCHANGED <<env, file, gui, saver, spent>>

InitCreate ==
    /\ init.pc = "create"
    /\ file' = [EmptyDoc EXCEPT !.whole = FALSE]
    /\ init' = [pc |-> "fill", held |-> TRUE]
    /\ UNCHANGED <<env, gui, saver, spent>>

InitFill ==
    /\ init.pc = "fill"
    /\ file' = IF init.held THEN Template ELSE file
    /\ init' = [pc |-> "done", held |-> FALSE]
    /\ UNCHANGED <<env, gui, saver, spent>>

(* An editor replaces or removes the file.                                 *)
EditorSaves(doc) ==
    /\ file # doc /\ outside < MaxOutside
    /\ outside' = outside + 1
    /\ file' = doc
    /\ init' = [init EXCEPT !.held = FALSE]
    /\ UNCHANGED <<env, gui, saver, touches>>

Next ==
    \/ \E k \in DOMAIN Edits : \E t \in Edits[k] : TypeText(k, t) \/ ChangeControl(k, t)
    \/ \E k \in DOMAIN Edits : LeaveField(k)
    \/ PickFile(Word("picked"))
    \/ Reload
    \/ \E r \in Roles : StartRole(r)
    \/ \E p \in DOMAIN Pages : SaveRefused(p)
    \/ \E p \in DOMAIN Pages, all \in BOOLEAN : SaveBegin(p, all)
    \/ SaveRead \/ SaveWrite \/ SaveRename
    \/ GuiCrash
    \/ InitCheck \/ InitCreate \/ InitFill
    \/ \E doc \in Docs \cup {Absent} : EditorSaves(doc)

(* The console runs the file operations of a save to their end.            *)
Fairness == WF_vars(SaveRead) /\ WF_vars(SaveWrite) /\ WF_vars(SaveRename)

Spec == Init /\ [][Next]_vars /\ Fairness

-----------------------------------------------------------------------------
(* Properties.                                                             *)

TypeOK ==
    /\ env \in Envs
    /\ DOMAIN file.known \subseteq Fields
    /\ DOMAIN loaded \subseteq Fields /\ DOMAIN fileValues \subseteq Fields
    /\ \A p \in DOMAIN Pages : DOMAIN form[p].shown = KeysOf(p)
                              /\ DOMAIN form[p].cache \subseteq KeysOf(p)
                              /\ issues[p] \subseteq Fields
    /\ dirty \subseteq DOMAIN Pages
    /\ saver.pc \in {"idle", "read", "write", "rename"}
    /\ init \in [pc : {"idle", "create", "fill", "done"}, held : BOOLEAN]

(* The temporary file and the rename: whoever opens config.toml, at any    *)
(* moment and after any crash of the console, finds a complete document,   *)
(* save for the instant in which `rx11 config init` fills a new one.       *)
NeverTorn == file.whole \/ (init.pc = "fill" /\ init.held)

Saved == saver.pc = "rename" /\ saver'.pc = "idle" /\ file' # file

(* The field k of page p as it is shown is what the command line uses.     *)
TakesHold(p, k) ==
    LET t == form[p].shown[k] IN
    IF t[1] = "blank" THEN k \notin DOMAIN CliLoad(file')
    ELSE Given(CliLoad(file'), k) = AsToml(ParseAs(CliType(k), t))

(* What the user saw on a page is what the command line uses after the     *)
(* page is saved, whatever the file said when it was read again: a filled  *)
(* field has the value the command line reads in its text (an integer TOML *)
(* cannot hold is the largest it can), an emptied one is gone.  After      *)
(* `save all` it is so for the runtime page alone, against actions.rs:303: *)
(* "save them together with the role page the user is looking at, so [save *)
(* all] really means all"; KeepsEditorsKeys says what the others become.   *)
SavesTakeHold == [][Saved => \A k \in KeysOf(saver.page) : TakesHold(saver.page, k)]_vars

(* io.rs:35, 91-94 A save "keeps comments, the order of keys and           *)
(* unrecognized keys": every foreign key of the document that was read is  *)
(* in the one written, but for those of a section written as an inline     *)
(* table, each of which is lost.                                           *)
TablesKeepForeign ==
    [][Saved => \A x \in saver.doc.extra :
          x \in file'.extra <=> ~(x[1] \in DOMAIN GuiConfig /\ saver.doc.shape[x[1]] = "inline")]_vars

(* A save that begins with the console's copy up to date never writes a    *)
(* configuration that validate would list problems of, pairs included.     *)
SavedIsSane ==
    [][saver.pc = "idle" /\ saver'.pc = "read" /\ loaded = LoadedOrDefault(file)
          => Validate(saver'.cfg) = {}]_vars

(* actions.rs:94-118, 303-309 A key that is not on the saved page keeps    *)
(* what is set for it in the file as it is read now, an edit made from     *)
(* outside since the console read it included, unless the console          *)
(* remembers a value for it: then exactly the remembered value is written. *)
(* So saving the runtime page is not "just the `[runtime]` section, merged *)
(* over everything else on disk" (actions.rs:111), and saving all leaves   *)
(* the role pages' edits out.                                              *)
KeepsEditorsKeys ==
    [][saver.pc = "idle" /\ saver'.pc = "read" /\ GuiLoads(file)
          => \A k \in Fields \ KeysOf(saver'.page) :
                Given(saver'.cfg, k) = Given(IF k \in DOMAIN fileValues THEN loaded ELSE file.known, k)]_vars

ShowsFile(p) ==
    /\ loaded = LoadedOrDefault(file) /\ fileValues = FlatValues(loaded)
    /\ form[p].shown = OpenedFrom(file).form[p].shown

(* Saving a page on which nothing was touched changes no value that is set *)
(* in the file: every value survives its way into a form and back.  (Keys  *)
(* that are not set are another matter, see the README; and a codec the    *)
(* selection does not offer cannot be shown.)                              *)
PristineSaveKeeps ==
    [][saver.pc = "idle" /\ saver'.pc = "read" /\ ShowsFile(saver'.page)
          => \A k \in DOMAIN loaded :
                (k \in KeysOf(saver'.page) /\ WidgetOf(k) = "select"
                    /\ loaded[k][2] \notin SelectItems)
                \/ Given(saver'.cfg, k) = loaded[k]]_vars

(* What the command line starts role r as, from the file and no arguments. *)
CliSpec(r) ==
    CASE r = "server" -> CliServer(NoKeys, CliLoad(file))
      [] r = "client" -> CliClient(NoKeys, CliLoad(file))
      [] r = "ssh" -> CliSsh(NoKeys, CliLoad(file))

(* A start from forms that show the file.                                  *)
StartsFromFile(r) == SharesFile /\ GuiLoads(file) /\ ShowsFile(r) /\ GuiSpec(r).ok

(* Where the programs part: on a display the file sets, and on an          *)
(* ssh.reconnect it does not set.                                          *)
PartsOn(r) ==
    (IF <<r, "display">> \in DOMAIN file.known THEN {"display"} ELSE {})
    \cup (IF r = "ssh" /\ <<"ssh", "reconnect">> \notin DOMAIN file.known THEN {"reconnect"} ELSE {})

(* session.rs:222-242, commands/client.rs:30-35 The two programs start the  *)
(* same session from the same file: with forms that show the file, what a  *)
(* start from the console is built of is what the command line builds      *)
(* without arguments, in every field but those PartsOn names, and in those *)
(* never.  Against cli.rs:17 ("config file > defaults") `client` and `ssh`  *)
(* turn automatic assignment off when the file sets a display, and then    *)
(* ask for none; against session.rs:242 (the console's defaults are those  *)
(* of `rx11 ssh`, reconnect included) its switch is off when the file is   *)
(* silent, where the command line's default is on.                         *)
StartAgrees ==
    \A r \in Roles : StartsFromFile(r) =>
        /\ CliSpec(r).ok
        /\ {f \in DOMAIN GuiSpec(r) : CliSpec(r)[f] # GuiSpec(r)[f]} = PartsOn(r)

(* A save that began comes to its end, whatever the others do to the file. *)
SaveEnds == saver.pc # "idle" ~> saver.pc = "idle"

(* The file is readable at every moment, and the sessions the two programs  *)
(* read out of it differ exactly in what PartsOn names.                    *)
FileSound == TypeOK /\ NeverTorn /\ StartAgrees

(* A save writes what its page shows, is valid, and keeps the keys that     *)
(* neither its page nor the console's memory has a value for.              *)
SavesFaithful ==
    /\ SavesTakeHold /\ SavedIsSane /\ KeepsEditorsKeys /\ PristineSaveKeeps
    /\ TablesKeepForeign
=============================================================================
