-------------------------- MODULE DesktopSettings --------------------------
(***************************************************************************)
(* desktop-settings.json (crates/desktop/src-tauri/src/settings.rs): two   *)
(* instances of the app write it in place, die on the way, and load it.    *)
(***************************************************************************)
EXTENDS Sequences, Naturals

CONSTANTS
    Apps,       \* instances of the app
    MayCrash    \* whether they die in the middle of a write

ASSUME MayCrashAssumption == MayCrash \in BOOLEAN

VARIABLES
    settings,   \* the text of the file, or Missing
    app,        \* what each app is writing
    loaded,     \* what each app has loaded last
    asked       \* the values that were ever set

settingsVars == <<settings, app, loaded, asked>>

Missing == <<"no file">>
Nothing == <<"nothing">>
Broken == <<"error">>
(* The end of the JSON text; what comes before is the same for both. *)
Text(on) == IF on THEN <<"t", "r", "u", "e", "}">> ELSE <<"f", "a", "l", "s", "e", "}">>

SettingsInit ==
    /\ settings = Missing
    /\ app = [a \in Apps |-> Nothing]
    /\ loaded = [a \in Apps |-> Nothing]
    /\ asked = {}

(* set_start_minimized: fs::write truncates the file, and then writes from *)
(* its start.                                                              *)
SetStartMinimized(a) ==
    /\ app[a] = Nothing
    /\ \E on \in BOOLEAN : app' = [app EXCEPT ![a] = Text(on)] /\ asked' = asked \cup {on}
    /\ settings' = << >>
    /\ UNCHANGED loaded
WriteSettings(a) ==
    /\ app[a] # Nothing
    /\ settings' = app[a] \o SubSeq(settings, Len(app[a]) + 1, Len(settings))
    /\ app' = [app EXCEPT ![a] = Nothing]
    /\ UNCHANGED <<loaded, asked>>
Crash(a) ==
    /\ MayCrash /\ app[a] # Nothing
    /\ app' = [app EXCEPT ![a] = Nothing]
    /\ loaded' = [loaded EXCEPT ![a] = Nothing]
    /\ UNCHANGED <<settings, asked>>

(* load_from_path.  Mutant: a text that does not parse is the default. *)
LoadOrDefault(text) == IF \E on \in BOOLEAN : text = Text(on) THEN text ELSE Text(FALSE)
LoadText(text) ==
    IF text = Missing THEN Text(FALSE)
    ELSE IF \E on \in BOOLEAN : text = Text(on) THEN text
    ELSE Broken
GetDesktopSettings(a) ==
    /\ loaded' = [loaded EXCEPT ![a] = LoadText(settings)]
    /\ UNCHANGED <<settings, app, asked>>

SettingsNext == \E a \in Apps :
    SetStartMinimized(a) \/ WriteSettings(a) \/ Crash(a) \/ GetDesktopSettings(a)

SettingsSpec == SettingsInit /\ [][SettingsNext]_settingsVars

-----------------------------------------------------------------------------
(* However the writes of several apps run into each other or are cut short *)
(* (save_to_path), load never makes up a value: it answers one that was    *)
(* set, an error, or, while there is no file, the default.                 *)
NothingMadeUp ==
    [][\A a \in Apps : loaded'[a] # loaded[a] /\ loaded'[a] \notin {Nothing, Broken} =>
        \E on \in IF settings = Missing THEN {FALSE} ELSE asked : loaded'[a] = Text(on)]_settingsVars

(* The test settings_round_trip: once save has returned, with no other     *)
(* save under way, the file can be loaded.                                 *)
SettingsRoundTrip ==
    (settings # Missing /\ \A a \in Apps : app[a] = Nothing) => LoadText(settings) # Broken
=============================================================================
