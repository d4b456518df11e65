----------------------------- MODULE ConfigFile -----------------------------
(***************************************************************************)
(* The configuration file of the desktop app: save_config_snapshot and     *)
(* get_config_snapshot of crates/desktop/src-tauri/src/commands.rs, one    *)
(* system call after the other, by several instances of the app, with      *)
(* calls that fail and apps that die.                                      *)
(*                                                                         *)
(* Names point to nodes and nodes hold content: a rename moves a name, and *)
(* an app that has opened a file goes on writing to its node.              *)
(***************************************************************************)
EXTENDS GatewayConfig, FiniteSets

CONSTANTS
    Apps,       \* instances of the app
    Contents,   \* what is typed into the editor
    First,      \* what the file may be at first
    Profiles,   \* the canonical profiles that may lie beside it
    Failing,    \* the calls that may fail: subset of {"write", "remove", "rename"}
    LastMilli,  \* bound of the clock
    SameMilli   \* whether two saves may fall in one millisecond

ASSUME AppsAssumption == IsFiniteSet(Apps)
ASSUME FailingAssumption == Failing \subseteq {"write", "remove", "rename"}
ASSUME LastMilliAssumption == LastMilli \in Nat \ {0}
ASSUME SameMilliAssumption == SameMilli \in BOOLEAN

VARIABLES
    names,      \* the node of each file name, NoNode if there is no such file
    disk,       \* the content of each node
    profile,    \* the canonical profile
    now,        \* the time in milliseconds
    app         \* what each app is doing, and the end of what it did last

vars == <<names, disk, profile, now, app>>

Config == 0                         \* ~/.ccgw/config.yaml
Drafts == 1 .. LastMilli            \* .config.<stamp>.tmp
Names == {Config} \cup Drafts
NoNode == 0
Nodes == 1 .. LastMilli + 1 + Cardinality(Apps)

Read(n) == IF names[n] = NoNode THEN Missing ELSE disk[names[n]]
Idle(result) == [stage |-> "idle", result |-> result]

Init ==
    /\ \E file \in First :
        /\ names = [n \in Names |-> IF n = Config /\ file # Missing THEN 1 ELSE NoNode]
        /\ disk = [i \in Nodes |-> IF i = 1 THEN file ELSE Missing]
    /\ profile \in Profiles
    /\ now = 1
    /\ app = [a \in Apps |-> Idle("none")]

At(a, stage) == app[a].stage = stage
Goto(a, stage) == app' = [app EXCEPT ![a].stage = stage]
Return(a, result) == app' = [app EXCEPT ![a] = Idle(result)]
Unlinked(n) == [names EXCEPT ![n] = NoNode]

-----------------------------------------------------------------------------
(* write_validated_config.  fs::write opens the draft, which truncates the *)
(* one of the same millisecond, and then fills what it has opened.         *)

Free == {i \in Nodes : /\ \A n \in Names : names[n] # i
                       /\ \A a \in Apps : At(a, "writing") => app[a].node # i}
OpenDraft(a, stamp) ==
    /\ At(a, "idle") /\ Free # {}
    /\ \E c \in Contents,
          i \in IF names[stamp] = NoNode THEN {CHOOSE i \in Free : TRUE} ELSE {names[stamp]} :
        /\ names' = [names EXCEPT ![stamp] = i]
        /\ disk' = [disk EXCEPT ![i] = Partial]
        /\ app' = [app EXCEPT ![a] =
                        [stage |-> "writing", stamp |-> stamp, node |-> i, content |-> c]]
    /\ UNCHANGED <<profile, now>>
(* Mutant: one name for every draft. *)
BeginSaveFixedName(a) == OpenDraft(a, 1)
BeginSave(a) == (SameMilli \/ names[now] = NoNode) /\ OpenDraft(a, now)

WriteDraft(a) ==
    /\ At(a, "writing")
    /\ \/ /\ disk' = [disk EXCEPT ![app[a].node] = app[a].content]
          /\ Goto(a, "validating")
       \/ /\ "write" \in Failing
          /\ Return(a, "write failed")
          /\ UNCHANGED disk
    /\ UNCHANGED <<names, profile, now>>

(* Mutant: an invalid draft is reported and installed. *)
ValidateAndGoOn(a) ==
    /\ At(a, "validating")
    /\ Goto(a, "checked")
    /\ UNCHANGED <<names, disk, profile, now>>
ValidateDraft(a) ==
    /\ At(a, "validating")
    /\ IF Load(Read(app[a].stamp), profile).ok
       THEN Goto(a, "checked") /\ UNCHANGED names
       ELSE Return(a, "invalid") /\ names' = Unlinked(app[a].stamp)
    /\ UNCHANGED <<disk, profile, now>>

CheckExists(a) ==
    /\ At(a, "checked")
    /\ Goto(a, IF names[Config] = NoNode THEN "renaming" ELSE "removing")
    /\ UNCHANGED <<names, disk, profile, now>>

(* remove_file fails too if the file has gone in the meantime. *)
RemoveOld(a) ==
    /\ At(a, "removing")
    /\ \/ /\ names[Config] # NoNode
          /\ names' = Unlinked(Config)
          /\ Goto(a, "renaming")
       \/ /\ names[Config] = NoNode \/ "remove" \in Failing
          /\ Return(a, "remove failed")
          /\ UNCHANGED names
    /\ UNCHANGED <<disk, profile, now>>

Renamed(a) == [names EXCEPT ![Config] = names[app[a].stamp], ![app[a].stamp] = NoNode]
Show(a) == app' = [app EXCEPT ![a] = [stage |-> "looking", saved |-> @.content]]
CannotRename(a) == names[app[a].stamp] = NoNode \/ "rename" \in Failing
(* Mutant: a failed rename removes the draft. *)
RenameDraftTidies(a) ==
    /\ At(a, "renaming")
    /\ \/ names[app[a].stamp] # NoNode /\ Show(a) /\ names' = Renamed(a)
       \/ CannotRename(a) /\ Return(a, "rename failed") /\ names' = Unlinked(app[a].stamp)
    /\ UNCHANGED <<disk, profile, now>>
RenameDraft(a) ==
    /\ At(a, "renaming")
    /\ \/ names[app[a].stamp] # NoNode /\ Show(a) /\ names' = Renamed(a)
       \/ CannotRename(a) /\ Return(a, "rename failed") /\ UNCHANGED names
    /\ UNCHANGED <<disk, profile, now>>

-----------------------------------------------------------------------------
(* read_config_snapshot, at the end of a save and on its own: is there a   *)
(* file (if not, the example is shown), what does it contain, what does    *)
(* Config::load, which reads it again, say of it.                          *)

Refresh(a) ==
    /\ At(a, "idle")
    /\ app' = [app EXCEPT ![a] = [stage |-> "looking", saved |-> Missing]]
    /\ UNCHANGED <<names, disk, profile, now>>
Look(a) ==
    /\ At(a, "looking")
    /\ IF names[Config] = NoNode THEN Return(a, "example") ELSE Goto(a, "reading")
    /\ UNCHANGED <<names, disk, profile, now>>
ReadContent(a) ==
    /\ At(a, "reading")
    /\ IF names[Config] = NoNode THEN Return(a, "read failed")
       ELSE app' = [app EXCEPT ![a] =
                        [stage |-> "summarising", saved |-> @.saved, content |-> Read(Config)]]
    /\ UNCHANGED <<names, disk, profile, now>>
Summarise(a) ==
    /\ At(a, "summarising")
    /\ app' = [app EXCEPT ![a] = [stage |-> "idle", result |-> "shown", saved |-> @.saved,
                    content |-> @.content, summary |-> Load(Read(Config), profile)]]
    /\ UNCHANGED <<names, disk, profile, now>>

-----------------------------------------------------------------------------
(* An app dies in the middle of a save, and is started again. *)
Crash(a) ==
    /\ ~At(a, "idle")
    /\ Return(a, "none")
    /\ UNCHANGED <<names, disk, profile, now>>

Tick ==
    /\ now < LastMilli
    /\ now' = now + 1
    /\ UNCHANGED <<names, disk, profile, app>>

Step(a) ==
    \/ BeginSave(a) \/ WriteDraft(a) \/ ValidateDraft(a)
    \/ CheckExists(a) \/ RemoveOld(a) \/ RenameDraft(a)
    \/ Refresh(a) \/ Look(a) \/ ReadContent(a) \/ Summarise(a)
    \/ Crash(a)

Next == Tick \/ \E a \in Apps : Step(a)

Spec == Init /\ [][Next]_vars

-----------------------------------------------------------------------------
(* Nodes are not shared by two names, and an app in the middle of a save   *)
(* has the draft it has opened.                                            *)
TypeOK ==
    /\ names \in [Names -> Nodes \cup {NoNode}]
    /\ disk \in [Nodes -> Contents \cup First \cup {Missing, Partial}]
    /\ profile \in Profiles
    /\ now \in 1 .. LastMilli
    /\ \A n, m \in Names : names[n] = names[m] /\ names[n] # NoNode => n = m
    /\ \A a \in Apps : app[a].stage \in {"writing", "validating", "checked", "removing", "renaming"}
            => app[a].stamp \in Drafts /\ app[a].content \in Contents

(* Whatever comes to be in the place of the configuration is a whole file  *)
(* that has passed Config::load (write_validated_config): however saves    *)
(* overlap, fail and are cut short, no daemon is started with a draft that *)
(* was not validated.  What lay there at first stays or gives way.         *)
Installs ==
    names'[Config] # NoNode /\ Read(Config)' # Read(Config) => (Load(Read(Config), profile).ok)'
InstalledIsValid == [][Installs]_vars

(* remove_file before rename leaves a gap; whoever is left in it by a      *)
(* crash, a failed rename or the other app has a draft beside it from      *)
(* which the configuration can be put back.                                *)
LostIsRecoverable ==
    names[Config] = NoNode => \E d \in Drafts : names[d] # NoNode /\ Load(Read(d), profile).ok

(* write_validated_config answers Ok in the moment in which what was typed *)
(* is in place: not what another app typed, nor the half of it.            *)
SavePersists ==
    [][\A a \in Apps : At(a, "renaming") /\ app'[a].stage = "looking"
            => names'[Config] # NoNode /\ disk'[names'[Config]] = app[a].content]_vars

(* What save_config_snapshot shows after an Ok is what was saved, with a   *)
(* summary and no error.  True for one app; with two the answer may be     *)
(* made of two files (README, Disagreements).                              *)
SavedIsShown ==
    \A a \in Apps :
        /\ app[a].stage \in {"looking", "reading", "summarising"} /\ app[a].saved # Missing =>
                Read(Config) = app[a].saved
        /\ At(a, "idle") /\ app[a].result = "shown" /\ app[a].saved # Missing =>
                app[a].content = app[a].saved /\ app[a].summary.ok

-----------------------------------------------------------------------------
(* The two gateways read the same files with code of their own,            *)
(* Config::load in Rust and loadConfig in TypeScript, and come to the same *)
(* verdict: what is saved from the app either of them can serve.  Three    *)
(* kinds of files are told apart (README, Disagreements): a device id that *)
(* is not ASCII, whose length they count in bytes and in UTF-16 units; an  *)
(* empty canonical_profile_path, which is no path in TypeScript; and a     *)
(* profile whose environment is not that of EnvConfig, which only Rust     *)
(* looks at.                                                               *)
Comparable(file) ==
    file \in {Missing, Partial} \/
        /\ file.path # ""
        /\ IF file.path = None THEN file.device \in Ascii
           ELSE profile \in {Missing, Partial} \/ (profile.typed /\ profile.device \in Ascii)
GatewaysAgree ==
    Comparable(Read(Config)) =>
        (Load(Read(Config), profile).ok <=> TsAccepts(Read(Config), profile))

(* Without those conditions: what Rust loads TypeScript loads too.         *)
AcceptedByTypeScript ==
    Load(Read(Config), profile).ok => TsAccepts(Read(Config), profile)

(* The message of validate: a device id is "a real 64-char hex value".     *)
DeviceIsHex ==
    LET loaded == Load(Read(Config), profile) IN loaded.ok => loaded.device = "hex"
=============================================================================
