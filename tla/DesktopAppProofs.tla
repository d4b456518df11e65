-------------------------- MODULE DesktopAppProofs -------------------------
(***************************************************************************)
(* What TLAPS proves about Dashboard, for any number of polls and loads    *)
(* under way and any statuses, files and tabs the assumptions allow; and,  *)
(* at the end, about DesktopSettings, for any number of apps whose writes  *)
(* run into each other and are cut short anywhere.                         *)
(***************************************************************************)
EXTENDS Dashboard, DesktopSettings, SequenceTheorems, TLAPS

(* What the hook remembers goes with what is shown: the last notification  *)
(* is the one remembered; nothing is remembered of a danger that has gone, *)
(* nor by a hook that is not mounted; what was told since the tab was last *)
(* opened is remembered.                                                   *)
HookInv ==
    /\ notified # {} => told = notified
    /\ Danger(status, config) = {} => notified = {} /\ told = {}
    /\ tab # "status" => ~seen /\ notified = {} /\ left
    /\ ~left => told = notified
    /\ seen \in BOOLEAN /\ left \in BOOLEAN

IInv == HookInv /\ DangerIsTold

LEMMA RenderStep == ASSUME IInv, Render PROVE IInv'
<1> DEFINE danger == Danger(status', config')
           s == seen \/ status' = "running"
<1>1. danger = Danger(status, config)'
  BY DEF Danger
<1> HIDE DEF danger
<1>2. /\ told' = IF danger = {} THEN {}
                 ELSE IF tab' = "status" /\ Notifies(s, danger) THEN danger ELSE told
      /\ IF tab' # "status" THEN seen' = FALSE /\ notified' = {} /\ left' = TRUE
         ELSE /\ seen' = s
              /\ notified' = IF danger = {} THEN {}
                             ELSE IF Notifies(s, danger) THEN danger ELSE notified
              /\ left' = (left /\ ~Notifies(s, danger))
  BY DEF Render, danger
<1>3. CASE tab' # "status"
  BY <1>1, <1>2, <1>3 DEF IInv, HookInv, DangerIsTold
<1>4. CASE tab' = "status"
  <2>1. CASE danger = {}
    BY <1>1, <1>2, <1>4, <2>1 DEF IInv, HookInv, DangerIsTold
  <2>2. CASE danger # {} /\ Notifies(s, danger)
    BY <1>1, <1>2, <1>4, <2>2 DEF IInv, HookInv, DangerIsTold
  <2>3. CASE danger # {} /\ ~Notifies(s, danger)
    <3>1. notified' = notified /\ told' = told /\ seen' = s /\ left' = left
      BY <1>2, <1>4, <2>3 DEF IInv, HookInv
    <3>2. s \/ status' = "failed" => notified = danger
      BY <2>3 DEF Notifies
    <3> QED
      BY <1>1, <1>4, <2>3, <3>1, <3>2 DEF IInv, HookInv, DangerIsTold
  <2> QED
    BY <2>1, <2>2, <2>3
<1> QED
  BY <1>3, <1>4

(* Steps that show nothing new. *)
LEMMA HiddenStep == ASSUME IInv, UNCHANGED <<tab, status, config, hook>> PROVE IInv'
BY DEF IInv, HookInv, DangerIsTold, Danger, hook

LEMMA RenderTypes ==
    ASSUME TypeOK, Render
    PROVE  /\ seen' \in BOOLEAN /\ left' \in BOOLEAN
           /\ \A d \in {notified', told'} : d \subseteq Danger("failed", "invalid") \cup
                  Danger("failed", "few keys") \cup Danger("failed", "no token")
<1> DEFINE danger == Danger(status', config')
           All == Danger("failed", "invalid") \cup Danger("failed", "few keys")
                      \cup Danger("failed", "no token")
<1>1. danger \subseteq All /\ {} \subseteq All
  BY DEF Danger
<1>2. notified \subseteq All /\ told \subseteq All /\ seen \in BOOLEAN /\ left \in BOOLEAN
  BY DEF TypeOK
<1>3. /\ told' \in {{}, danger, told}
      /\ notified' \in {{}, danger, notified}
      /\ seen' \in BOOLEAN /\ left' \in BOOLEAN
  <2> HIDE DEF danger, All
  <2>1. /\ told' = IF danger = {} THEN {}
                   ELSE IF tab' = "status" /\ Notifies(seen \/ status' = "running", danger)
                        THEN danger ELSE told
        /\ IF tab' # "status" THEN seen' = FALSE /\ notified' = {} /\ left' = TRUE
           ELSE /\ seen' = (seen \/ status' = "running")
                /\ notified' = IF danger = {} THEN {}
                               ELSE IF Notifies(seen \/ status' = "running", danger)
                                    THEN danger ELSE notified
                /\ left' = (left /\ ~Notifies(seen \/ status' = "running", danger))
    BY DEF Render, danger
  <2> QED
    BY <1>2, <2>1
<1> HIDE DEF danger, All
<1>4. told' \subseteq All /\ notified' \subseteq All
  BY <1>1, <1>2, <1>3
<1> QED
  BY <1>3, <1>4 DEF All

LEMMA TypesStep == TypeOK /\ [Next]_vars => TypeOK'
<1> SUFFICES ASSUME TypeOK, [Next]_vars PROVE TypeOK'
  OBVIOUS
<1> USE StatusesAssumption, FilesAssumption
<1>1. CASE UNCHANGED vars
  BY <1>1 DEF TypeOK, vars, Danger
<1>2. CASE Daemon \/ File
  BY <1>2 DEF TypeOK, Daemon, File, window, hook
<1>3. ASSUME NEW t \in Tabs, OpenTab(t) PROVE TypeOK'
  BY <1>3, RenderTypes DEF TypeOK, OpenTab
<1>4. ASSUME NEW p \in Polls, FetchStatus(p) \/ Answer(p) PROVE TypeOK'
  <2>1. CASE FetchStatus(p) \/ GetDaemonStatus(p) \/ GetDaemonHealth(p)
    BY <1>4, <2>1 DEF TypeOK, FetchStatus, GetDaemonStatus, GetDaemonHealth, Free, window, hook
  <2>2. CASE SetStatus(p)
    BY <1>4, <2>2, RenderTypes DEF TypeOK, SetStatus, Free
  <2>3. CASE SetHealth(p)
    BY <1>4, <2>3, RenderTypes DEF TypeOK, SetHealth, Free
  <2> QED
    BY <1>4, <2>1, <2>2, <2>3 DEF Answer
<1>5. ASSUME NEW calls \in SUBSET Calls, NEW step \in {"asked", "saving"}, Begin(calls, step)
      PROVE  TypeOK'
  BY <1>5 DEF TypeOK, Begin, hook
<1>6. CASE LoadByItself
  BY <1>5, <1>6 DEF LoadByItself, FreeLoads, Calls
<1>7. ASSUME NEW l \in Calls, Reload(l) \/ Save(l) \/ Snapshot(l) \/ SaveEnds(l) PROVE TypeOK'
  <2>1. CASE Reload(l) \/ Save(l)
    BY <1>5, <1>7, <2>1 DEF Reload, Save
  <2>2. CASE GetConfigSnapshot(l) \/ SaveConfigSnapshot(l) \/ SaveEnds(l)
    <3>1. CASE GetConfigSnapshot(l)
      BY <1>7, <3>1 DEF TypeOK, GetConfigSnapshot, window, hook
    <3>2. CASE SaveConfigSnapshot(l)
      <4>1. PICK f \in Savable : file' = f /\ load' = [load EXCEPT ![l] = "saved " \o f]
        BY <3>2 DEF SaveConfigSnapshot
      <4> DEFINE saved == "saved " \o f
      <4>2. saved \in {"saved " \o g : g \in Savable} /\ f \in Files /\ load' = [load EXCEPT ![l] = saved]
        BY <4>1 DEF Savable
      <4> HIDE DEF saved
      <4> QED
        <5>1. UNCHANGED <<daemon, poll, tab, status, health, config, busy, seen, notified, told, left>>
          BY <3>2 DEF SaveConfigSnapshot, window, hook
        <5>2. load' \in [Calls ->
                {Free, "asked", "saving", "fetching"} \cup Files \cup {"saved " \o g : g \in Savable}]
          <6> DEFINE Values == {Free, "asked", "saving", "fetching"} \cup Files
                                   \cup {"saved " \o g : g \in Savable}
          <6>1. saved \in Values /\ load \in [Calls -> Values]
            BY <4>2 DEF TypeOK
          <6> HIDE DEF Values
          <6>2. load' \in [Calls -> Values]
            BY <1>7, <4>2, <6>1
          <6> QED
            BY <6>2 DEF Values
        <5> QED
          BY <4>1, <4>2, <5>1, <5>2 DEF TypeOK
    <3>3. CASE SaveEnds(l)
      BY <1>7, <3>3 DEF TypeOK, SaveEnds, Free, hook
    <3> QED
      BY <2>2, <3>1, <3>2, <3>3
  <2>3. CASE SetConfig(l)
    BY <1>7, <2>3, RenderTypes DEF TypeOK, SetConfig, SetConfigTo, Free
  <2>4. CASE SetSaved(l)
    BY <1>7, <2>4, RenderTypes DEF TypeOK, SetSaved, Savable
  <2> QED
    BY <1>7, <2>1, <2>2, <2>3, <2>4 DEF Snapshot
<1> QED
  BY <1>1, <1>2, <1>3, <1>4, <1>6, <1>7 DEF Next, Calls

(* The window and the calls stay typed, for any number of polls and loads. *)
THEOREM TypeOKHolds == Spec => []TypeOK
<1>1. Init => TypeOK
  BY StatusesAssumption, FilesAssumption, TabsAssumption DEF Init, TypeOK, Free, Danger
<1> QED
  BY <1>1, TypesStep, PTL DEF Spec

LEMMA InitInv == Init => IInv
BY DEF Init, IInv, HookInv, DangerIsTold, Danger

LEMMA StepInv == IInv /\ [Next]_vars => IInv'
<1> SUFFICES ASSUME IInv, [Next]_vars PROVE IInv'
  OBVIOUS
<1>1. CASE Daemon \/ File \/ UNCHANGED vars
  BY <1>1, HiddenStep DEF Daemon, File, vars, window, hook
<1>2. ASSUME NEW t \in Tabs, OpenTab(t) PROVE IInv'
  BY <1>2, RenderStep DEF OpenTab
<1>3. ASSUME NEW p \in Polls, FetchStatus(p) \/ Answer(p) PROVE IInv'
  <2>1. CASE FetchStatus(p) \/ GetDaemonStatus(p) \/ GetDaemonHealth(p)
    BY <2>1, HiddenStep DEF FetchStatus, GetDaemonStatus, GetDaemonHealth, window, hook
  <2>2. CASE SetStatus(p) \/ SetHealth(p)
    BY <2>2, RenderStep DEF SetStatus, SetHealth
  <2> QED
    BY <1>3, <2>1, <2>2 DEF Answer
<1>4. CASE LoadByItself
  BY <1>4, HiddenStep DEF LoadByItself, Begin
<1>5. ASSUME NEW l \in Calls, Reload(l) \/ Save(l) \/ Snapshot(l) \/ SaveEnds(l) PROVE IInv'
  <2>1. CASE Reload(l) \/ Save(l) \/ SaveEnds(l)
    BY <2>1, HiddenStep DEF Reload, Save, Begin, SaveEnds
  <2>2. CASE GetConfigSnapshot(l) \/ SaveConfigSnapshot(l)
    BY <2>2, HiddenStep DEF GetConfigSnapshot, SaveConfigSnapshot, window
  <2>3. CASE SetConfig(l) \/ SetSaved(l)
    BY <2>3, RenderStep DEF SetConfig, SetConfigTo, SetSaved
  <2> QED
    BY <1>5, <2>1, <2>2, <2>3 DEF Snapshot
<1> QED
  BY <1>1, <1>2, <1>3, <1>4, <1>5 DEF Next, Calls

LEMMA SpecInv == Spec => []IInv
BY InitInv, StepInv, PTL DEF Spec

-----------------------------------------------------------------------------
(* On the status tab of a gateway that has run or failed the user has been *)
(* told of the dangers that are shown.                                     *)
THEOREM DangerIsToldHolds == Spec => []DangerIsTold
<1>1. IInv => DangerIsTold
  BY DEF IInv
<1> QED
  BY <1>1, SpecInv, PTL

(* A hook that has not been left since it last notified remembers what it  *)
(* told, so what it notifies of is something else.                         *)
LEMMA NotifyStep ==
    ASSUME IInv, [Next]_vars
    PROVE  notified' # {} /\ notified' # notified => notified' # told \/ left
<1>1. CASE UNCHANGED hook
  BY <1>1 DEF hook
<1>2. CASE Render
  BY <1>2 DEF IInv, HookInv, Render
<1>3. UNCHANGED hook \/ Render
  BY DEF Next, Daemon, File, vars, window, OpenTab, FetchStatus, Answer, GetDaemonStatus, GetDaemonHealth,
     SetStatus, SetHealth, LoadByItself, Begin, Reload, Save, SaveEnds, Snapshot, GetConfigSnapshot,
     SaveConfigSnapshot, SetConfig, SetConfigTo, SetSaved, hook
<1> QED
  BY <1>1, <1>2, <1>3

(* A danger is told once until it has gone or the user comes back to the   *)
(* status tab.                                                             *)
THEOREM ToldOnceHolds == Spec => ToldOnce
<1>1. IInv /\ [Next]_vars => [notified' # {} /\ notified' # notified => notified' # told \/ left]_vars
  BY NotifyStep
<1> QED
  BY <1>1, SpecInv, PTL DEF Spec, ToldOnce

-----------------------------------------------------------------------------
(* desktop-settings.json. *)

(* The first character of a text tells which of the two it can be. *)
Characters == {"t", "r", "u", "e", "f", "a", "l", "s", "}", "no file"}
FirstCharacter(on) == IF on THEN "t" ELSE "f"

TextInv == settings # Missing => \A on \in BOOLEAN : settings = Text(on) => on \in asked
WriterInv == \A a \in Apps : app[a] # Nothing => \E on \in asked : app[a] = Text(on)
SettingsInv ==
    /\ settings \in Seq(Characters)
    /\ asked \subseteq BOOLEAN
    /\ app = [a \in Apps |-> app[a]] /\ loaded = [a \in Apps |-> loaded[a]]
    /\ TextInv /\ WriterInv

LEMMA TextIs ==
    ASSUME NEW on \in BOOLEAN
    PROVE  LET text == Text(on)
           IN  /\ text \in Seq(Characters) /\ Len(text) >= 5 /\ text[1] = FirstCharacter(on)
               /\ text # Nothing /\ text # << >> /\ text # Missing
<1>1. CASE on = TRUE
  BY <1>1 DEF Text, FirstCharacter, Characters, Nothing, Missing
<1>2. CASE on = FALSE
  BY <1>2 DEF Text, FirstCharacter, Characters, Nothing, Missing
<1> QED
  BY <1>1, <1>2

LEMMA RestIs ==
    ASSUME NEW s \in Seq(Characters), NEW n \in Nat
    PROVE  SubSeq(s, n + 1, Len(s)) \in Seq(Characters)
<1>1. Len(s) \in Nat
  BY LenProperties
<1>2. \A i \in n + 1 .. Len(s) : s[i] \in Characters
  BY <1>1, ElementOfSeq
<1> QED
  BY <1>1, <1>2, SubSeqProperties

(* What a write leaves begins like what was written. *)
LEMMA WrittenIs ==
    ASSUME NEW on \in BOOLEAN, NEW rest \in Seq(Characters)
    PROVE  /\ Text(on) \o rest \in Seq(Characters)
           /\ \A other \in BOOLEAN : Text(on) \o rest = Text(other) => other = on
<1> DEFINE t == Text(on)
<1>1. t \in Seq(Characters) /\ Len(t) >= 5 /\ t[1] = FirstCharacter(on)
  BY TextIs
<1> HIDE DEF t
<1>2. Len(rest) \in Nat /\ Len(t) \in Nat
  BY <1>1, LenProperties
<1>3. t \o rest \in Seq(Characters) /\ (t \o rest)[1] = FirstCharacter(on)
  BY <1>1, <1>2, ConcatProperties
<1>4. ASSUME NEW other \in BOOLEAN, t \o rest = Text(other) PROVE other = on
  <2>1. FirstCharacter(on) = FirstCharacter(other)
    BY <1>3, <1>4, TextIs
  <2> QED
    BY <2>1 DEF FirstCharacter
<1> QED
  BY <1>3, <1>4 DEF t

LEMMA SettingsHold == SettingsInit => SettingsInv
<1> SUFFICES ASSUME SettingsInit PROVE SettingsInv
  OBVIOUS
<1>1. ASSUME NEW c \in Characters PROVE <<c>> \in Seq(Characters)
  OBVIOUS
<1>2. settings \in Seq(Characters)
  <2>1. "no file" \in Characters
    BY DEF Characters
  <2> QED
    BY <1>1, <2>1 DEF SettingsInit, Missing
<1> QED
  BY <1>2 DEF SettingsInit, SettingsInv, TextInv, WriterInv

LEMMA SettingsStep == SettingsInv /\ [SettingsNext]_settingsVars => SettingsInv'
<1> SUFFICES ASSUME SettingsInv, [SettingsNext]_settingsVars PROVE SettingsInv'
  OBVIOUS
<1>1. ASSUME NEW a \in Apps, SetStartMinimized(a) PROVE SettingsInv'
  <2>1. PICK on \in BOOLEAN : app' = [app EXCEPT ![a] = Text(on)] /\ asked' = asked \cup {on}
    BY <1>1 DEF SetStartMinimized
  <2>2. settings' = << >> /\ settings' \in Seq(Characters) /\ UNCHANGED loaded
    BY <1>1, EmptySeq DEF SetStartMinimized
  <2>3. TextInv'
    BY <2>2, TextIs DEF TextInv
  <2>4. WriterInv'
    BY <2>1 DEF SettingsInv, WriterInv
  <2> QED
    BY <2>1, <2>2, <2>3, <2>4 DEF SettingsInv
<1>2. ASSUME NEW a \in Apps, WriteSettings(a) PROVE SettingsInv'
  <2>1. PICK on \in asked : app[a] = Text(on)
    BY <1>2 DEF WriteSettings, SettingsInv, WriterInv
  <2> DEFINE rest == SubSeq(settings, Len(Text(on)) + 1, Len(settings))
  <2>2. on \in BOOLEAN /\ Len(Text(on)) \in Nat
    BY TextIs, LenProperties DEF SettingsInv
  <2>3. rest \in Seq(Characters)
    BY <2>2, RestIs DEF SettingsInv
  <2>4. settings' = Text(on) \o rest
    BY <1>2, <2>1 DEF WriteSettings
  <2> HIDE DEF rest
  <2>5. settings' \in Seq(Characters) /\ TextInv'
    BY <1>2, <2>2, <2>3, <2>4, WrittenIs DEF TextInv, WriteSettings
  <2>6. WriterInv' /\ app' = [b \in Apps |-> app'[b]]
    BY <1>2 DEF SettingsInv, WriterInv, WriteSettings
  <2> QED
    BY <1>2, <2>5, <2>6 DEF SettingsInv, WriteSettings
<1>3. ASSUME NEW a \in Apps, Crash(a) PROVE SettingsInv'
  BY <1>3 DEF Crash, SettingsInv, TextInv, WriterInv
<1>4. ASSUME NEW a \in Apps, GetDesktopSettings(a) PROVE SettingsInv'
  BY <1>4 DEF GetDesktopSettings, SettingsInv, TextInv, WriterInv
<1>5. CASE UNCHANGED settingsVars
  BY <1>5 DEF settingsVars, SettingsInv, TextInv, WriterInv
<1> QED
  BY <1>1, <1>2, <1>3, <1>4, <1>5 DEF SettingsNext

LEMMA NothingMadeUpStep ==
    SettingsInv /\ [SettingsNext]_settingsVars =>
        [\A a \in Apps : loaded'[a] # loaded[a] /\ loaded'[a] \notin {Nothing, Broken} =>
            \E on \in IF settings = Missing THEN {FALSE} ELSE asked : loaded'[a] = Text(on)]_settingsVars
<1> SUFFICES ASSUME SettingsInv, SettingsNext, NEW a \in Apps, loaded'[a] # loaded[a],
                    loaded'[a] \notin {Nothing, Broken}
             PROVE  \E on \in IF settings = Missing THEN {FALSE} ELSE asked : loaded'[a] = Text(on)
  OBVIOUS
<1>1. PICK b \in Apps : GetDesktopSettings(b)
  BY DEF SettingsNext, SetStartMinimized, WriteSettings, Crash, SettingsInv
<1>2. loaded'[a] = LoadText(settings)
  BY <1>1 DEF GetDesktopSettings, SettingsInv
<1>3. CASE settings = Missing
  BY <1>2, <1>3 DEF LoadText
<1>4. CASE settings # Missing
  <2>1. PICK on \in BOOLEAN : settings = Text(on) /\ loaded'[a] = settings
    BY <1>2, <1>4 DEF LoadText
  <2> QED
    BY <1>4, <2>1 DEF SettingsInv, TextInv
<1> QED
  BY <1>3, <1>4

(* However the writes of several apps run into each other or are cut short, *)
(* load never makes up a value.                                             *)
THEOREM NothingMadeUpHolds == SettingsSpec => NothingMadeUp
BY SettingsHold, SettingsStep, NothingMadeUpStep, PTL DEF SettingsSpec, NothingMadeUp
=============================================================================
