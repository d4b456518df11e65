-------------------------- MODULE ConfigFileProofs --------------------------
(***************************************************************************)
(* What TLAPS proves about ConfigFile, for any number of apps, any texts,  *)
(* any calls that fail and any clock; all but GatewaysAgree as long as no  *)
(* two saves fall in one millisecond.                                      *)
(***************************************************************************)
EXTENDS ConfigFile, FiniteSetTheorems, TLAPS

SavingStages == {"writing", "validating", "checked", "removing", "renaming"}
Saving(a) == app[a].stage \in SavingStages
SavingStates == [stage : SavingStages, stamp : Drafts, node : Nodes, content : Contents]
LookingStates == [stage : {"looking", "reading"}, saved : Contents \cup {Missing}]
Ok(content) == Load(content, profile).ok

(* The states of the apps: what they need to keep. *)
AppOK ==
    /\ app = [a \in Apps |-> app[a]]
    /\ \A a \in Apps : /\ Saving(a) => app[a] \in SavingStates
                       /\ app[a].stage \in {"looking", "reading"} => app[a] \in LookingStates

(* An app that saves has a draft of its own, which holds what is to be     *)
(* saved once it is written, and is valid once it is validated.            *)
DraftInv(a) ==
    Saving(a) =>
        /\ names[app[a].stamp] # NoNode
        /\ At(a, "writing") => app[a].node = names[app[a].stamp] /\ Read(app[a].stamp) = Partial
        /\ ~At(a, "writing") => Read(app[a].stamp) = app[a].content
        /\ app[a].stage \in {"checked", "removing", "renaming"} => Ok(app[a].content)
OwnInv == \A a, b \in Apps : Saving(a) /\ Saving(b) /\ a # b => app[a].stamp # app[b].stamp

(* The gap that remove_file leaves has a draft beside it.  Where there was *)
(* no file at first there need not be one.                                 *)
Recoverable == Missing \notin First => LostIsRecoverable

IInv ==
    /\ TypeOK /\ AppOK
    /\ \A a \in Apps : DraftInv(a)
    /\ OwnInv
    /\ Recoverable

(* A save has a millisecond to itself: the condition of the theorems. *)
Alone == ~SameMilli

LEMMA Names0 ==
    /\ Config \in Names /\ Drafts \subseteq Names /\ Config \notin Drafts
    /\ NoNode \notin Nodes /\ LastMilli \in Nat /\ 1 \in Drafts
BY LastMilliAssumption, SMT DEF Config, Names, Drafts, NoNode, Nodes

LEMMA PartialIsInvalid == ~Ok(Partial) /\ ~Ok(Missing)
BY DEF Ok, Load, Partial, Missing, Failed

(* TypeOK without the apps. *)
FilesOK ==
    /\ names \in [Names -> Nodes \cup {NoNode}]
    /\ disk \in [Nodes -> Contents \cup First \cup {Missing, Partial}]
    /\ profile \in Profiles
    /\ now \in 1 .. LastMilli
    /\ \A n, m \in Names : names[n] = names[m] /\ names[n] # NoNode => n = m

LEMMA TypeSplit == FilesOK /\ AppOK => TypeOK
<1> SUFFICES ASSUME FilesOK, AppOK, NEW a \in Apps, Saving(a)
             PROVE  app[a].stamp \in Drafts /\ app[a].content \in Contents
  BY DEF FilesOK, TypeOK, Saving, SavingStages
<1> QED
  BY DEF AppOK, SavingStates

LEMMA TypeParts == TypeOK => FilesOK
BY DEF TypeOK, FilesOK

(* An app changes its state. *)
LEMMA AppUpdate ==
    ASSUME AppOK, NEW a \in Apps, NEW new, app' = [app EXCEPT ![a] = new],
           new.stage \in SavingStages => new \in SavingStates,
           new.stage \in {"looking", "reading"} => new \in LookingStates
    PROVE  /\ AppOK'
           /\ app'[a] = new /\ \A b \in Apps : b # a => app'[b] = app[b]
<1>1. app'[a] = new /\ \A b \in Apps : b # a => app'[b] = app[b]
  BY DEF AppOK
<1>2. app' = [b \in Apps |-> app'[b]]
  BY DEF AppOK
<1> QED
  BY <1>1, <1>2 DEF AppOK, Saving

LEMMA StageUpdate ==
    ASSUME AppOK, NEW a \in Apps, Saving(a), NEW s \in SavingStages, Goto(a, s)
    PROVE  /\ AppOK'
           /\ app'[a] = [stage |-> s, stamp |-> app[a].stamp, node |-> app[a].node, content |-> app[a].content]
           /\ \A b \in Apps : b # a => app'[b] = app[b]
<1> DEFINE new == [stage |-> s, stamp |-> app[a].stamp, node |-> app[a].node, content |-> app[a].content]
<1>1. app[a] \in SavingStates
  BY DEF AppOK
<1>2. [app[a] EXCEPT !.stage = s] = new /\ new \in SavingStates
  BY <1>1 DEF SavingStates
<1>3. app' = [app EXCEPT ![a] = new]
  BY <1>2 DEF Goto
<1>4. new.stage \notin {"looking", "reading"}
  BY DEF SavingStages
<1> HIDE DEF new
<1>5. AppOK' /\ app'[a] = new /\ \A b \in Apps : b # a => app'[b] = app[b]
  BY <1>2, <1>3, <1>4, AppUpdate
<1> QED
  BY <1>5 DEF new

-----------------------------------------------------------------------------
(* A step of a that leaves the drafts of the others alone. *)
LEMMA Frame ==
    ASSUME IInv, NEW a \in Apps, FilesOK', AppOK', profile' = profile,
           \A b \in Apps : b # a => app'[b] = app[b],
           \A b \in Apps : b # a /\ Saving(b) =>
                Read(app[b].stamp)' = Read(app[b].stamp) /\ names'[app[b].stamp] = names[app[b].stamp],
           DraftInv(a)',
           Saving(a)' => \A b \in Apps : b # a /\ Saving(b) => app[b].stamp # app'[a].stamp,
           Recoverable'
    PROVE  IInv'
<1>1. ASSUME NEW b \in Apps, b # a PROVE DraftInv(b)'
  <2>1. app'[b] = app[b] /\ DraftInv(b)
    BY <1>1 DEF IInv
  <2>2. CASE Saving(b)
    <3>1. Read(app[b].stamp)' = Read(app[b].stamp) /\ names'[app[b].stamp] = names[app[b].stamp]
      BY <1>1, <2>2
    <3> QED
      BY <2>1, <2>2, <3>1 DEF DraftInv, Saving, At, Ok, Read
  <2>3. CASE ~Saving(b)
    BY <2>1, <2>3 DEF DraftInv, Saving
  <2> QED
    BY <2>2, <2>3
<1>2. OwnInv'
  BY DEF IInv, OwnInv, Saving
<1>3. TypeOK'
  BY TypeSplit, PTL
<1> QED
  BY <1>1, <1>2, <1>3 DEF IInv

(* A step that touches no file. *)
LEMMA QuietStep ==
    ASSUME IInv, NEW a \in Apps, AppOK', UNCHANGED <<names, disk, profile, now>>,
           \A b \in Apps : b # a => app'[b] = app[b],
           \/ ~Saving(a)'
           \/ Saving(a) /\ app'[a].stamp = app[a].stamp /\ DraftInv(a)'
    PROVE  IInv' /\ Installs
<1>1. FilesOK'
  BY TypeParts DEF IInv, FilesOK
<1>2. DraftInv(a)'
  BY DEF DraftInv
<1>3. Saving(a)' => \A b \in Apps : b # a /\ Saving(b) => app[b].stamp # app'[a].stamp
  BY DEF IInv, OwnInv
<1>4. Installs /\ Recoverable'
  BY DEF IInv, Installs, Recoverable, LostIsRecoverable, Read
<1>5. \A b \in Apps : b # a => Read(app[b].stamp)' = Read(app[b].stamp)
  BY DEF Read
<1> QED
  BY <1>1, <1>2, <1>3, <1>4, <1>5, Frame

(* It ends what it was doing, or looks at the file. *)
LEMMA LeavesSaving ==
    ASSUME IInv, NEW a \in Apps, NEW new, app' = [app EXCEPT ![a] = new], UNCHANGED <<names, disk, profile, now>>,
           new.stage \notin SavingStages, new.stage \in {"looking", "reading"} => new \in LookingStates
    PROVE  IInv' /\ Installs
<1>1. AppOK' /\ app'[a] = new /\ \A b \in Apps : b # a => app'[b] = app[b]
  BY AppUpdate DEF IInv
<1>2. ~Saving(a)'
  BY <1>1 DEF Saving
<1> QED
  BY <1>1, <1>2, QuietStep

LEMMA IdleStage == \A result : Idle(result).stage = "idle" /\ "idle" \notin SavingStages \cup {"looking", "reading"}
BY DEF Idle, SavingStages

LEMMA ReturnUpdate ==
    ASSUME AppOK, NEW a \in Apps, NEW result, Return(a, result)
    PROVE  AppOK' /\ ~Saving(a)' /\ \A b \in Apps : b # a => app'[b] = app[b]
<1> DEFINE new == Idle(result)
<1>1. app' = [app EXCEPT ![a] = new] /\ new.stage \notin SavingStages /\ new.stage \notin {"looking", "reading"}
  BY IdleStage DEF Return
<1> HIDE DEF new
<1>2. AppOK' /\ app'[a] = new /\ \A b \in Apps : b # a => app'[b] = app[b]
  BY <1>1, AppUpdate
<1> QED
  BY <1>1, <1>2 DEF Saving

LEMMA ReturnStep ==
    ASSUME IInv, NEW a \in Apps, NEW result, Return(a, result), UNCHANGED <<names, disk, profile, now>>
    PROVE  IInv' /\ Installs
<1> DEFINE new == Idle(result)
<1>1. app' = [app EXCEPT ![a] = new] /\ new.stage \notin SavingStages /\ new.stage \notin {"looking", "reading"}
  BY IdleStage DEF Return
<1> HIDE DEF new
<1> QED
  BY <1>1, LeavesSaving

-----------------------------------------------------------------------------
(* The steps of a save. *)
LEMMA BeginSaveStep == ASSUME Alone, IInv, NEW a \in Apps, BeginSave(a) PROVE IInv' /\ Installs
<1>0. FilesOK /\ AppOK /\ now \in Drafts /\ now \in Names /\ names[now] = NoNode
  BY TypeParts, Names0 DEF IInv, FilesOK, BeginSave, Alone, Drafts
<1>1. PICK c \in Contents, i \in Free :
          /\ names' = [names EXCEPT ![now] = i]
          /\ disk' = [disk EXCEPT ![i] = Partial]
          /\ app' = [app EXCEPT ![a] = [stage |-> "writing", stamp |-> now, node |-> i, content |-> c]]
          /\ UNCHANGED <<profile, now>>
  <2> DEFINE chosen == CHOOSE i \in Free : TRUE
  <2>1. chosen \in Free
    BY DEF BeginSave, OpenDraft
  <2>2. (IF names[now] = NoNode THEN {chosen} ELSE {names[now]}) = {chosen}
    BY <1>0
  <2>3. \E c \in Contents, i \in (IF names[now] = NoNode THEN {chosen} ELSE {names[now]}) :
          /\ names' = [names EXCEPT ![now] = i]
          /\ disk' = [disk EXCEPT ![i] = Partial]
          /\ app' = [app EXCEPT ![a] = [stage |-> "writing", stamp |-> now, node |-> i, content |-> c]]
    BY DEF BeginSave, OpenDraft
  <2>4. UNCHANGED <<profile, now>>
    BY DEF BeginSave, OpenDraft
  <2> HIDE DEF chosen
  <2> QED
    BY <2>1, <2>2, <2>3, <2>4
<1>2. i \in Nodes /\ i # NoNode /\ \A n \in Names : names[n] # i
  BY Names0 DEF Free
<1>3. /\ names' \in [Names -> Nodes \cup {NoNode}] /\ names'[now] = i
      /\ \A n \in Names : n # now => names'[n] = names[n]
  BY <1>0, <1>1, <1>2 DEF FilesOK
<1>4. /\ disk' \in [Nodes -> Contents \cup First \cup {Missing, Partial}] /\ disk'[i] = Partial
      /\ \A j \in Nodes : j # i => disk'[j] = disk[j]
  BY <1>0, <1>1, <1>2 DEF FilesOK
<1>5. FilesOK'
  BY <1>0, <1>1, <1>2, <1>3, <1>4 DEF FilesOK
<1> DEFINE new == [stage |-> "writing", stamp |-> now, node |-> i, content |-> c]
<1>6. new \in SavingStates /\ new.stage \notin {"looking", "reading"}
  BY <1>0, <1>2 DEF SavingStates, SavingStages
<1>7. AppOK' /\ app'[a] = new /\ \A b \in Apps : b # a => app'[b] = app[b]
  <2> HIDE DEF new
  <2>1. app' = [app EXCEPT ![a] = new]
    BY <1>1 DEF new
  <2> QED
    BY <1>0, <1>6, <2>1, AppUpdate
<1>8. ASSUME NEW n \in Names, names[n] # NoNode PROVE names'[n] = names[n] /\ Read(n)' = Read(n)
  BY <1>0, <1>2, <1>3, <1>4, <1>8 DEF Read, FilesOK
<1>9. ASSUME NEW b \in Apps, b # a, Saving(b)
      PROVE  /\ Read(app[b].stamp)' = Read(app[b].stamp) /\ names'[app[b].stamp] = names[app[b].stamp]
             /\ app[b].stamp # now
  <2>1. app[b].stamp \in Names /\ names[app[b].stamp] # NoNode /\ app'[b] = app[b]
    BY <1>7, <1>9, Names0 DEF IInv, AppOK, SavingStates, DraftInv
  <2>2. names'[app[b].stamp] = names[app[b].stamp] /\ Read(app[b].stamp)' = Read(app[b].stamp)
    BY <1>8, <2>1 DEF Read
  <2> QED
    BY <1>0, <2>1, <2>2
<1>10. DraftInv(a)'
  BY <1>2, <1>3, <1>4, <1>7 DEF DraftInv, At, Read
<1>11. Installs
  <2>1. names'[Config] = names[Config]
    BY <1>0, <1>3, Names0
  <2> QED
    BY <1>1, <1>8, <2>1, Names0 DEF Installs
<1>12. Recoverable'
  <2>1. names'[Config] = names[Config]
    BY <1>0, <1>3, Names0
  <2>2. ASSUME NEW d \in Drafts, names[d] # NoNode, Load(Read(d), profile).ok
        PROVE  names'[d] # NoNode /\ (Load(Read(d), profile).ok)'
    BY <1>1, <1>8, <2>2, Names0
  <2> QED
    BY <2>1, <2>2 DEF IInv, Recoverable, LostIsRecoverable
<1> QED
  BY <1>1, <1>5, <1>7, <1>9, <1>10, <1>11, <1>12, Frame

LEMMA WriteDraftStep == ASSUME IInv, NEW a \in Apps, WriteDraft(a) PROVE IInv' /\ Installs
<1>1. CASE Return(a, "write failed") /\ UNCHANGED disk
  BY <1>1, ReturnStep DEF WriteDraft
<1>2. CASE disk' = [disk EXCEPT ![app[a].node] = app[a].content] /\ Goto(a, "validating")
  <2>0. FilesOK /\ AppOK /\ At(a, "writing") /\ Saving(a) /\ DraftInv(a) /\ app[a] \in SavingStates
    BY TypeParts DEF IInv, WriteDraft, At, Saving, SavingStages, AppOK
  <2>a. UNCHANGED <<names, profile, now>>
    BY DEF WriteDraft
  <2> DEFINE s == app[a].stamp
             i == app[a].node
  <2>1. s \in Names /\ s \in Drafts /\ i \in Nodes /\ names[s] = i /\ i # NoNode /\ Read(s) = Partial
        /\ app[a].content \in Contents
    BY <2>0, Names0 DEF SavingStates, DraftInv
  <2>2. /\ disk' \in [Nodes -> Contents \cup First \cup {Missing, Partial}] /\ disk'[i] = app[a].content
        /\ \A j \in Nodes : j # i => disk'[j] = disk[j]
    BY <1>2, <2>0, <2>1 DEF FilesOK
  <2>3. FilesOK'
    BY <2>0, <2>a, <2>2 DEF FilesOK
  <2>4. /\ AppOK' /\ app'[a] = [stage |-> "validating", stamp |-> s, node |-> i, content |-> app[a].content]
        /\ \A b \in Apps : b # a => app'[b] = app[b]
    BY <1>2, <2>0, StageUpdate DEF SavingStages
  <2>5. ASSUME NEW n \in Names, n # s PROVE Read(n)' = Read(n)
    <3>1. names'[n] = names[n] /\ names[n] \in Nodes \cup {NoNode} /\ names[n] # i
      BY <2>0, <2>a, <2>1, <2>5 DEF FilesOK
    <3>2. names[n] # NoNode => disk'[names[n]] = disk[names[n]]
      BY <2>2, <3>1
    <3> QED
      BY <3>1, <3>2 DEF Read
  <2>6. ASSUME NEW b \in Apps, b # a, Saving(b)
        PROVE  Read(app[b].stamp)' = Read(app[b].stamp) /\ app[b].stamp # s
    <3>1. app[b].stamp \in Names /\ app[b].stamp # s /\ app'[b] = app[b]
      BY <2>0, <2>4, <2>6, Names0 DEF IInv, AppOK, SavingStates, OwnInv
    <3> QED
      BY <2>5, <3>1 DEF Read
  <2>7. DraftInv(a)'
    <3>1. At(a, "validating")' /\ app'[a].stamp = s /\ app'[a].content = app[a].content
      BY <2>4 DEF At
    <3>2. names'[s] = i /\ disk'[i] = app[a].content
      BY <2>a, <2>1, <2>2
    <3> HIDE DEF s, i
    <3> QED
      BY <2>1, <3>1, <3>2 DEF DraftInv, At, Read
  <2>8. Installs
    BY <2>a, <2>1, <2>5, Names0 DEF Installs
  <2>9. Recoverable'
    <3>1. ASSUME NEW d \in Drafts, names[d] # NoNode, Load(Read(d), profile).ok
          PROVE  names'[d] # NoNode /\ (Load(Read(d), profile).ok)'
      <4>1. d # s
        BY <2>1, <3>1, PartialIsInvalid DEF Ok
      <4> QED
        BY <2>a, <2>5, <3>1, <4>1, Names0
    <3> QED
      BY <2>a, <3>1 DEF IInv, Recoverable, LostIsRecoverable
  <2> QED
    <3>1. app'[a].stamp = s
      BY <2>4
    <3> HIDE DEF s
    <3> QED
      BY <2>a, <2>3, <2>4, <2>6, <2>7, <2>8, <2>9, <3>1, Frame
<1> QED
  BY <1>1, <1>2 DEF WriteDraft

(* a lets go of a name that nobody else's save uses: its own draft, or the *)
(* configuration.                                                          *)
LEMMA UnlinkFiles ==
    ASSUME FilesOK, NEW n \in Names, names' = Unlinked(n), UNCHANGED <<disk, profile, now>>
    PROVE  /\ FilesOK'
           /\ names'[n] = NoNode
           /\ \A m \in Names : m # n => names'[m] = names[m] /\ Read(m)' = Read(m)
<1>1. names' \in [Names -> Nodes \cup {NoNode}] /\ names'[n] = NoNode /\ \A m \in Names : m # n => names'[m] = names[m]
  BY DEF FilesOK, Unlinked
<1> QED
  BY <1>1 DEF FilesOK, Read

LEMMA ValidateDraftStep == ASSUME IInv, NEW a \in Apps, ValidateDraft(a) PROVE IInv' /\ Installs
<1>0. FilesOK /\ AppOK /\ At(a, "validating") /\ Saving(a) /\ DraftInv(a) /\ app[a] \in SavingStates
  BY TypeParts DEF IInv, ValidateDraft, At, Saving, SavingStates, SavingStages, AppOK
<1>a. UNCHANGED <<disk, profile, now>>
  BY DEF ValidateDraft
<1> DEFINE s == app[a].stamp
<1>1. s \in Names /\ s \in Drafts /\ s # Config /\ Read(s) = app[a].content /\ names[s] # NoNode
  BY <1>0, Names0 DEF SavingStates, DraftInv, At
<1>2. CASE Load(Read(s), profile).ok
  <2>1. Goto(a, "checked") /\ UNCHANGED names
    BY <1>2 DEF ValidateDraft
  <2>2. /\ AppOK' /\ app'[a] = [stage |-> "checked", stamp |-> s, node |-> app[a].node, content |-> app[a].content]
        /\ \A b \in Apps : b # a => app'[b] = app[b]
    BY <1>0, <2>1, StageUpdate DEF SavingStages
  <2>3. app'[a].stamp = s /\ app'[a].content = app[a].content /\ app'[a].stage = "checked"
    BY <2>2
  <2>4. Ok(app[a].content)
    BY <1>1, <1>2 DEF Ok
  <2>5. DraftInv(a)'
    <3> HIDE DEF s
    <3> QED
      BY <1>a, <1>1, <2>1, <2>3, <2>4 DEF DraftInv, At, Read, Ok
  <2> QED
    BY <1>a, <1>0, <2>1, <2>2, <2>3, <2>5, QuietStep
<1>3. CASE ~Load(Read(s), profile).ok
  <2>1. Return(a, "invalid") /\ names' = Unlinked(s)
    BY <1>3 DEF ValidateDraft
  <2> HIDE DEF s
  <2>2. FilesOK' /\ names'[s] = NoNode /\ \A m \in Names : m # s => names'[m] = names[m] /\ Read(m)' = Read(m)
    BY <1>0, <1>a, <1>1, <2>1, UnlinkFiles
  <2>3. AppOK' /\ ~Saving(a)' /\ \A b \in Apps : b # a => app'[b] = app[b]
    BY <1>0, <2>1, ReturnUpdate
  <2>4. ASSUME NEW b \in Apps, b # a, Saving(b)
        PROVE  names'[app[b].stamp] = names[app[b].stamp] /\ Read(app[b].stamp)' = Read(app[b].stamp)
    <3>1. app[b].stamp \in Names /\ app[b].stamp # s /\ app'[b] = app[b]
      BY <1>0, <2>3, <2>4, Names0 DEF IInv, AppOK, SavingStates, OwnInv, s
    <3> QED
      BY <2>2, <3>1 DEF Read
  <2>5. Installs
    BY <1>a, <1>1, <2>2, Names0 DEF Installs
  <2>6. Recoverable'
    <3>1. \A d \in Drafts : Load(Read(d), profile).ok => d # s
      BY <1>3
    <3> QED
      BY <1>a, <1>1, <2>2, <3>1, Names0 DEF IInv, Recoverable, LostIsRecoverable
  <2> QED
    BY <1>a, <2>2, <2>3, <2>4, <2>5, <2>6, Frame DEF DraftInv
<1> QED
  BY <1>2, <1>3

LEMMA CheckExistsStep == ASSUME IInv, NEW a \in Apps, CheckExists(a) PROVE IInv' /\ Installs
<1>0. AppOK /\ At(a, "checked") /\ Saving(a) /\ DraftInv(a)
  BY DEF IInv, CheckExists, At, Saving, SavingStages
<1>1. PICK s \in {"renaming", "removing"} : Goto(a, s)
  BY DEF CheckExists
<1>2. /\ AppOK' /\ app'[a] = [stage |-> s, stamp |-> app[a].stamp, node |-> app[a].node, content |-> app[a].content]
      /\ \A b \in Apps : b # a => app'[b] = app[b]
  BY <1>0, <1>1, StageUpdate DEF SavingStages
<1>3. app'[a].stamp = app[a].stamp /\ app'[a].content = app[a].content /\ app'[a].stage = s
  BY <1>2
<1>4. DraftInv(a)'
  BY <1>0, <1>3 DEF DraftInv, At, Read, Ok, CheckExists
<1> QED
  BY <1>0, <1>2, <1>3, <1>4, QuietStep DEF CheckExists

LEMMA RemoveOldStep == ASSUME IInv, NEW a \in Apps, RemoveOld(a) PROVE IInv' /\ Installs
<1>1. CASE Return(a, "remove failed") /\ UNCHANGED names
  BY <1>1, ReturnStep DEF RemoveOld
<1>2. CASE names' = Unlinked(Config) /\ Goto(a, "renaming")
  <2>0. FilesOK /\ AppOK /\ At(a, "removing") /\ Saving(a) /\ DraftInv(a) /\ app[a] \in SavingStates
    BY TypeParts DEF IInv, RemoveOld, At, Saving, SavingStates, SavingStages, AppOK
  <2>a. UNCHANGED <<disk, profile, now>>
    BY DEF RemoveOld
  <2>1. FilesOK' /\ names'[Config] = NoNode /\ \A m \in Names : m # Config => names'[m] = names[m] /\ Read(m)' = Read(m)
    BY <1>2, <2>0, <2>a, UnlinkFiles, Names0
  <2>2. /\ AppOK' /\ app'[a] = [stage |-> "renaming", stamp |-> app[a].stamp, node |-> app[a].node, content |-> app[a].content]
        /\ \A b \in Apps : b # a => app'[b] = app[b]
    BY <1>2, <2>0, StageUpdate DEF SavingStages
  <2>3. app'[a].stamp = app[a].stamp /\ app'[a].content = app[a].content /\ app'[a].stage = "renaming"
    BY <2>2
  <2>4. /\ app[a].stamp \in Names /\ app[a].stamp \in Drafts /\ app[a].stamp # Config
        /\ names[app[a].stamp] # NoNode /\ Read(app[a].stamp) = app[a].content /\ Ok(app[a].content)
    BY <2>0, Names0 DEF SavingStates, DraftInv, At
  <2>5. DraftInv(a)'
    BY <2>a, <2>1, <2>3, <2>4 DEF DraftInv, At, Ok, Read
  <2>6. ASSUME NEW b \in Apps, b # a, Saving(b)
        PROVE  names'[app[b].stamp] = names[app[b].stamp] /\ Read(app[b].stamp)' = Read(app[b].stamp)
    <3>1. app[b].stamp \in Names /\ app[b].stamp # Config /\ app'[b] = app[b]
      BY <2>0, <2>2, <2>6, Names0 DEF AppOK, SavingStates
    <3> QED
      BY <2>1, <3>1 DEF Read
  <2>7. \A b \in Apps : b # a /\ Saving(b) => app[b].stamp # app'[a].stamp
    BY <2>0, <2>3 DEF IInv, OwnInv
  <2>8. Installs
    BY <2>1 DEF Installs
  <2>9. Recoverable'
    BY <2>a, <2>1, <2>4 DEF Recoverable, LostIsRecoverable, Ok
  <2> QED
    BY <2>a, <2>1, <2>2, <2>5, <2>6, <2>7, <2>8, <2>9, Frame
<1> QED
  BY <1>1, <1>2 DEF RemoveOld

LEMMA RenameDraftStep == ASSUME IInv, NEW a \in Apps, RenameDraft(a) PROVE IInv' /\ Installs
<1>1. CASE Return(a, "rename failed") /\ UNCHANGED names
  BY <1>1, ReturnStep DEF RenameDraft
<1>2. CASE Show(a) /\ names' = Renamed(a)
  <2>0. FilesOK /\ AppOK /\ At(a, "renaming") /\ Saving(a) /\ DraftInv(a) /\ app[a] \in SavingStates
    BY TypeParts DEF IInv, RenameDraft, At, Saving, SavingStates, SavingStages, AppOK
  <2>a. UNCHANGED <<disk, profile, now>>
    BY DEF RenameDraft
  <2> DEFINE s == app[a].stamp
             new == [stage |-> "looking", saved |-> app[a].content]
  <2>1. /\ s \in Names /\ s \in Drafts /\ s # Config
        /\ names[s] # NoNode /\ Read(s) = app[a].content /\ Ok(app[a].content)
    BY <2>0, Names0 DEF SavingStates, DraftInv, At
  <2>2. new \in LookingStates /\ new.stage \notin SavingStages /\ app' = [app EXCEPT ![a] = new]
    BY <1>2, <2>0 DEF SavingStates, SavingStages, LookingStates, Show
  <2>3. AppOK' /\ ~Saving(a)' /\ \A b \in Apps : b # a => app'[b] = app[b]
    <3> HIDE DEF new
    <3> QED
      BY <2>0, <2>2, AppUpdate DEF Saving
  <2> HIDE DEF s
  <2>4. /\ names' \in [Names -> Nodes \cup {NoNode}] /\ names'[Config] = names[s] /\ names'[s] = NoNode
        /\ \A m \in Names : m # s /\ m # Config => names'[m] = names[m]
    BY <1>2, <2>0, <2>1, Names0 DEF FilesOK, Renamed, s
  <2>5. FilesOK'
    BY <2>0, <2>a, <2>1, <2>4, Names0 DEF FilesOK
  <2>6. Read(Config)' = app[a].content
    BY <2>a, <2>1, <2>4 DEF Read
  <2>7. ASSUME NEW b \in Apps, b # a, Saving(b)
        PROVE  names'[app[b].stamp] = names[app[b].stamp] /\ Read(app[b].stamp)' = Read(app[b].stamp)
    <3>1. app[b].stamp \in Names /\ app[b].stamp # s /\ app[b].stamp # Config /\ app'[b] = app[b]
      BY <2>0, <2>3, <2>7, Names0 DEF IInv, AppOK, SavingStates, OwnInv, s
    <3>2. names'[app[b].stamp] = names[app[b].stamp]
      BY <2>4, <3>1
    <3> QED
      BY <2>a, <3>1, <3>2 DEF Read
  <2>8. Installs /\ Recoverable'
    BY <2>a, <2>1, <2>4, <2>6 DEF Installs, Recoverable, LostIsRecoverable, Ok
  <2> QED
    BY <2>a, <2>3, <2>5, <2>7, <2>8, Frame DEF DraftInv
<1> QED
  BY <1>1, <1>2 DEF RenameDraft

-----------------------------------------------------------------------------
(* The steps that only read. *)
LEMMA LookStep == ASSUME IInv, NEW a \in Apps, Look(a) PROVE IInv' /\ Installs
<1>1. CASE Return(a, "example")
  BY <1>1, ReturnStep DEF Look
<1>2. CASE Goto(a, "reading")
  <2> DEFINE new == [stage |-> "reading", saved |-> app[a].saved]
  <2>1. app[a] \in LookingStates
    BY DEF IInv, AppOK, Look, At
  <2>2. [app[a] EXCEPT !.stage = "reading"] = new /\ new \in LookingStates /\ new.stage \notin SavingStages
    BY <2>1 DEF LookingStates, SavingStages
  <2>3. app' = [app EXCEPT ![a] = new]
    BY <1>2, <2>2 DEF Goto
  <2> HIDE DEF new
  <2> QED
    BY <2>2, <2>3, LeavesSaving DEF Look
<1> QED
  BY <1>1, <1>2 DEF Look

LEMMA ReadContentStep == ASSUME IInv, NEW a \in Apps, ReadContent(a) PROVE IInv' /\ Installs
<1>1. CASE Return(a, "read failed")
  BY <1>1, ReturnStep DEF ReadContent
<1>2. CASE names[Config] # NoNode
  <2> DEFINE new == [stage |-> "summarising", saved |-> app[a].saved, content |-> Read(Config)]
  <2>1. app' = [app EXCEPT ![a] = new] /\ new.stage \notin SavingStages \cup {"looking", "reading"}
    BY <1>2 DEF ReadContent, SavingStages
  <2> HIDE DEF new
  <2> QED
    BY <2>1, LeavesSaving DEF ReadContent
<1> QED
  BY <1>1, <1>2 DEF ReadContent

LEMMA SummariseStep == ASSUME IInv, NEW a \in Apps, Summarise(a) PROVE IInv' /\ Installs
<1> DEFINE new == [stage |-> "idle", result |-> "shown", saved |-> app[a].saved,
                   content |-> app[a].content, summary |-> Load(Read(Config), profile)]
<1>1. app' = [app EXCEPT ![a] = new] /\ new.stage \notin SavingStages \cup {"looking", "reading"}
  BY DEF Summarise, SavingStages
<1> HIDE DEF new
<1> QED
  BY <1>1, LeavesSaving DEF Summarise

LEMMA RefreshStep == ASSUME IInv, NEW a \in Apps, Refresh(a) PROVE IInv' /\ Installs
<1> DEFINE new == [stage |-> "looking", saved |-> Missing]
<1>1. app' = [app EXCEPT ![a] = new] /\ new \in LookingStates /\ new.stage \notin SavingStages
  BY DEF Refresh, LookingStates, SavingStages
<1> HIDE DEF new
<1> QED
  BY <1>1, LeavesSaving DEF Refresh

(* The clock, and steps of nothing. *)
LEMMA OtherStep ==
    ASSUME IInv, UNCHANGED <<names, disk, profile, app>>, now' \in 1 .. LastMilli
    PROVE  IInv' /\ Installs
<1>1. \A n : Read(n)' = Read(n)
  BY DEF Read
<1>2. TypeOK'
  BY DEF IInv, TypeOK
<1>3. AppOK' /\ OwnInv'
  BY DEF IInv, AppOK, OwnInv, Saving
<1>4. \A a \in Apps : DraftInv(a)'
  BY <1>1 DEF IInv, DraftInv, Saving, At, Ok
<1>5. Installs /\ Recoverable'
  BY <1>1 DEF IInv, Installs, Recoverable, LostIsRecoverable
<1> QED
  BY <1>2, <1>3, <1>4, <1>5 DEF IInv

-----------------------------------------------------------------------------
LEMMA InitInv == Alone /\ Init => IInv
<1> SUFFICES ASSUME Init PROVE IInv
  OBVIOUS
<1>1. PICK file \in First :
        /\ names = [n \in Names |-> IF n = Config /\ file # Missing THEN 1 ELSE NoNode]
        /\ disk = [i \in Nodes |-> IF i = 1 THEN file ELSE Missing]
  BY DEF Init
<1>2. 1 \in Nodes /\ 1 # NoNode
  <2>1. Cardinality(Apps) \in Nat
    BY AppsAssumption, FS_CardinalityType
  <2> QED
    BY <2>1, LastMilliAssumption DEF Nodes, NoNode
<1>3. /\ \A n \in Names : n # Config => names[n] = NoNode
      /\ names[Config] = IF file = Missing THEN NoNode ELSE 1
  BY <1>1, Names0
<1>4. \A a \in Apps : app[a].stage \notin SavingStages \cup {"looking", "reading"}
  BY IdleStage DEF Init
<1>5. FilesOK
  BY <1>1, <1>2, <1>3, LastMilliAssumption DEF FilesOK, Init
<1>6. AppOK
  BY <1>4 DEF AppOK, Saving, Init
<1>7. Recoverable
  BY <1>2, <1>3 DEF Recoverable, LostIsRecoverable
<1> QED
  BY <1>4, <1>5, <1>6, <1>7, TypeSplit DEF IInv, DraftInv, OwnInv, Saving

LEMMA StepInv == Alone /\ IInv /\ [Next]_vars => IInv' /\ Installs
<1> SUFFICES ASSUME Alone, IInv, [Next]_vars PROVE IInv' /\ Installs
  OBVIOUS
<1>1. CASE Tick
  BY <1>1, OtherStep, LastMilliAssumption DEF Tick, IInv, TypeOK
<1>2. CASE UNCHANGED vars
  BY <1>2, OtherStep DEF vars, IInv, TypeOK
<1>3. ASSUME NEW a \in Apps, Step(a) PROVE IInv' /\ Installs
  <2>1. CASE Crash(a)
    BY <2>1, ReturnStep DEF Crash
  <2> QED
    BY <1>3, <2>1, BeginSaveStep, WriteDraftStep, ValidateDraftStep, CheckExistsStep, RemoveOldStep,
       RenameDraftStep, RefreshStep, LookStep, ReadContentStep, SummariseStep DEF Step
<1> QED
  BY <1>1, <1>2, <1>3 DEF Next

LEMMA SpecInv == ASSUME Alone PROVE Spec => []IInv
BY InitInv, StepInv, PTL DEF Spec

(* No step but RenameDraft(a) takes a from "renaming" to "looking". *)
LEMMA OnlyRenames ==
    ASSUME AppOK, [Next]_vars, NEW a \in Apps, At(a, "renaming"), app'[a].stage = "looking"
    PROVE  RenameDraft(a)
<1>1. app'[a] # app[a]
  BY DEF At
<1>2. PICK b \in Apps : Step(b)
  BY <1>1 DEF Next, Tick, vars
<1>3. \E new : app' = [app EXCEPT ![b] = new]
  BY <1>2 DEF Step, BeginSave, OpenDraft, WriteDraft, ValidateDraft, CheckExists, RemoveOld, RenameDraft,
     Refresh, Look, ReadContent, Summarise, Crash, Goto, Return, Show
<1>4. b = a
  BY <1>1, <1>3 DEF AppOK
<1>5. ~Crash(a)
  BY IdleStage DEF Crash, Return, AppOK
<1> QED
  BY <1>2, <1>4, <1>5
  DEF Step, At, BeginSave, OpenDraft, WriteDraft, ValidateDraft, CheckExists, RemoveOld,
     Refresh, Look, ReadContent, Summarise

-----------------------------------------------------------------------------
(* The files and the apps are what the model says they are: no two names   *)
(* share a file, and an app in a save has a draft and a text.              *)
THEOREM TypeOKHolds == ASSUME Alone PROVE Spec => []TypeOK
<1>1. IInv => TypeOK
  BY DEF IInv
<1> QED
  BY <1>1, SpecInv, PTL

(* Whatever comes to be in the place of the configuration has passed       *)
(* Config::load, however many apps save, fail and die.                     *)
THEOREM InstalledIsValidHolds == ASSUME Alone PROVE Spec => InstalledIsValid
<1>1. IInv /\ [Next]_vars => [Installs]_vars
  BY StepInv
<1> QED
  BY <1>1, SpecInv, PTL DEF Spec, InstalledIsValid

(* Where remove_file has left no configuration there is a valid draft.     *)
THEOREM LostIsRecoverableHolds == ASSUME Alone, Missing \notin First PROVE Spec => []LostIsRecoverable
<1>1. IInv => LostIsRecoverable
  BY DEF IInv, Recoverable
<1> QED
  BY <1>1, SpecInv, PTL

(* A save that answers Ok has put in place what was typed in that app.     *)
THEOREM SavePersistsHolds == ASSUME Alone PROVE Spec => SavePersists
<1>1. ASSUME IInv, [Next]_vars, NEW a \in Apps, At(a, "renaming"), app'[a].stage = "looking"
      PROVE  names'[Config] # NoNode /\ disk'[names'[Config]] = app[a].content
  <2>1. FilesOK /\ AppOK /\ Saving(a) /\ DraftInv(a) /\ app[a] \in SavingStates
    BY <1>1, TypeParts DEF IInv, At, Saving, SavingStages, AppOK
  <2>2. RenameDraft(a)
    BY <1>1, <2>1, OnlyRenames
  <2>3. names' = Renamed(a) /\ UNCHANGED disk
    BY <1>1, <2>1, <2>2, IdleStage DEF RenameDraft, Return, AppOK
  <2>4. app[a].stamp \in Names /\ app[a].stamp # Config /\ names[app[a].stamp] # NoNode /\ Read(app[a].stamp) = app[a].content
    BY <1>1, <2>1, Names0 DEF SavingStates, DraftInv, At
  <2>5. names'[Config] = names[app[a].stamp]
    BY <2>1, <2>3, <2>4, Names0 DEF FilesOK, Renamed
  <2> QED
    BY <2>3, <2>4, <2>5 DEF Read
<1>2. IInv /\ [Next]_vars => [\A a \in Apps : At(a, "renaming") /\ app'[a].stage = "looking"
            => names'[Config] # NoNode /\ disk'[names'[Config]] = app[a].content]_vars
  BY <1>1
<1> QED
  BY <1>2, SpecInv, PTL DEF Spec, SavePersists

-----------------------------------------------------------------------------
(* GatewaysAgree, which does not need Alone. The texts are files and        *)
(* profiles whose fields have the types of Config and CanonicalProfile, or *)
(* nothing that parses: what serde makes of any text.                      *)
FileForms ==
    {Missing, Partial} \cup
    [parses : {TRUE}, path : STRING, device : DeviceIds, tokens : Nat, refresh : BOOLEAN]
ProfileForms ==
    {Missing, Partial} \cup
    [parses : {TRUE}, version : STRING, keys : Nat, typed : BOOLEAN, device : DeviceIds]
Formed == Contents \cup First \subseteq FileForms /\ Profiles \subseteq ProfileForms

(* The verdict of Config::load, for a file that parses. *)
LEMMA RustVerdict ==
    ASSUME NEW file \in FileForms, file \notin {Missing, Partial}, NEW p \in ProfileForms
    PROVE  Load(file, p).ok <=>
                /\ file.path # None => ProfileError(file.path, p) = None
                /\ Validate(file, IF file.path = None THEN file.device ELSE p.device) = None
<1>1. file.parses
  BY DEF FileForms
<1> DEFINE bad == IF file.path = None THEN None ELSE ProfileError(file.path, p)
           device == IF file.path = None THEN file.device ELSE p.device
           invalid == Validate(file, device)
           good == [ok |-> TRUE, file |-> file, device |-> device]
<1>2. Load(file, p) = IF bad # None THEN Failed(bad) ELSE IF invalid # None THEN Failed(invalid) ELSE good
  BY <1>1 DEF Load
<1>3. (\A e : ~Failed(e).ok) /\ good.ok
  BY DEF Failed
<1> HIDE DEF invalid, good
<1>4. Load(file, p).ok <=> bad = None /\ invalid = None
  BY <1>2, <1>3
<1> QED
  BY <1>4 DEF invalid

LEMMA SameVerdict ==
    ASSUME NEW file \in FileForms, profile \in ProfileForms, Comparable(file)
    PROVE  Load(file, profile).ok <=> TsAccepts(file, profile)
<1>1. CASE file = Missing
  BY <1>1 DEF Load, Failed, TsAccepts
<1>2. CASE file = Partial
  BY <1>2, PartialIsInvalid DEF Ok, TsAccepts, Partial
<1>3. CASE file \notin {Missing, Partial}
  <2>1. /\ file.parses /\ file.path \in STRING /\ file.tokens \in Nat /\ file.refresh \in BOOLEAN
    BY <1>3 DEF FileForms
  <2>2. file.path # ""
    BY <1>3 DEF Comparable
  <2> DEFINE device == IF file.path = None THEN file.device ELSE profile.device
             shared == profile # Missing /\ profile.parses /\ profile.version = "1.0" /\ profile.keys >= 40
  <2>3. file.path # None => (ProfileError(file.path, profile) = None <=> shared)
    <3>1. CASE profile = Missing
      BY <2>2, <3>1 DEF ProfileError, None
    <3>2. CASE profile = Partial
      BY <2>2, <3>2 DEF ProfileError, None, Partial, Missing
    <3>3. CASE profile \notin {Missing, Partial} /\ file.path # None
      <4>1. profile.typed /\ profile.parses /\ profile.keys \in Nat
        BY <1>3, <3>3 DEF Comparable, ProfileForms
      <4> DEFINE reason == CASE profile.version # "1.0" -> "version"
                             [] profile.version = "1.0" /\ profile.keys < 40 -> "keys"
                             [] profile.version = "1.0" /\ profile.keys >= 40 /\ ~profile.typed -> "env"
                             [] OTHER -> None
      <4>2. ProfileError(file.path, profile) = reason
        BY <2>2, <3>3, <4>1 DEF ProfileError
      <4>3. CASE profile.version # "1.0"
        BY <3>3, <4>2, <4>3 DEF None
      <4>4. CASE profile.version = "1.0" /\ profile.keys < 40
        BY <4>1, <4>2, <4>4 DEF None
      <4>5. CASE profile.version = "1.0" /\ profile.keys >= 40
        <5>1. ~(profile.keys < 40)
          BY <4>1, <4>5
        <5>2. reason = None
          BY <4>1, <4>5, <5>1 DEF None
        <5> HIDE DEF reason
        <5> QED
          BY <3>3, <4>1, <4>2, <4>5, <5>2
      <4> HIDE DEF reason
      <4> QED
        BY <4>1, <4>3, <4>4, <4>5
    <3> QED
      BY <3>1, <3>2, <3>3
  <2>4. (file.path # None => shared) => (device \in DeviceAccepted <=> device \in TsDeviceAccepted)
    <3>1. (file.path # None => shared) => device \in Ascii
      <4>1. CASE file.path = None
        BY <1>3, <4>1 DEF Comparable
      <4>2. CASE file.path # None /\ profile \notin {Missing, Partial}
        BY <1>3, <4>2 DEF Comparable
      <4>3. CASE file.path # None /\ profile \in {Missing, Partial}
        <5>1. ~shared
          BY <4>3 DEF Partial
        <5> QED
          BY <4>3, <5>1
      <4> HIDE DEF device, shared
      <4> QED
        BY <4>1, <4>2, <4>3
    <3> QED
      BY <3>1 DEF Ascii, DeviceAccepted, TsDeviceAccepted
  <2> HIDE DEF device
  <2>5. Validate(file, device) = None <=> device \in DeviceAccepted /\ file.tokens > 0 /\ file.refresh
    BY <2>1 DEF Validate, None
  <2>6. Load(file, profile).ok <=> (file.path # None => shared) /\ Validate(file, device) = None
    BY <1>3, <2>3, RustVerdict DEF device
  <2>7. TsAccepts(file, profile) <=>
            (file.path # None => shared) /\ device \in TsDeviceAccepted /\ file.tokens > 0 /\ file.refresh
    BY <1>3, <2>1, <2>2 DEF TsAccepts, device, None
  <2> QED
    BY <2>4, <2>5, <2>6, <2>7
<1> QED
  BY <1>1, <1>2, <1>3

(* The types that hold even when two saves share a draft: each app writes  *)
(* what was typed into it, and names lead to nodes that exist.             *)
WholeFiles ==
    /\ names \in [Names -> Nodes \cup {NoNode}]
    /\ disk \in [Nodes -> Contents \cup First \cup {Missing, Partial}]
    /\ profile \in Profiles
    /\ now \in 1 .. LastMilli
WholeInv == WholeFiles /\ AppOK

LEMMA WholeSound == ASSUME Formed, WholeInv PROVE GatewaysAgree
<1>1. Read(Config) \in FileForms /\ profile \in ProfileForms
  BY Names0 DEF WholeInv, WholeFiles, Formed, Read, FileForms
<1> QED
  BY <1>1, SameVerdict DEF GatewaysAgree

LEMMA WholeStep == WholeInv /\ [Next]_vars => WholeInv'
<1> SUFFICES ASSUME WholeInv, [Next]_vars PROVE WholeInv'
  OBVIOUS
<1> USE DEF WholeInv
<1>1. CASE Tick
  BY <1>1, LastMilliAssumption DEF Tick, WholeFiles, AppOK, Saving
<1>2. CASE UNCHANGED vars
  BY <1>2 DEF vars, WholeFiles, AppOK, Saving
<1>3. ASSUME NEW a \in Apps, Step(a) PROVE WholeInv'
  <2>0. now \in Drafts /\ now \in Names
    BY Names0 DEF WholeFiles, Drafts
  <2>1. CASE BeginSave(a)
    <3>1. PICK c \in Contents, i \in Nodes :
             /\ names' = [names EXCEPT ![now] = i]
             /\ disk' = [disk EXCEPT ![i] = Partial]
             /\ app' = [app EXCEPT ![a] = [stage |-> "writing", stamp |-> now, node |-> i, content |-> c]]
             /\ UNCHANGED <<profile, now>>
      <4> DEFINE chosen == CHOOSE i \in Free : TRUE
      <4>1. chosen \in Nodes
        BY <2>1 DEF BeginSave, OpenDraft, Free
      <4>2. names[now] \in Nodes \cup {NoNode}
        BY <2>0 DEF WholeFiles
      <4> HIDE DEF chosen
      <4>3. (IF names[now] = NoNode THEN {chosen} ELSE {names[now]}) \subseteq Nodes
        BY <4>1, <4>2
      <4>4. \E c \in Contents, i \in (IF names[now] = NoNode THEN {chosen} ELSE {names[now]}) :
             /\ names' = [names EXCEPT ![now] = i]
             /\ disk' = [disk EXCEPT ![i] = Partial]
             /\ app' = [app EXCEPT ![a] = [stage |-> "writing", stamp |-> now, node |-> i, content |-> c]]
        BY <2>1 DEF BeginSave, OpenDraft, chosen
      <4> QED
        BY <2>1, <4>3, <4>4 DEF BeginSave, OpenDraft
    <3> DEFINE new == [stage |-> "writing", stamp |-> now, node |-> i, content |-> c]
    <3>2. new \in SavingStates /\ new.stage \notin {"looking", "reading"}
      BY <2>0 DEF SavingStates, SavingStages
    <3>3. AppOK'
      <4>1. app' = [app EXCEPT ![a] = new]
        BY <3>1
      <4> HIDE DEF new
      <4> QED
        BY <3>2, <4>1, AppUpdate
    <3> QED
      BY <2>0, <3>1, <3>3 DEF WholeFiles
  <2>2. CASE WriteDraft(a)
    <3>1. CASE Return(a, "write failed") /\ UNCHANGED disk
      BY <2>2, <3>1, ReturnUpdate DEF WriteDraft, WholeFiles
    <3>2. CASE disk' = [disk EXCEPT ![app[a].node] = app[a].content] /\ Goto(a, "validating")
      <4>1. Saving(a) /\ app[a].content \in Contents
        BY <2>2 DEF WriteDraft, At, AppOK, Saving, SavingStages, SavingStates
      <4>2. AppOK'
        BY <3>2, <4>1, StageUpdate DEF SavingStages
      <4> QED
        BY <2>2, <3>2, <4>1, <4>2 DEF WriteDraft, WholeFiles
    <3> QED
      BY <2>2, <3>1, <3>2 DEF WriteDraft
  <2>3. CASE ValidateDraft(a)
    <3>1. CASE Goto(a, "checked") /\ UNCHANGED names
      BY <2>3, <3>1, StageUpdate DEF ValidateDraft, At, Saving, SavingStages, WholeFiles
    <3>2. CASE Return(a, "invalid") /\ names' = Unlinked(app[a].stamp)
      BY <2>3, <3>2, ReturnUpdate DEF ValidateDraft, WholeFiles, Unlinked
    <3> QED
      BY <2>3, <3>1, <3>2 DEF ValidateDraft
  <2>4. CASE CheckExists(a)
    BY <2>4, StageUpdate DEF CheckExists, At, Saving, SavingStages, WholeFiles
  <2>5. CASE RemoveOld(a)
    BY <2>5, StageUpdate, ReturnUpdate DEF RemoveOld, At, Saving, SavingStages, WholeFiles, Unlinked
  <2>6. CASE RenameDraft(a)
    <3>1. CASE Return(a, "rename failed") /\ UNCHANGED names
      BY <2>6, <3>1, ReturnUpdate DEF RenameDraft, WholeFiles
    <3>2. CASE Show(a) /\ names' = Renamed(a)
      <4> DEFINE new == [stage |-> "looking", saved |-> app[a].content]
      <4>1. Saving(a) /\ app[a].content \in Contents /\ app[a].stamp \in Names
        BY <2>6, Names0 DEF RenameDraft, At, AppOK, Saving, SavingStages, SavingStates
      <4>2. app' = [app EXCEPT ![a] = new] /\ new \in LookingStates /\ new.stage \notin SavingStages
        BY <3>2, <4>1 DEF Show, LookingStates, SavingStages
      <4>3. AppOK'
        <5> HIDE DEF new
        <5> QED
          BY <4>2, AppUpdate
      <4>4. names' \in [Names -> Nodes \cup {NoNode}]
        BY <3>2, <4>1, Names0 DEF Renamed, WholeFiles
      <4> QED
        BY <2>6, <4>3, <4>4 DEF RenameDraft, WholeFiles
    <3> QED
      BY <2>6, <3>1, <3>2 DEF RenameDraft
  <2>7. CASE Refresh(a)
    <3> DEFINE new == [stage |-> "looking", saved |-> Missing]
    <3>1. app' = [app EXCEPT ![a] = new] /\ new \in LookingStates /\ new.stage \notin SavingStages
      BY <2>7 DEF Refresh, LookingStates, SavingStages
    <3> HIDE DEF new
    <3> QED
      BY <2>7, <3>1, AppUpdate DEF Refresh, WholeFiles
  <2>8. CASE Look(a)
    <3>1. CASE Return(a, "example")
      BY <2>8, <3>1, ReturnUpdate DEF Look, WholeFiles
    <3>2. CASE Goto(a, "reading")
      <4> DEFINE new == [stage |-> "reading", saved |-> app[a].saved]
      <4>1. app[a] \in LookingStates
        BY <2>8 DEF AppOK, Look, At
      <4>2. [app[a] EXCEPT !.stage = "reading"] = new /\ new \in LookingStates /\ new.stage \notin SavingStages
        BY <4>1 DEF LookingStates, SavingStages
      <4>3. app' = [app EXCEPT ![a] = new]
        BY <3>2, <4>2 DEF Goto
      <4> HIDE DEF new
      <4> QED
        BY <2>8, <4>2, <4>3, AppUpdate DEF Look, WholeFiles
    <3> QED
      BY <2>8, <3>1, <3>2 DEF Look
  <2>9. CASE ReadContent(a)
    <3>1. CASE Return(a, "read failed")
      BY <2>9, <3>1, ReturnUpdate DEF ReadContent, WholeFiles
    <3>2. CASE names[Config] # NoNode
      <4> DEFINE new == [stage |-> "summarising", saved |-> app[a].saved, content |-> Read(Config)]
      <4>1. app' = [app EXCEPT ![a] = new] /\ new.stage \notin SavingStages \cup {"looking", "reading"}
        BY <2>9, <3>2 DEF ReadContent, SavingStages
      <4> HIDE DEF new
      <4> QED
        BY <2>9, <4>1, AppUpdate DEF ReadContent, WholeFiles
    <3> QED
      BY <2>9, <3>1, <3>2 DEF ReadContent
  <2>10. CASE Summarise(a)
    <3> DEFINE new == [stage |-> "idle", result |-> "shown", saved |-> app[a].saved,
                       content |-> app[a].content, summary |-> Load(Read(Config), profile)]
    <3>1. app' = [app EXCEPT ![a] = new] /\ new.stage \notin SavingStages \cup {"looking", "reading"}
      BY <2>10 DEF Summarise, SavingStages
    <3> HIDE DEF new
    <3> QED
      BY <2>10, <3>1, AppUpdate DEF Summarise, WholeFiles
  <2>11. CASE Crash(a)
    BY <2>11, ReturnUpdate DEF Crash, WholeFiles
  <2> QED
    BY <1>3, <2>1, <2>2, <2>3, <2>4, <2>5, <2>6, <2>7, <2>8, <2>9, <2>10, <2>11 DEF Step
<1> QED
  BY <1>1, <1>2, <1>3 DEF Next

(* In any state of the files, with saves that share a draft too, the two   *)
(* gateways come to the same verdict about the configuration, unless it is *)
(* of the three kinds that they tell apart.                                *)
THEOREM GatewaysAgreeHolds == ASSUME Formed PROVE Spec => []GatewaysAgree
<1>1. Init => WholeInv
  <2> SUFFICES ASSUME Init PROVE WholeInv
    OBVIOUS
  <2>1. 1 \in Nodes
    <3>1. Cardinality(Apps) \in Nat
      BY AppsAssumption, FS_CardinalityType
    <3> QED
      BY <3>1, LastMilliAssumption DEF Nodes
  <2>2. \A a \in Apps : app[a].stage \notin SavingStages \cup {"looking", "reading"}
    BY IdleStage DEF Init
  <2> QED
    BY <2>1, <2>2, LastMilliAssumption DEF WholeInv, WholeFiles, Init, AppOK, Saving
<1>2. WholeInv => GatewaysAgree
  BY WholeSound
<1> QED
  BY <1>1, <1>2, WholeStep, PTL DEF Spec
=============================================================================
