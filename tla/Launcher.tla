------------------------------ MODULE Launcher ------------------------------
(***************************************************************************)
(* ccg, the launcher of crates/cli: install, uninstall, hijack, release,   *)
(* status and launch, run from several terminals while the user edits the  *)
(* rc files of the shells.                                                 *)
(*                                                                         *)
(* A text is a sequence of lines, ended if the last one ends with a line   *)
(* end.  A line is the user's, the alias of add_alias, or one of the       *)
(* user's that contains ALIAS_TAG, such as an alias commented out.         *)
(***************************************************************************)
EXTENDS Integers, SequencesExt, LineFilter

CONSTANTS
    Terminals,  \* where commands are typed
    Shells,     \* values of ShellType; each has its rc_file
    Written,    \* the lines the user may write
    MaxLines    \* bound of the lines of a file

ASSUME WrittenAssumption == Written \cap {"alias", "mention"} = {}
ASSUME MaxLinesAssumption == MaxLines \in Nat

VARIABLES
    rc,         \* the rc file of each shell
    mine,       \* the lines the user wrote there, as far as they are not tagged
    binary,     \* whether /usr/local/bin/ccg is there
    file, env,  \* config.json and the variables CCG_GATEWAY_URL, CCG_CLIENT_TOKEN
    cmd         \* the command of each terminal, or what it ended with

vars == <<rc, mine, binary, file, env, cmd>>

Missing == [missing |-> TRUE]
RcText(lines, ended) == [lines |-> lines, ended |-> ended]
Empty == RcText(<< >>, TRUE)
Lines(text) == IF text = Missing THEN << >> ELSE text.lines
Tags == {"alias", "mention"}
Tagged(line) == line \in Tags
UserLines(text) == Without(Lines(text), Tags)

(* What `claude` runs in a new terminal. *)
Runs(s) == IF ~Contains(Lines(rc[s]), "alias") THEN "native"
           ELSE IF binary THEN "ccg" ELSE "not found"

(* has_alias.  Mutant: looks at the end only. *)
HasAliasAtEnd(text) == Lines(text) # << >> /\ Tagged(Last(Lines(text)))
HasAlias(text) == \E i \in DOMAIN Lines(text) : Tagged(Lines(text)[i])

(* The new content of add_alias and of remove_alias.                       *)
(* Mutant: the alias goes behind a last line that is not ended.            *)
WithAliasBehind(text) ==
    IF text # Missing /\ ~text.ended THEN RcText(Append(Front(text.lines), "alias"), TRUE)
    ELSE RcText(Append(Lines(text), "alias"), TRUE)
WithAlias(text) == RcText(Append(Lines(text), "alias"), TRUE)
WithoutAlias(text) == RcText(UserLines(text), TRUE)

(* CliConfig::load; file is the set of the fields of config.json.          *)
(* Mutant: each field comes from the file or else from the environment.    *)
Fields == {"url", "token"}
Failed == [failed |-> TRUE]
From(url, token) == [url |-> url, token |-> token]
LoadEachField(f, e) ==
    LET source(x) == IF x \in f \ {"no file"} THEN "file" ELSE "env" IN
    IF Fields \subseteq f \cup e THEN From(source("url"), source("token")) ELSE Failed
LoadConfig(f, e) ==
    CASE f = {"no file"} -> IF e = Fields THEN From("env", "env") ELSE Failed
      [] f = Fields -> From("file", "file")
      [] OTHER -> Failed

Idle(result) == [stage |-> "idle", result |-> result]
Init ==
    /\ rc \in [Shells -> {Missing, Empty} \cup {RcText(<<line>>, TRUE) : line \in Written}
                                         \cup {RcText(<<line>>, FALSE) : line \in Written}]
    /\ mine = [s \in Shells |-> UserLines(rc[s])]
    /\ binary = FALSE
    /\ file \in {{"no file"}} \cup SUBSET Fields
    /\ env \in SUBSET Fields
    /\ cmd = [t \in Terminals |-> Idle("none")]

At(t, stage) == cmd[t].stage = stage
Goto(t, stage, name, s) == cmd' = [cmd EXCEPT ![t] = [stage |-> stage, name |-> name, shell |-> s]]
Return(t, result) == cmd' = [cmd EXCEPT ![t] = Idle(result)]
Rc(t) == rc[cmd[t].shell]

-----------------------------------------------------------------------------
(* install::install.  Writing to /usr/local/bin may be refused. *)
Install(t) ==
    /\ At(t, "idle")
    /\ \/ binary' = TRUE /\ Return(t, "installed")
       \/ UNCHANGED binary /\ Return(t, "failed")
    /\ UNCHANGED <<rc, mine, file, env>>

(* handle_uninstall: the binary, then the alias of the shell it is typed   *)
(* in.  Mutant: the alias is left to the user.                             *)
UninstallBinary(t, s) ==
    /\ At(t, "idle")
    /\ \/ binary' = FALSE /\ Return(t, "uninstalled")
       \/ binary /\ UNCHANGED binary /\ Return(t, "failed")
    /\ UNCHANGED <<rc, mine, file, env>>
Uninstall(t, s) ==
    /\ At(t, "idle")
    /\ \/ binary' = FALSE /\ Goto(t, "removing", "uninstall", s)
       \/ binary /\ UNCHANGED binary /\ Return(t, "failed")
    /\ UNCHANGED <<rc, mine, file, env>>

(* handle_hijack and add_alias: has_alias twice, then the file is read,    *)
(* truncated and written.                                                  *)
Hijack(t, s) ==
    /\ At(t, "idle")
    /\ IF HasAlias(rc[s]) THEN Return(t, "already active") ELSE Goto(t, "adding", "hijack", s)
    /\ UNCHANGED <<rc, mine, binary, file, env>>
AddAlias(t) ==
    /\ At(t, "adding")
    /\ IF HasAlias(Rc(t)) THEN Return(t, "hijacked")
       ELSE Goto(t, "reading", "hijack", cmd[t].shell)
    /\ UNCHANGED <<rc, mine, binary, file, env>>

(* handle_release and remove_alias. *)
Release(t, s) ==
    /\ At(t, "idle")
    /\ IF ~HasAlias(rc[s]) THEN Return(t, "nothing to undo") ELSE Goto(t, "removing", "release", s)
    /\ UNCHANGED <<rc, mine, binary, file, env>>

Ended(t) == [hijack |-> "hijacked", release |-> "released", uninstall |-> "uninstalled"][cmd[t].name]

ReadRc(t) ==
    /\ cmd[t].stage \in {"reading", "removing"}
    /\ IF At(t, "removing") /\ ~HasAlias(Rc(t))
       THEN Return(t, Ended(t))
       ELSE cmd' = [cmd EXCEPT ![t] = [stage |-> "truncating", name |-> @.name, shell |-> @.shell,
                        text |-> IF At(t, "reading") THEN WithAlias(Rc(t)) ELSE WithoutAlias(Rc(t))]]
    /\ UNCHANGED <<rc, mine, binary, file, env>>
Truncate(t) ==
    /\ At(t, "truncating")
    /\ rc' = [rc EXCEPT ![cmd[t].shell] = Empty]
    /\ cmd' = [cmd EXCEPT ![t].stage = "filling"]
    /\ UNCHANGED <<mine, binary, file, env>>
Fill(t) ==
    /\ At(t, "filling")
    /\ rc' = [rc EXCEPT ![cmd[t].shell] = cmd[t].text]
    /\ cmd' = [cmd EXCEPT ![t] = [stage |-> "idle", result |-> Ended(t), shell |-> @.shell]]
    /\ UNCHANGED <<mine, binary, file, env>>

(* handle_status, as far as the alias goes; handle_launch. *)
Status(t, s) ==
    /\ At(t, "idle")
    /\ cmd' = [cmd EXCEPT ![t] = [stage |-> "idle", result |-> "status",
                                   hijack |-> HasAlias(rc[s]), runs |-> Runs(s)]]
    /\ UNCHANGED <<rc, mine, binary, file, env>>
Launch(t) ==
    /\ At(t, "idle")
    /\ cmd' = [cmd EXCEPT ![t] = [stage |-> "idle", result |-> "launch",
                                   config |-> LoadConfig(file, env)]]
    /\ UNCHANGED <<rc, mine, binary, file, env>>

-----------------------------------------------------------------------------
(* The user adds a line, or comments the alias out, with no command running. *)
CommentedOut(lines) == [i \in DOMAIN lines |-> IF lines[i] = "alias" THEN "mention" ELSE lines[i]]
EditRc(s) ==
    /\ \A t \in Terminals : At(t, "idle")
    /\ \/ /\ Len(Lines(rc[s])) < MaxLines
          /\ \E line \in Written, ended \in BOOLEAN :
                /\ rc' = [rc EXCEPT ![s] = RcText(Append(Lines(@), line), ended)]
                /\ mine' = [mine EXCEPT ![s] = Append(@, line)]
       \/ /\ Contains(Lines(rc[s]), "alias")
          /\ rc' = [rc EXCEPT ![s] = RcText(CommentedOut(@.lines), @.ended)]
          /\ UNCHANGED mine
    /\ cmd' = [t \in Terminals |-> Idle("none")]
    /\ UNCHANGED <<binary, file, env>>

Next ==
    \/ \E t \in Terminals :
        \/ Install(t) \/ AddAlias(t) \/ ReadRc(t) \/ Truncate(t) \/ Fill(t) \/ Launch(t)
        \/ \E s \in Shells : Uninstall(t, s) \/ Hijack(t, s) \/ Release(t, s) \/ Status(t, s)
    \/ \E s \in Shells : EditRc(s)

Spec == Init /\ [][Next]_vars

-----------------------------------------------------------------------------
(* add_alias is idempotent: two aliases never stand in one file, whatever  *)
(* the user writes behind the first one.                                   *)
OneAlias ==
    \A s \in Shells : Cardinality({i \in DOMAIN Lines(rc[s]) : Lines(rc[s])[i] = "alias"}) <= 1

(* remove_alias and add_alias leave the user's lines as they are: the test *)
(* test_remove_alias_preserves_other_content, for every sequence of        *)
(* commands and edits.                                                     *)
OthersPreserved ==
    \A s \in Shells :
        (\A t \in Terminals : ~(At(t, "filling") /\ cmd[t].shell = s)) => UserLines(rc[s]) = mine[s]

(* After any sequence of commands and edits an rc file is the user's, with *)
(* one alias at most.                                                      *)
RcFileKept == OneAlias /\ OthersPreserved

(* handle_uninstall ends with "native claude is restored": a new terminal  *)
(* does not look for the ccg that is gone.                                 *)
UninstalledIsNative ==
    \A t \in Terminals : At(t, "idle") /\ cmd[t].result = "uninstalled" =>
        \A s \in Shells : binary \/ Runs(s) # "not found"

(* CliConfig::load never sends the client token of one source to the       *)
(* gateway of another.                                                     *)
CredentialsBelongTogether ==
    \A t \in Terminals : At(t, "idle") /\ cmd[t].result = "launch" /\ cmd[t].config # Failed =>
        /\ cmd[t].config.url = cmd[t].config.token
        /\ file # {"no file"} => cmd[t].config.url = "file"

(* handle_status prints "Hijack: ON (claude -> gateway)" when claude goes  *)
(* to the gateway.                                                         *)
StatusIsTrue ==
    \A t \in Terminals : At(t, "idle") /\ cmd[t].result = "status" /\ cmd[t].hijack =>
        cmd[t].runs # "native"
=============================================================================
