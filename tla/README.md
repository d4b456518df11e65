# Formal model of cc-gateway-desktop

TLA+ modules that model the parts of this repository whose correctness depends
on interleavings, failures and time, the TLC runs that check them, and TLAPS
proofs of what holds for every size of the system. Paths are relative to the
repository's root. `PROJECT.json` maps every definition to the lines it stands for.

## 1. The system

A **gateway** sits between Claude Code clients and the Anthropic API. It
authenticates clients with its own tokens, replaces their credentials by one
OAuth access token that it keeps fresh, rewrites identity and environment data in
requests, and forwards them. It exists twice: the Rust daemon, and the
TypeScript reference gateway. Three programs start and supervise gateways: the
desktop app (Tauri), the standalone CLI `ccgw`, and the launcher `ccg`.

| component | state | operations | what makes it correct |
|---|---|---|---|
| OAuth manager, `crates/core/src/oauth.rs` | access token, refresh token, expiry and loop task behind one mutex; clones counted by an `Arc` | init, get_access_token, refresh_token, schedule_refresh, refresh_loop, drop | overlapping refreshes never lose the refresh token the endpoint accepts; outages are bounded; the loop lives exactly as long as the gateway and always recovers |
| daemon gateway, `crates/daemon/src/server.rs` | configuration, `oauth_init_error`, a clone of the manager per request | build_state, health, verify, proxy | unauthenticated requests cause nothing; a request fails for want of a token only when there is none; nothing is forwarded unrewritten |
| client authentication, `crates/core/src/auth.rs` | token → client name | authenticate | the header precedence of the TypeScript gateway |
| configuration, `crates/core/src/config.rs` | the loaded file and its canonical profile | load, validate, get_env_value | an invalid file is never accepted; profile values take precedence |
| rewriter, `crates/core/src/rewriter/`, `server.rs` 452–894 | none | identity, env, process, prompt, headers, event batch, policies | no original identity field survives any combination of policies unless preserved by name |
| desktop supervisor, `crates/desktop/src-tauri/src/{daemon,commands,main}.rs` | status, child, port, each behind a mutex; an outer mutex over all | start_daemon, stop_daemon, Quit, poll_exit, health | no daemon is left without a handle; the status agrees with the process; start and stop end |
| desktop configuration editor, `commands.rs` 259–318 | the file and a draft | read, save | a reader never meets an unvalidated or missing configuration |
| desktop window, `crates/desktop/src` | React state polled every 3 s | poll status, toggle, notify | one notification per change |
| `ccg`, `crates/cli/src` | shell RC file, configuration | status, hijack, release, launch, install | hijack and release are inverse and idempotent |
| standalone CLI, `standalone-cli/src` | manifest, configuration, ownership file, gateway process | discover, bootstrap, ensureGatewayRuntime, launch | only a runtime it owns is stopped; one runtime per workspace; its client token is the runtime's |
| TypeScript gateway, `src/` | cached tokens, timers | as the daemon | as the daemon; a bounded number of timers |

**Interactions.** Request handlers and the refresh loop share the manager's
state; the daemon's start-up awaits a refresh before the port is bound; the
desktop app talks to the daemon only as a process (spawn, kill, exit code) and
over its health port; the standalone CLI likewise with the TypeScript gateway; all of
them share default ports and files under `~/.ccgw`.

**What is hard.** Refreshes that overlap across an `await`; an endpoint that
changes state before its reply arrives or is lost; timers set for an expiry
that others move; reference-count races in `Drop`; three mutexes taken
one after the other by threads that overtake each other; processes that exit by themselves;
ports that others hold; crashes between two file writes. The list with
lines and properties is `hazards` in `PROJECT.json`.

## 2. The modules

### OAuthManager

`OAuthManager.tla` is `oauth.rs` under the users the daemon gives it: the server's start-up,
a set `Req` of request handlers, and the loop.

| code | model |
|---|---|
| `OAuthState.{access_token, refresh_token, expires_at}` | `store.{access, refresh, dated, ttl}`; access tokens are present or not, refresh tokens are identified |
| a caller between reading the refresh token and storing the reply | `call[p].st`: `idle`, `sent`, `granted`; with the captured token (`old`) and the reply's (`new`, `life`) |
| `Arc` clones | `handles`, and `LoopUpgraded` for the loop's temporary one |
| `refresh_loop`'s sleep | `wake` |
| the token endpoint (external) | `live`, the one refresh token it accepts: `Grant`, `Refuse`, `LoseReply` |

One action is the code between two awaits or two acquisitions of the mutex:
`Send` (lock, clone the token, unlock, POST), `Apply` (parse, lock, store),
`Refuse`/`LoseReply` (every `?` and `return Err`), `InitManager`,
`ScheduleRefresh`, `Arrive`/`StartRefresh`/`Reread` (`get_access_token_or_refresh`),
`Disconnect` (axum drops the handler's future), `DropBody` and `Release` (the
user's `drop` and then the `Arc`'s), `LoopWake`, `LoopReschedule`. Time is
relative: `Tick` takes one unit off `ttl` and `wake`, so time needs no bound.

The endpoint may refuse at any time. It grants only its live token; a
reply that rotates it makes the old one dead at once. `Rotations` chooses whether replies
always, never or sometimes carry a new one.

Assumptions and limits: a POST ends (the client sets no timeout; an
endpoint that stays silent for ever stops its caller for ever); clocks do not
jump; `expires_in` is a natural number (negative ones behave like 0 — the
token is expired on arrival — and ones that overflow the date are left out); the check
and the abort in `drop` are one step (nothing can revive a count of
1); `schedule_refresh` is called once, by `init`, so its abort of an earlier
task is not reached; an endpoint that answers a reused token by
revoking its successor is not modelled, only one that refuses it.

### DesktopDaemon and DaemonLifecycle

`DesktopDaemon.tla` is `DaemonProcess` under `start_daemon`, `stop_daemon` and
the tray's Quit, together with the daemon processes, the ports they bind and the
configuration file they load.

| code | model |
|---|---|
| `status`, `child`, `port` | the same; `child` is a process or `NoProc` |
| the outer mutex of `DaemonState` | `OuterFree`: nobody is inside `start` (`StartPcs`) or `stop` (`StopPcs`) |
| the child's mutex, which `stop` keeps to its end | `ChildFree` |
| `start`'s steps under one mutex each | `BeginStart`, `Spawn` or `FailStart`, `SetChild`, `SetPort`, `SetRunning` |
| the loop of `start_daemon` | `Probe`, `Healthy`/`Unhealthy`, `PollExit` or `FailPoll`, `ReportExit`, `ClearPort`; `tries` counts rounds |
| `stop` | `BeginStop`, `Kill` or `FailKill`, `SetStopped`, `EndStop` |
| Quit and the end of the app | the command `"quit"`, then `Exit`; `Launch` starts it again |
| a daemon | `proc[q]`: `boot` until it binds, `up`, `ended0`/`ended1` until reaped; `at[q]` its port |

`poll_exit` reaps under the child's mutex, then writes status and port
under their own: three actions. `stale` is a history variable: it becomes true
when such a write happens although a later start has already installed (or is installing) its
daemon. `config_path` and `log_path` decide nothing and are left out, and
so are queries that change nothing. `get_daemon_status` takes the outer mutex for
a single read.

`DaemonLifecycle.tla` is what the app promises: it starts a daemon only when none
of its own is left, has at most one, shows `stopped` or `failed` only
without one, and `starting` is ended by the start itself.
`ImplementsLifecycle` maps `alive` to the processes in `boot` or `up`, whether
or not the app holds them.

Assumptions and limits: Tauri ends the app after Quit's handler returns; a
start that was waiting for the mutex may slip in between (`LateStarts`, true only in
`desktop_faults`). The window disables its button while a command is pending, so
two commands at a time need a reload of the window; both cases are checked. System calls on the
child may fail (`CallsFail`) and the app may die (`Crashes`) in `desktop_faults`.

### ClientAuth, Gateway

`ClientAuth.tla` has `AuthManager` (`auth.rs`) and `rewrite_headers` as operators. The
headers of a request are a function from names to the values of that name, a value is the sequence of
its words. `Gateway.tla` is what a request goes through in `server.rs`, with other requests,
the refresh loop and the expiry of the token in between.

| code | model |
|---|---|
| a handler's future between two awaits | `req[r].stage`: `refreshing`, `stored` (the second look at the token), `body`, `upstream`, `streaming`, `done` |
| `router`, `health_handler`, `verify_handler`, `proxy_handler` to its first await | `Arrive`: `AnswerAtOnce` or `Accept` |
| `get_access_token_or_refresh` | `RefreshOk`, `Reread`, `RefreshFails` |
| body, upstream call, audit line, stream | `BodyArrives`/`BodyBreaks`, `UpstreamAnswers`/`UpstreamFails`, `StreamEnds` |
| axum drops a handler whose client is gone | `Disconnect`, at any await |
| `OAuthManager` | `token`: one value that expires and is replaced, `LoopRefresh` unless the start was degraded |

`sent` and `audited` are what left for the upstream and for the log. The token's races are in `OAuthManager`;
here only what the handlers see of it matters, so this module abstracts it to a value and a validity
instead of instantiating it. `TsAuthenticate` is `authenticate` of `src/auth.ts` under Node's
treatment of repeated headers, as a reference to compare with.

### Rewriter

`Rewriter.tla` is `rewrite_request_body` with every route, the policies and `preserve_fields`.
A JSON document is a function from paths to nodes, so a recursion of the code is a definition by
cases on paths, and removing or inserting a field changes the domain. A text is a sequence of
lines, each of which says what the patterns of `prompt.rs` find in it and how many carriage returns end it (`cr`); the last
one is empty if the text ends in a line break. `TextLines` and `JoinLines` are `str::lines` and `join("\n")`, which together drop a line
break at the end and a carriage return of each line, and strip the items of an array twice (`KeptText`). The state is one request:
`Forward` rewrites it, `Relay` lets a second gateway of the same configuration rewrite it again.
`random_in_range` and the clock's fallback hash are choices (`Draws`), made anew in every rewriting. All that the code puts into a
document goes through `PutAll`, and what was inside a value that is replaced goes with it. `preserve_fields` and `retain` are recursive functions
(`PreserveFields`; `Without` of `LineFilter.tla`, which `Launcher` uses too). `Index` names the elements of an array;
the assumptions about `Index`, `ClientRequests` and `Options` are what a parser guarantees of a body and of a policy.

Left out: the wording the patterns match, the content of the environment's 21 to 40 keys (two stand for
them), blanks of the patterns of `prompt.rs:89-104` that reach into the next line, an OS version with a tag behind it,
a path with two home directories in it, an array inside the system's array, a body with two equal keys.
Four conditions stand in the properties, and section 6 says what happens without them:
`HomesAreRecognized` (`working_dir` begins with a home directory, no path has two), `SystemIndexed` (a preserved field inside the
system, whose index may be another after stripping), `HashFellBack` (a hash that is taken from the clock) and `PromptIsTidy` (a stripped
text that leaves neither ends in a line break nor has a carriage return before one).

### GatewayConfig, ConfigFile

`GatewayConfig.tla` is `Config::load` with the profile and `validate`; a file keeps of its text what the code looks at.
`TsAccepts` is `loadConfig` of the TypeScript gateway. A device id has two lengths, in bytes and in UTF-16 units, and each
gateway counts one of them: `DeviceAccepted` and `TsDeviceAccepted`.

`ConfigFile.tla` is `save_config_snapshot` and `get_config_snapshot` under several instances
of the app, one system call per action: open and truncate the draft, write it, `Config::load` it,
look for the old file, remove it, rename the draft, and the three reads of a snapshot. Names point to nodes
and nodes hold content, because a writer that has opened a draft goes on writing to it
under whatever name it has by then. Calls may fail (`Failing`), apps may die at any step.

### DesktopSettings

`desktop-settings.json` is written in place: truncate, write from the start, by several instances. The end
of the JSON text is spelled out, since what two writes leave behind is a mixture of their texts. The file is
`settings`, and the specification `SettingsSpec`, so that one module can reason about this module and `Dashboard`.

### Launcher

`Launcher.tla` has install, uninstall, hijack, release, status and launch, from several terminals. A text is a
sequence of lines: the user's (one of `Written`, or such a line that contains the tag) and the alias. Reading,
truncating and filling an rc file are three steps; the user edits between commands. `Kept` is the filter over the lines as a
recursive function of the text's prefixes, which can be reasoned about.

### StandaloneRuntime

A run of `ccgw` goes through `bootstrapEnvironment`, `prepareRuntimeEnvironment` and
`ensureGatewayRuntime`; its `stage` is the next file access, probe, signal or spawn. `config`, `manifest` and
`ownership` are the three files; `gateway[p]` is a gateway process with the configuration it has read. A signal
returns before its process is gone (`stopping`), and such a process may hold the port
and answer probes meanwhile (`Serving`). Runs may overlap, be killed at every stage (`MayCrash`), and have any write rejected (`WritesFail`). What a run renders depends on
where it is called: `Settings` are the credentials, `TERM_PROGRAM`, `CI`, `SHELL` and node's version it finds, and those of two terminals
come back in turn. claude is launched after a preparation, without it when it failed and the user goes on
(`SkipPreparation`), or not at all (`Prepared`, of `prepare-runtime`). Two histories say for which gateway nobody answers: `lost`, those a run was killed
or failed over before both files named them, and `mistaken`, those written down when another had answered the probe.

### TsOAuth

`src/oauth.ts` has no lock: `scheduleRefresh` starts a chain of timers and POSTs that never ends, and
each lazy refresh starts one more. `chain[c]` is a chain (`timer`, `posting`, `retry`), `post[o]` the POST of a chain,
a request or the start-up, `cached` the one cache all of them write. Time is relative, as in `OAuthManager`. A POST
may be granted or refused, fail with an error before or after the endpoint has acted (`Fault`), or never be settled at all (`hung`: the code
listens for the response's `end` only); `lost` notes that the answer of a rotating endpoint did not arrive. The
process dies of an answer that is no JSON or of a failed start, and is restarted with what is configured. `Endpoints` says
which endpoints there may be: one that rotates refresh tokens, one that answers garbage, both, or neither.

### Dashboard

The window's polls, loads and saves are calls whose answer is read at one moment and arrives at
another (`asked`, then the answer, then free). An update of React's state, the render and the effects
after it are one step (`Render`), because React runs them before it handles another
event; a hook exists only while its tab is open. `told` and `left` are history variables: the last danger the user was told of, and whether the
status tab was left since.

### Who composes whom

`Gateway` extends `ClientAuth`, `ConfigFile` extends `GatewayConfig`, `DesktopDaemon` instantiates `DaemonLifecycle`,
`Launcher` and `Rewriter` extend `LineFilter`, which keeps the lines of a text that pass a test.
The `MC` modules give constants values that a `.cfg` cannot write; each `*Proofs` module extends the
module it is about, except that
`DesktopAppProofs` extends `Dashboard` and `DesktopSettings`, and `TextProofs` `Launcher` and `Rewriter`. No definition in any module is `RECURSIVE`.

## 3. The runs

Eleven runs pass. One, in bold, is a run that TLC must find violated: what it says is the name of a test of the
repository, and `findings` in `PROJECT.json` quotes it. What else documents say and the code does not do is in section 6.

| run | question | result |
|---|---|---|
| `oauth_rotating` | can overlapping refreshes, lost replies, hang-ups and drops cost the credential, stretch an outage or stop the loop? Does the loop end with the gateway, and recover while it lives? | no, beyond a reply that is itself lost; yes |
| `oauth_mixed_rotation` | is the stored refresh token preserved by a reply without one? | **no**: a late reply restores an older one |
| `desktop_faults` | with two commands at a time, failing kills, crashes and late starts, does the status still agree with the handle? | yes, but for a `poll_exit` report that a later start overtook |
| `desktop_one_command` | with one command at a time: does the supervisor keep its promise and every daemon within reach, do start and stop end? | yes; no report is ever overtaken |
| `gateway_flow` | do strangers cost nothing, is the audit log true, does every handler end, with two requests, expiries, failures and hang-ups? Do credential headers leak a key, lose another header, or make the two gateways disagree? | yes; no, if none is empty or repeated |
| `rewriter_policies` | under every policy and through a second gateway: is what must be canonical canonical, does the rest stay, does the hash belong to the message that leaves? | yes |
| `config_save` | two apps save, fail and die: is only a validated text installed, nothing lost for good, and Ok true? Do the two gateways come to the same verdict about what is there? | yes; yes, but for three kinds of files (section 6) |
| `settings_torn` | do three instances that write in place and die ever make up a setting? | no |
| `launcher_one_terminal` | one alias, the user's lines kept, no alias without a `ccg`, credentials from one source? | yes |
| `standalone_crash` | with runs that die, writes that are rejected and renderings that alternate: do the files agree in each run that comes through, does every gateway that answers know its client, is the client kept? Is another configuration served only by a gateway on its way out, lost, or written down on another's answer, and a gateway lost only by a run that is killed or cannot write? | yes |
| `ts_rotating` | three chains and two lazy refreshes, with a rotating endpoint or one that garbles answers until the gateway dies and restarts: is the working refresh token ever lost, or the service for good? Is a lone chain punctual? | only with an answer the network lost, or by POSTs that are never settled; yes |
| `dashboard_status` | with polls that overtake each other, loads that fail, saves and tabs: is the daemon shown as it is in the end, and the configuration, each danger told, and once for each visit of the tab? | yes; some configuration, and the one that is there if the user goes on reloading |

Six properties are conjunctions of parts that are defined, explained and, where the proofs reach, proved one by one:

| property | parts |
|---|---|
| `CommandsEnd` | `StartReturns`, `StoppingEnds` |
| `ForwardedHeaders` | `ClientSecretsStay`, `HeadersSurvive` |
| `NothingOfTheClient` | `IdentityIsCanonical`, `EventsAreCanonical`, `NoClientTimestamp`, and `PromptIsCanonical` if `HomesAreRecognized` |
| `NothingElseChanges` | `BodyTypeOK`, `UserWordsUntouched`, `ConservativeKeepsTheRest`, and `PromptSurvives` unless `SystemIndexed` |
| `RcFileKept` | `OneAlias`, `OthersPreserved` |
| `WindowCatchesUp` | `StatusCatchesUp`, `ConfigArrives`, `ReloadShows` |

The exception in `desktop_faults` is `stale`. Without it `Supervised` fails for two commands at a time (`Commands = {c1, c2}` and
three processes in `DesktopOneCommand.cfg`) after 22 steps: a start's polling reaps its daemon and stops before writing; Stop and
Start install a second daemon; the first polling writes `failed`; Quit then finds nothing to
stop and leaves the second daemon running.

**Bounds.** OAuth: two requests, the loop and the start-up are four callers;
every race here is between two callers, and the others are there to
interfere. Five tokens are one stored, one live and one per further reply under
way; a token nobody knows any more is used again as a fresh one. Lifetimes of 2 or 3
against delays of 1 and 2 put the retry before, at and after an expiry. Desktop:
two commands and Quit; three processes (held, being installed, lost); two ports, one with a foreign
server; `Polls` is 2 instead of 20, which has a first, a further and a last
round. `CHECK_DEADLOCK FALSE` in the OAuth runs: the server may be dropped and its loop end, and
then nothing happens any more. The desktop runs check deadlock; the user may always
do something, so what shows that the mutexes do not block each other is
`CommandsEnd`.

Gateway: two requests suffice, because handlers meet only in the token, and a third
actor that changes it is the loop or an expiry. `MCMessages` has each form of a credential in each of the three
headers, alone and beside the others where the code looks further, under two entries of `auth.tokens` that
share a token; the proof of `AgreesWithTypeScript` is for all combinations. Rewriter: one shape for
each branch, every combination of mode, `strip`, `normalize` and three lists of preserved fields. `CHECK_DEADLOCK FALSE` in both:
a request ends and does not come again. Configuration: two apps, two milliseconds, five contents, of which two load (one
of them in Rust only), one loads with a good profile and two never, and profiles that are missing, good, of another version, or have a
bad device id. The file is at first a good one or the half of one: `InstalledIsValid` is about what takes its place. Settings: three
instances, since a torn text needs two writers and the third loads. Launcher: files of up to three
lines, which have a first, a middle and a last one. Standalone: a runtime to replace, its
replacement, and what a failed run leaves are three gateways; two settings alternate as more would. TypeScript:
a chain can do harm only with a second one, and a third arises while two are there;
lives of 1 and 2 against a longest delay of 2 and a retry of 1. `MaxFaults` bounds the faults of the
endpoint, and with it the outages liveness has to outlast. `Ask` is guarded by a free chain, the one bound
that is not on data. Dashboard: two polls overtake each other, and a load and a save do;
of the five statuses three are distinguished by the code (running, failed, other), and the window itself begins with the other one, stopped. Two
files that can be read tell an old answer from a new one. One load, so the calls that two effects start at once are only proved about.

**Fairness.** OAuth: tokio runs tasks that are ready and timers that are due, handlers and
drops go on, POSTs end. Strong fairness of `Grant("loop")` says the endpoint does not
refuse the loop's valid token for ever; it says nothing of requests. No fairness makes
clients arrive or the server stop. Desktop: a thread that can go on does, a
health check ends one way or another, and a `poll_exit` that waits for the child's mutex gets
it if it is free again and again (a stop that keeps it always gives it back).
Gateway: every call a handler waits for returns, and the loop's refresh succeeds in the end; no client has to
come. The body and the upstream have no timeout in the code, so `EveryRequestEnds` is conditional on them. TypeScript: timers
fire, POSTs are answered (but for at most `MaxFaults` that fail or are never settled), docker restarts what has died. Dashboard: the interval goes off and
commands answer, except that a health check may hang (its poll then ends without an answer) and a save need
not end; the effect that loads the configuration has strong fairness, because it runs right after the render
that enables it, before the user can act again. No fairness makes the user reload: no effect asks again once a configuration
is shown (`App.tsx:475`), and the answer of an older load may overtake a newer one, so `ReloadShows` is conditional on a user who goes on reloading. The other modules state safety only.

## 4. The proofs

`OAuthManagerProofs.tla`, checked by `tlapm`, for every set of requests and tokens
and all delays:

* `TypeCorrect` and `LoopSurvivesRequests` from one inductive invariant `Inv`:
  types; what a caller's position says about its call (`CallInv`); who holds a clone and
  that the loop has not ended while the server holds one (`LifeInv`). The loop could
  only end early through a drop that sees itself as the last owner, which the
  server's own clone excludes, or through an undated store, which a refresh never leaves.
* `CustodyHolds` and `RefreshTokenIsKept`, assuming every grant rotates the token
  (`Rotations = {TRUE}`). Custody alone is not inductive: one needs that a token
  somebody read and the endpoint still accepts is still the stored one, and that
  a grant under way is the only one and answers the stored token. A second
  grant would need the live token, which only the first one's reply holds.
* `OutageIsBounded`, assuming one lifetime (`Lifetimes = {L}`): `TimerInv(L)` says
  that a sleeping loop wakes by the expiry or within a retry, and that its sleep outlasts a whole
  lifetime only while no request has a reason to refresh (the configured token may live longer than `L`).
  With several lifetimes it is false: a request's short-lived token does not move the loop.

`DesktopDaemonProofs.tla`, for any number of commands, processes, ports and
polling rounds:

* `DesktopTypes`: the type invariant.
* `RestIsEmpty`, with every fault allowed, from `RestInv`: the outer mutex really
  excludes (`Mutex`: one command at most is inside `start` or `stop`), so the owner
  may rely on what it has established (`Undisturbed`: the status is `starting` for as long as
  a start lasts, there is no child before its `SetChild`, none after a stop's
  `Kill`). Polling writes outside that mutex; such a write finds no child and no start,
  or it is one that `stale` records.
* `NothingIsAbandoned`, assuming `Reliable` (no late start, no failing call, no crash), adds
  `Attended`: a status that refuses both Start and Stop belongs to a command that will end
  it, so a Quit that finds another status than `running` may ignore it; and a
  Quit that is done leaves no child and no start.
* `ReapedIsReported`, with every fault allowed, adds `Watched`: a start that has installed
  its handle loses it only to a polling that has yet to report, and the status is never
  `running` inside a stop.

* `NoReportIsOvertaken`, assuming one command of the window at a time (`OneCommand`), whatever fails: `LateInv` says that
  whoever has still to report an exit finds no child and no start but its own.
* `LifecycleIsKept`, assuming `Reliable` and `OneCommand`: every step is a step or a stutter of `DaemonLifecycle`.
  The invariants above together say that at most one daemon is alive, and none that is not the child or about to be.

`GatewayProofs.tla`, for any requests, headers, entries and tokens:

* `TypeOKHolds`, `StrangersSpendNothingHolds` and `AuditIsTrueHolds` from `ReqInv`: what the stage of a
  request says about its message, what it sent and what was logged of it.
* `ForwardedHeadersHold` from the next two; `HeadersSurviveHolds` from `HeaderInv`: what was sent is what `UpstreamHeaders` makes of the request's own headers and a
  token that may stand in one.
* `ClientSecretsStayHolds`, assuming `KeysInTheirPlace`: clients keep their keys in the credential headers, and no
  access token or canonical user agent contains one. Without it a client may of course send its key anywhere.
* `AgreesWithTypeScriptHolds`, assuming that the keys of `auth.tokens` are single visible words; the
  condition in the property, neither empty nor repeated, is needed (section 6).

`ConfigFileProofs.tla`, for any number of apps and any contents, failing calls and crashes:

* `TypeOKHolds`, `InstalledIsValidHolds`, `LostIsRecoverableHolds` (also assuming a file at first) and `SavePersistsHolds`, assuming
  that no two saves share a millisecond (`Alone`; section 6 says what happens otherwise). The invariant gives each saver
  its own draft: the name is its own, the node under it is its own until the rename,
  and after validation the content is what was typed and what `Config::load` accepts. `Installs` is what every step is shown to keep.
* `GatewaysAgreeHolds`, without `Alone`: whatever is under the name of the configuration, both gateways load it or neither, unless it is
  of the three kinds that `Comparable` leaves out. It assumes (`Formed`) that what is typed and the profiles have the forms into
  which serde parses a text; the invariant `WholeInv` says that whatever the saves leave behind does too.

`StandaloneRuntimeProofs.tla`, with any number of crashes, rejected writes, gateways, clients and settings. All assume that runs do
not overlap (`OneRun`; section 6 says what happens otherwise):

* `ClientIsStableHolds` from `IInv`: what the run knows of the three files at each stage, and that what it has
  written stays until the next one begins.
* `ReadyIsConsistentHolds`, `NothingUnattendedHolds` and `StaleOnlyLingersHolds` from `CareInv` too. A gateway may read another configuration than the one it is
  recorded with: its run dies, the next one rewrites `config.yaml` while it starts, and a third one, of the first's terminal, finds the
  fingerprint it wants. That this takes a gateway that is `lost` or `mistaken` is what the invariant says: but for those that are lost, nothing lives
  besides the gateway a run attends, nor while it spawns one, and what it waits for reads the file that it
  has written itself (`Care`); a living gateway of both files that is neither has loaded what its fingerprint says (`HeldInv`); nothing names a gateway that is yet to
  be spawned (`Born`); and whatever has loaded has the manifest's client (`ClientInv`). `StepAged` is about the steps of gateways, which only get older.

`TextProofs.tla` is about the two modules that rewrite texts line by line. `Launcher`, for files, commands and edits of any
number and length:

* `CredentialsBelongTogetherHolds` assumes nothing.
* `RcFileKeptHolds` assumes one terminal (`OneTerminal`; with two a command may read a truncated file, section 6): a command
  that is going to write holds a text with the user's lines as they are in the file, and the file that is truncated meanwhile
  has them nowhere else.
* `UninstalledIsNativeHolds` assumes one terminal and one shell (`OneShell`; the alias of another shell stays, section 6).

  Both need what filtering does to texts of any length (`FilterStep`, `KeptLines`, `KeptSame`: nothing but the dropped lines
  goes, and the order stays). The library's induction theorem takes a predicate as a parameter, which the provers
  cannot instantiate; `NatBySet` is induction with a set in its place, derived from the least element of a set of naturals,
  and `KeptExists` shows with it that the recursive function is there at all.

`Rewriter`, for bodies of any shape and size (finitely many nodes, texts that are sequences of lines) and policies with any
preserved fields:

* `HashMatchesMessageHolds` assumes nothing more: the system prompt is rewritten after the messages and outside of them
  (`RewriteSystemOutside`), every line left in it announces the hash of what it found there (`RewriteSystemHash`), and
  where no preserved path leads nothing changes any more (`PreserveFieldsOutside`), in the messages and in the texts of the prompt.
* `UserWordsUntouchedHolds`, on every route: a text of a message is changed by the rewriting of reminders only, which keeps the number of
  lines, and what is put back is the original (`PreserveFieldsEither`).

* `BodyTypeOKHolds`: `BodyInv` says that what leaves is empty or `Grown`. `Grown` is what a parser gives, said of parents and
  children (`GrownIs`: it is `IsDocument`, whose containers may be any distance above), so that each function keeps it where it works:
  `PutAllGrown`, `RetainGrown` (the items that are kept are numbered again), `PreserveFieldsGrown`, `RouteGrown`.
* `NothingOfTheClientHolds`, from its parts `IdentityIsCanonicalHolds`, `EventsAreCanonicalHolds`, `NoClientTimestampHolds` and
  `PromptIsCanonicalHolds`. `RewrittenBody` relates what leaves to what the route made of the body: where no preserved path leads
  they are the same, everywhere else it is that or the client's. `EventRewritten` says the same of one event between its parts and the
  batch; `RecursiveIdentityIs` is about every depth of an encoded document, by the outermost path that ends in an identity; and
  `LineShown` about one line, where the pass over home directories finds the working directory that was just set.
* `NothingElseChangesHolds`, from `BodyTypeOKHolds`, `UserWordsUntouchedHolds`, `ConservativeKeepsTheRestHolds` and `PromptSurvivesFollows`.
  `Prompts` gives for every text that leaves the text of the client it comes from: one each, and every text but those that
  are blank after stripping, although items move up in `RetainItems` (`RetainMoves`). What is taken from a text has, but for carriage returns, each spoken line of it once
  (`Selected`, `Taken`); the two make a bijection between the lines of both prompts, and so their numbers are equal.
  `PreservedIsOriginal`: a preserved field is back as it was, whatever is preserved before and after it, if its container was left alone.
* `RelayChangesNothingHolds`: what a second gateway makes of what the first one sent is equal to it, node by node and so as a whole
  (`DocumentsEqual`; bodies are functions, which `ClientRequestsAssumption` says of the client's and every step keeps). A message is
  a client's or a turned one at each of its paths (`Turning`) and turning it again gives the turned one (`TurnedTwice`, on `RemindersTwice` and
  `AnonymousTwice`). A prompt that was stripped is `Clean`, and a clean one keeps all its items in their places
  (`CleanStrip`); its texts stay as they are if they are tidy, by the condition of the property; every line is rewritten into itself (`LineTwice`) if the hash is the same, and it is (`HashAgain`): both gateways take it from
  the same message, or there is no message and, by the condition of the property, no hash in the prompt. `PreservedAgain` puts the same fields back.

  The lemmas about documents (`PutOutside`, `PutInside`, `SubIs`) say what a subtree that is replaced does to all paths;
  the fields are put back by an induction over the list with `NatBySet`.

`TsOAuthProofs.tla`, for any number of chains and requests: `TypeOKHolds`; `LiveTokenHeldHolds`, assuming that an endpoint
that garbles answers does not rotate (a restart then loses the token, section 6): the live refresh token is cached
and nobody holds a grant, or exactly one holder of a grant has it, or its answer was lost, and then nobody holds or gets one again; `ChainSurvivesHolds` from `ScheduleInv`: a
gateway that is up has a chain; `OneChainIsPunctualHolds`, assuming that no life is longer than `setTimeout` can
wait: the timer of a lone chain is due when the cached token is.

`DesktopAppProofs.tla` is about two modules:

* `Dashboard`, for any number of polls and loads: `TypeOKHolds`; `DangerIsToldHolds` from `HookInv`, which relates the hook's two refs
  to what is shown, and to what was told since the tab was last opened; `ToldOnceHolds` from the same invariant.
* `DesktopSettings`, for any number of apps: `NothingMadeUpHolds`. The first character of the file
  tells which text it may be, and mixtures of the two are neither.

Only model-checked is liveness (`AbandonedLoopEnds`, `BackgroundRecovers`, `CommandsEnd`, `EveryRequestEnds`, `EventuallyServes`,
`WindowCatchesUp`): it needs fairness and `ENABLED`, out of this prover's reach.

## 5. Plan

Done: every component of section 1 has its module, and every module its
proofs (`GatewayConfig`'s are in `ConfigFileProofs`, `ClientAuth`'s in `GatewayProofs`). Worth adding, in this order:

1. `ConfigFile`: `SavedIsShown` as a theorem for one app, and an abstract register of validated contents that it implements between saves.
2. `Dashboard`: the start/stop button with its pending state, composed with `DesktopDaemon`'s commands.
3. Claude's credentials in `standalone-cli/src/credentials`, as operators like `GatewayConfig`.

## 6. Disagreements between the code and what is said of it

Each of these definitions states what a document, a comment, a message or a test of the repository says. TLC finds it violated
when it takes the place of the properties of the configuration named (with the change named, if there is one).

| definition | configuration | what is said, and what the code does |
|---|---|---|
| `NoTokenWhenUnavailable` | `OAuthRotating` | "No valid OAuth token available after refresh attempt" (`server.rs:292`): a request whose refresh another one beat answers 503 on its own error, without looking again (`server.rs:178`) |
| `StartedIsUp` | `DesktopOneCommand` | "Daemon exited before becoming healthy" (`commands.rs:389`): any 2xx or 503 on the port, whoever gives it, makes the start succeed before `poll_exit` is asked |
| `TypeScriptPrecedence` | `GatewayFlow` | "typescript precedence" (`auth.rs:30`): an empty `proxy-authorization` hides `authorization` here, not in `src/auth.ts:26` |
| `ExpiredIsUnavailable` | `GatewayFlow` | "Expired access token is treated as unavailable" (`tests/parity-checklist.md:18`): it may expire while the body comes in |
| `TokenIsHeader` | `GatewayFlow` | `expect("valid oauth token header")` (`server.rs:325`): nothing has checked it, and each handler panics while health says ok |
| `EachRequestIsLogged` | `GatewayFlow` | "log which client made each request" (`config.example.yaml:86`): only those the upstream answered |
| `Refreshing` (property) | `GatewayFlow` | health says "expired/refreshing" (`server.rs:197`): after a degraded start nothing refreshes until a request comes |
| `BillingStripped` | `RewriterPolicies`, `ClientRequests <- ObjectRequests` | "Billing header is stripped from system payloads" (`tests/parity-checklist.md:25`): not from an object (`server.rs:515`) |
| `PromptSurvives`, of any preserved fields | `RewriterPolicies`, `Options <- IndexOptions` | "Field paths to preserve from original request" (`config/canonical-profile.schema.json:316`): a path into an array is written back after stripping has moved the items |
| `HashOfReceived` | `RewriterPolicies`, `Options <- MessageOptions` | "so it matches what server sees" (`src/rewriter.ts:86`): a message that `preserve_fields` names is put back after the hash is computed (`server.rs:472`) |
| `PolicyIsInert` | `RewriterPolicies` | "not yet consumed by rewriter logic" (`config/canonical-profile.schema.json:296`): it is |
| `VerifyTellsTheTruth` | `RewriterPolicies` | "This shows how the gateway rewrites a sample request" (`server.rs:436`): `(stripped)` is a constant |
| `HeapFits` | `RewriterPolicies` | "should look like a real machine" (`config.example.yaml:76`): the shipped ranges give more heap used than there is |
| `PromptIsCanonical`, of any `working_dir` | `RewriterPolicies`, `WorkingDir <- HomeOnlyDir` | "Canonical home directory path prefix" (`config.example.yaml:74`): if it is one, the home directories become `/Users/user` |
| `SavePersists` | `ConfigSave`, `SameMilli = TRUE` | the test of `write_validated_config` (`commands.rs:493`): two saves in one millisecond share a draft, and an Ok may leave the other's half of a file |
| `SavedIsShown` | `ConfigSave` | what is shown after an Ok is what was saved: with two apps content and summary may belong to two files (with `Apps = {a1}` it holds) |
| `DeviceIsHex` | `ConfigSave` | "a real 64-char hex value" (`config.rs:212`): any 64 bytes but zeros, 32 times "é" too |
| `AcceptedByTypeScript` | `ConfigSave` | the same message in both gateways (`config.rs:212`, `config.ts:124`): 64 bytes here, 64 UTF-16 units there, so 32 times "é" loads only here. The other way round, TypeScript takes 64 units of any length, an empty path for none, and a profile's environment of any keys |
| `SettingsRoundTrip` | `SettingsTorn` | the test `settings_round_trip` (`settings.rs:67`): two writes in place may leave a brace too many |
| `OthersPreserved` | `LauncherOneTerminal`, `Terminals = {t1, t2}` | `test_remove_alias_preserves_other_content` (`shell.rs:211`): a second command may read the truncated file |
| `UninstalledIsNative` | `LauncherOneTerminal`, `Shells = {zsh, bash}` | "native claude is restored" (`crates/cli/src/main.rs:83`): the alias of another shell stays |
| `StatusIsTrue` | `LauncherOneTerminal` | "Hijack: ON" (`crates/cli/src/main.rs:139`): an alias that is commented out counts |
| `ReadyIsFresh` (property) | `StandaloneCrash` | "stale runtime metadata must not be reused" (`runtime-preparation.test.ts:246`): the old gateway answers the probe of its successor |
| `RecordedIsServing` (property) | `StandaloneCrash` | "`runtime.json` tracks the prepared runtime" (`standalone-cli/README.md:72`): a gateway left by a killed run answers instead |
| `ClientIsStable` (property) | `StandaloneCrash`, `Runs = {r1, r2}` | "reuse stable local client identity" (`standalone-cli/README.md:74`): two first runs at once make two |
| `RefreshedAtExpiry` (property) | `TsRotating` | "Auto-refreshing OAuth token at expiry" (`src/oauth.ts:69`): a second chain refreshes early; so does a life longer than `setTimeout` can wait (`Life = 3`) |
| `RefusedOnlyWithoutToken` (property) | `TsRotating` | "No valid OAuth token available" (`src/proxy.ts:102`): the loser of two refreshes is refused though a token is cached |
| `ServesWhateverFails` (property) | `TsRotating` | "Retrying in 30s" (`src/oauth.ts:76`): nothing settles the POST whose response breaks off (`src/oauth.ts:146`), and no retry brings back a rotated token whose answer was lost (`src/oauth.ts:161`) |
| `StaysUp` (property) | `TsRotating` | "OAuth refresh failed ... Retrying in 30s" (`src/oauth.ts:76`): an answer that is no JSON ends the process |

Three more need no definition of their own. `RelayChangesNothing` without `PromptIsTidy` is violated in `RewriterPolicies`: a system text that
ends in two line breaks leaves the first gateway with one and the second with none (`server.rs:707`). An endpoint that rotates and garbles violates `EventuallyServes`: a restart begins with
the configured refresh token, which is retired (`src/oauth.ts:155`). And "danger transition notifies
once" (`status/dashboard.test.tsx:161`) is true of a hook that stays mounted: without `left`, `ToldOnce` is violated, since every
return to the status tab tells a lasting danger again.

## 7. Not modelled

* Desktop window: the start/stop button, the logs and settings tabs (which load in the same way as the configuration), the
  editor's draft, presentation.
* Standalone CLI: the parsing of Claude's credentials, the child process that runs `claude`, proxy variables, directories.
* TypeScript gateway: its proxy handler and rewriter, which the daemon ports line by line; only where both are
  compared (authentication, configuration) are they beside each other.
* `ccg`: the health request of `status`, the exec of `claude` and its exit code.
* Proxy settings and logging set-up, scripts, packaging and generated schemas: no state that anything above depends on.
* TLS, HTTP framing and JSON parsing appear as success or failure.
