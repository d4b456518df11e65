------------------------- MODULE StandaloneRuntime -------------------------
(***************************************************************************)
(* ccgw, the standalone CLI (standalone-cli/src/environment): each run     *)
(* writes config.yaml and manifest.json, reuses or replaces the gateway    *)
(* that earlier runs have left behind, and records it in runtime.json and  *)
(* in the manifest.  All writes are atomic (temporary file and rename):    *)
(* one that is rejected leaves the old file.                               *)
(*                                                                         *)
(* A configuration is who the client is and what a run found where it was  *)
(* called: the credentials, TERM_PROGRAM, CI, SHELL and the version of     *)
(* node.  Its renderFingerprint is a hash of it, here the configuration    *)
(* itself.                                                                 *)
(***************************************************************************)
EXTENDS Naturals, FiniteSets

CONSTANTS
    Runs,           \* runs of ccgw that may overlap
    MayCrash,       \* whether a run may be killed
    WritesFail,     \* whether a write may be rejected (full disk, permissions)
    Settings,       \* what a run may find
    MaxClients,     \* bound of the client identities created
    MaxGateways     \* bound of the gateways spawned

ASSUME FaultsAssumption == MayCrash \in BOOLEAN /\ WritesFail \in BOOLEAN

VARIABLES
    config,         \* config.yaml
    manifest,       \* manifest.json
    ownership,      \* runtime.json
    gateway,        \* the gateway processes
    clients,        \* how many client identities were created
    lost,           \* history: gateways a run was killed or failed over, unrecorded
    mistaken,       \* history: gateways a run went on with when another answered
    run             \* the runs

history == <<lost, mistaken>>
vars == <<config, manifest, ownership, gateway, clients, history, run>>

None == [none |-> TRUE]
Configuration(client, found) == [client |-> client, found |-> found]
Pids == 1 .. MaxGateways

Init ==
    /\ config = None /\ manifest = None /\ ownership = None
    /\ gateway = [p \in Pids |-> [state |-> "unborn"]]
    /\ clients = 0
    /\ lost = {} /\ mistaken = {}
    /\ run = [r \in Runs |-> [stage |-> "idle"]]

At(r, stage) == run[r].stage = stage
Goto(r, stage) == run' = [run EXCEPT ![r].stage = stage]
State(p) == gateway[p].state
(* The gateway that has the port, be it on its way out. *)
Serving == {p \in Pids : State(p) = "serving" \/ (State(p) = "stopping" /\ gateway[p].bound)}
(* One that runs, and nobody has told to stop. *)
Alive == {p \in Pids : State(p) \in {"starting", "loaded", "serving"}}

CanStopOwnedRuntime(m, o) == m.runtime # None /\ o # None /\ o = m.runtime
(* Recorded twice: what the next run may stop. *)
Held(p) == manifest # None /\ CanStopOwnedRuntime(manifest, ownership) /\ ownership.pid = p

-----------------------------------------------------------------------------
(* bootstrapEnvironment.  Mutant: a new identity in every run.             *)
Ended == {"idle", "ready", "skipped", "failed"}
Rendering(r, client, runtime) ==
    \E found \in Settings :
        run' = [run EXCEPT ![r] = [stage |-> "config", client |-> client, found |-> found, runtime |-> runtime]]
BeginAnew(r) ==
    /\ run[r].stage \in Ended /\ clients < MaxClients
    /\ clients' = clients + 1
    /\ Rendering(r, clients', IF manifest = None THEN None ELSE manifest.runtime)
    /\ UNCHANGED <<config, manifest, ownership, gateway, history>>
Begin(r) ==
    /\ run[r].stage \in Ended
    /\ \/ /\ manifest = None /\ clients < MaxClients
          /\ clients' = clients + 1
          /\ Rendering(r, clients', None)
       \/ /\ manifest # None
          /\ UNCHANGED clients
          /\ Rendering(r, manifest.client, manifest.runtime)
    /\ UNCHANGED <<config, manifest, ownership, gateway, history>>

(* Mutant: an existing configuration is kept. *)
WriteConfigOnce(r) ==
    /\ At(r, "config")
    /\ config' = IF config = None THEN Configuration(run[r].client, run[r].found) ELSE config
    /\ Goto(r, "manifest")
    /\ UNCHANGED <<manifest, ownership, gateway, clients, history>>
WriteConfig(r) ==
    /\ At(r, "config")
    /\ config' = Configuration(run[r].client, run[r].found)
    /\ Goto(r, "manifest")
    /\ UNCHANGED <<manifest, ownership, gateway, clients, history>>
WriteManifest(r) ==
    /\ At(r, "manifest")
    /\ manifest' = [client |-> run[r].client, runtime |-> run[r].runtime,
                    fingerprint |-> Configuration(run[r].client, run[r].found)]
    /\ Goto(r, "reading")
    /\ UNCHANGED <<config, ownership, gateway, clients, history>>

(* prepareRuntimeEnvironment reads the manifest again, and                 *)
(* ensureGatewayRuntime runtime.json.  Mutant: any recorded runtime will   *)
(* do.                                                                     *)
ReadStateAny(r) ==
    /\ At(r, "reading")
    /\ run' = [run EXCEPT ![r] = [stage |-> IF manifest.runtime # None THEN "probing" ELSE "stopping",
                                  manifest |-> manifest, ownership |-> ownership]]
    /\ UNCHANGED <<config, manifest, ownership, gateway, clients, history>>
ReadState(r) ==
    /\ At(r, "reading")
    /\ LET known == manifest.runtime # None /\ manifest.runtime.fingerprint = manifest.fingerprint
       IN  run' = [run EXCEPT ![r] = [stage |-> IF known THEN "probing" ELSE "stopping",
                                      manifest |-> manifest, ownership |-> ownership]]
    /\ UNCHANGED <<config, manifest, ownership, gateway, clients, history>>

(* A probe succeeds if any process answers on the port; it may always fail *)
(* (250 ms, no valid token).                                               *)
ProbeExisting(r) ==
    /\ At(r, "probing")
    /\ \/ /\ Serving # {}
          /\ run' = [run EXCEPT ![r] = [stage |-> "owning", manifest |-> @.manifest,
                                        pid |-> @.manifest.runtime.pid,
                                        token |-> @.manifest.runtime.token]]
       \/ Goto(r, "stopping")
    /\ UNCHANGED <<config, manifest, ownership, gateway, clients, history>>

(* kill(pid, SIGTERM) returns before the process is gone. *)
Signalled(p) ==
    [gateway EXCEPT ![p] = IF @.state \in {"starting", "loaded", "serving"}
        THEN [state |-> "stopping", bound |-> @.state = "serving",
              config |-> IF @.state = "starting" THEN None ELSE @.config]
        ELSE @]
StopOwned(r) ==
    /\ At(r, "stopping")
    /\ gateway' = IF CanStopOwnedRuntime(run[r].manifest, run[r].ownership)
                  THEN Signalled(run[r].manifest.runtime.pid) ELSE gateway
    /\ Goto(r, "spawning")
    /\ UNCHANGED <<config, manifest, ownership, clients, history>>

(* The ownership token is a random UUID, one for each process. *)
Spawn(r) ==
    /\ At(r, "spawning")
    /\ \E p \in Pids :
        /\ State(p) = "unborn" /\ \A q \in Pids : q < p => State(q) # "unborn"
        /\ gateway' = [gateway EXCEPT ![p] = [state |-> "starting"]]
        /\ run' = [run EXCEPT ![r] = [stage |-> "waiting", manifest |-> @.manifest, pid |-> p,
                                      token |-> p]]
    /\ UNCHANGED <<config, manifest, ownership, clients, history>>
SpawnFails(r) ==
    /\ At(r, "spawning")
    /\ run' = [run EXCEPT ![r] = [stage |-> "failed"]]
    /\ UNCHANGED <<config, manifest, ownership, gateway, clients, history>>

(* waitForHealthyRuntime: a probe that succeeds ends the wait, whoever has *)
(* answered; one that fails ends it if the process is gone, and so does    *)
(* the deadline.  Then what was spawned is stopped.  Mutant: it is left.   *)
WaitHealthy(r) ==
    /\ At(r, "waiting") /\ Serving # {}
    /\ Goto(r, "owning")
    /\ mistaken' = IF State(run[r].pid) = "serving" THEN mistaken ELSE mistaken \cup {run[r].pid}
    /\ UNCHANGED <<config, manifest, ownership, gateway, clients, lost>>
GiveUpAndLeave(r) ==
    /\ At(r, "waiting")
    /\ run' = [run EXCEPT ![r] = [stage |-> "failed"]]
    /\ UNCHANGED <<config, manifest, ownership, gateway, clients, history>>
GiveUp(r) ==
    /\ At(r, "waiting")
    /\ gateway' = Signalled(run[r].pid)
    /\ run' = [run EXCEPT ![r] = [stage |-> "failed"]]
    /\ UNCHANGED <<config, manifest, ownership, clients, history>>

Recorded(r) == [pid |-> run[r].pid, token |-> run[r].token, fingerprint |-> run[r].manifest.fingerprint]
WriteOwnership(r) ==
    /\ At(r, "owning")
    /\ ownership' = Recorded(r)
    /\ Goto(r, "recording")
    /\ UNCHANGED <<config, manifest, gateway, clients, history>>
WriteRuntime(r) ==
    /\ At(r, "recording")
    /\ manifest' = [run[r].manifest EXCEPT !.runtime = Recorded(r)]
    /\ Goto(r, "launching")
    /\ UNCHANGED <<config, ownership, gateway, clients, history>>

(* The end of a run that has nobody to take care of its gateway.           *)
Loses(r) ==
    lost' = IF run[r].stage \in {"waiting", "owning", "recording"} /\ ~Held(run[r].pid)
            THEN lost \cup {run[r].pid} ELSE lost
(* The next run can begin: a bound. *)
MayBegin == manifest # None \/ clients < MaxClients
(* writeTextAtomically, writeRuntimeOwnership or writeBootstrapManifest    *)
(* rejects.                                                                *)
WriteFails(r) ==
    /\ WritesFail /\ run[r].stage \in {"config", "manifest", "owning", "recording"} /\ MayBegin
    /\ run' = [run EXCEPT ![r] = [stage |-> "failed"]]
    /\ Loses(r)
    /\ UNCHANGED <<config, manifest, ownership, gateway, clients, mistaken>>
Crash(r) ==
    /\ MayCrash /\ run[r].stage \notin Ended /\ MayBegin
    /\ run' = [run EXCEPT ![r] = [stage |-> "idle"]]
    /\ Loses(r)
    /\ UNCHANGED <<config, manifest, ownership, gateway, clients, mistaken>>

(* runCli takes the client token from the manifest, which it reads again;  *)
(* so it does when the preparation failed and the user goes on all the     *)
(* same.  prepare-runtime launches nothing.                                *)
LaunchAs(r, stage) ==
    /\ run' = [run EXCEPT ![r] = [stage |-> stage, client |-> manifest.client]]
    /\ UNCHANGED <<config, manifest, ownership, gateway, clients, history>>
Launch(r) == At(r, "launching") /\ LaunchAs(r, "ready")
SkipPreparation(r) == At(r, "failed") /\ manifest # None /\ LaunchAs(r, "skipped")
Prepared(r) ==
    /\ At(r, "launching")
    /\ run' = [run EXCEPT ![r] = [stage |-> "idle"]]
    /\ UNCHANGED <<config, manifest, ownership, gateway, clients, history>>

-----------------------------------------------------------------------------
(* A gateway reads the configuration, and then listens: when the port is   *)
(* taken it dies of the error nobody handles.  It dies of a signal, for    *)
(* want of a token while it starts, or on its own.                         *)
GatewayLoads(p) ==
    /\ State(p) = "starting"
    /\ gateway' = [gateway EXCEPT ![p] = [state |-> "loaded", config |-> config]]
    /\ UNCHANGED <<config, manifest, ownership, clients, history, run>>
GatewayListens(p) ==
    /\ State(p) = "loaded"
    /\ gateway' = [gateway EXCEPT ![p] = IF Serving = {} THEN [@ EXCEPT !.state = "serving"]
                                         ELSE [state |-> "dead"]]
    /\ UNCHANGED <<config, manifest, ownership, clients, history, run>>
GatewayDies(p) ==
    /\ State(p) \in {"loaded", "serving", "stopping"}
    /\ gateway' = [gateway EXCEPT ![p] = [state |-> "dead"]]
    /\ UNCHANGED <<config, manifest, ownership, clients, history, run>>

Step(r) ==
    \/ Begin(r) \/ WriteConfig(r) \/ WriteManifest(r) \/ ReadState(r) \/ ProbeExisting(r)
    \/ StopOwned(r) \/ Spawn(r) \/ SpawnFails(r) \/ WaitHealthy(r) \/ GiveUp(r)
    \/ WriteOwnership(r) \/ WriteRuntime(r) \/ WriteFails(r) \/ Crash(r)
    \/ Launch(r) \/ SkipPreparation(r) \/ Prepared(r)
GatewayStep(p) == GatewayLoads(p) \/ GatewayListens(p) \/ GatewayDies(p)

Next ==
    \/ \E r \in Runs : Step(r)
    \/ \E p \in Pids : GatewayStep(p)

Spec == Init /\ [][Next]_vars

-----------------------------------------------------------------------------
(* The answer to a probe on which a run builds: r stops probing or waiting *)
(* because of it.                                                          *)
Answered(r) == run[r].stage \in {"probing", "waiting"} /\ run'[r].stage = "owning"

(* ensureGatewayRuntime goes on with a gateway that has the configuration  *)
(* this run has rendered, though the renderings of two terminals alternate *)
(* and a gateway reads the file long after it was spawned: unless that     *)
(* gateway was told to stop and is still there, was lost by a run that was *)
(* killed or could not write it down, or was written down when another one *)
(* had answered for it.                                                    *)
StaleOnlyLingers ==
    [][\A r \in Runs : Answered(r) =>
        \A p \in Serving \ (lost \cup mistaken) :
            gateway[p].config = run[r].manifest.fingerprint \/ State(p) = "stopping"]_vars

(* "Stale runtime metadata must not be reused" (runtime-preparation.test): *)
(* what a run goes on with has its configuration.                          *)
ReadyIsFresh ==
    [][\A r \in Runs : Answered(r) =>
        \A p \in Serving : gateway[p].config = run[r].manifest.fingerprint]_vars

(* runtime.json "tracks the prepared runtime": the process that is written *)
(* down is the one that answers.                                           *)
RecordedIsServing ==
    [][\A r \in Runs : Answered(r) => Serving = {run'[r].pid}]_vars

(* "Reuse stable local client identity": the manifest keeps its client.    *)
ClientIsStable == [][manifest # None => manifest'.client = manifest.client]_vars

(* Config and manifest, two files, agree whenever a run has come through,  *)
(* whatever crashes and rejected writes came before; and whichever gateway *)
(* answers, lingering and forgotten ones included, knows the token that    *)
(* the run hands to claude.                                                *)
ReadyIsConsistent ==
    /\ \A r \in Runs : run[r].stage \in {"waiting", "owning", "recording", "launching", "ready"} =>
          manifest # None /\ config = manifest.fingerprint /\ manifest.client = config.client
    /\ \A r \in Runs, p \in Serving : run[r].stage \in {"ready", "skipped"} =>
          gateway[p].config.client = run[r].client

(* A gateway is detached from the run that spawned it: while it lives, a   *)
(* run takes care of it, or both files name it and the next run can stop   *)
(* it.  Only a run that is killed, or that cannot write it down, loses     *)
(* one; one that gives up, fails to spawn or replaces one does not.        *)
Attended(p) == \E r \in Runs : run[r].stage \in {"waiting", "owning", "recording"} /\ run[r].pid = p
NothingUnattended == \A p \in Alive : Attended(p) \/ Held(p) \/ p \in lost
=============================================================================
