---------------------- MODULE StandaloneRuntimeProofs ----------------------
(***************************************************************************)
(* What TLAPS proves about StandaloneRuntime, of runs that do not overlap, *)
(* with any number of gateways, clients and settings, runs that may die    *)
(* anywhere and writes that may be rejected.                               *)
(***************************************************************************)
EXTENDS StandaloneRuntime, TLAPS

(* There is one run at a time: the condition of the theorems. *)
OneRun == \A r, s \in Runs : r = s

(* The states of a run: what it needs to keep. *)
Early == {"config", "manifest", "reading"}
Checking == {"probing", "stopping", "spawning"}
Starting == {"waiting", "owning", "recording", "launching"}
Rendered(x) == x = [stage |-> x.stage, client |-> x.client, found |-> x.found, runtime |-> x.runtime]
Checked(x) == x = [stage |-> x.stage, manifest |-> x.manifest, ownership |-> x.ownership]
Started(x) == x = [stage |-> x.stage, manifest |-> x.manifest, pid |-> x.pid, token |-> x.token]
RunOK(x) ==
    /\ x.stage \in Early => Rendered(x)
    /\ x.stage \in Checking => Checked(x)
    /\ x.stage \in Starting => Started(x)
    /\ x.stage \in Early \cup Checking \cup Starting \cup Ended

ManifestOK ==
    manifest # None =>
        manifest = [client |-> manifest.client, runtime |-> manifest.runtime, fingerprint |-> manifest.fingerprint]
Consistent == manifest # None /\ config = manifest.fingerprint /\ manifest.client = config.client

Record(x) == [pid |-> x.pid, token |-> x.token, fingerprint |-> x.manifest.fingerprint]

(* What a run at stage x.stage knows of the three files. *)
RunInv(x) ==
    /\ x.stage \in {"config", "manifest"} =>
          /\ manifest # None => x.client = manifest.client /\ x.runtime = manifest.runtime
          /\ manifest = None => x.runtime = None
    /\ x.stage = "manifest" => config = Configuration(x.client, x.found)
    /\ x.stage \in {"reading", "ready"} \cup Checking \cup Starting => Consistent
    /\ x.stage \in {"ready", "skipped"} => manifest # None /\ x.client = manifest.client
    /\ x.stage \in (Checking \cup Starting) \ {"launching"} => x.manifest = manifest
    /\ x.stage \in Checking => x.ownership = ownership
    /\ x.stage = "probing" => manifest.runtime # None /\ manifest.runtime.fingerprint = manifest.fingerprint
    /\ x.stage = "recording" => ownership = Record(x)

IInv ==
    /\ run = [r \in Runs |-> run[r]]
    /\ ManifestOK
    /\ manifest # None => config.client = manifest.client
    /\ \A r \in Runs : RunOK(run[r]) /\ RunInv(run[r])

LEMMA RecordIsNotNone == ASSUME NEW c, NEW t, NEW f PROVE [client |-> c, runtime |-> t, fingerprint |-> f] # None
<1> DEFINE m == [client |-> c, runtime |-> t, fingerprint |-> f]
<1>1. "client" \in DOMAIN m /\ "client" \notin DOMAIN None
  BY DEF None
<1> QED
  BY <1>1

LEMMA RenderedGoto ==
    ASSUME NEW x, Rendered(x), NEW s
    PROVE  [x EXCEPT !.stage = s] = [stage |-> s, client |-> x.client, found |-> x.found, runtime |-> x.runtime]
BY DEF Rendered
LEMMA CheckedGoto ==
    ASSUME NEW x, Checked(x), NEW s
    PROVE  [x EXCEPT !.stage = s] = [stage |-> s, manifest |-> x.manifest, ownership |-> x.ownership]
BY DEF Checked
LEMMA StartedGoto ==
    ASSUME NEW x, Started(x), NEW s
    PROVE  [x EXCEPT !.stage = s] = [stage |-> s, manifest |-> x.manifest, pid |-> x.pid, token |-> x.token]
BY DEF Started

(* The run changes its state. *)
LEMMA RunUpdate ==
    ASSUME OneRun, IInv, NEW r \in Runs, NEW new, run' = [run EXCEPT ![r] = new],
           RunOK(new), ManifestOK', RunInv(run[r])', (manifest # None => config.client = manifest.client)'
    PROVE  IInv'
<1>1. run' = [s \in Runs |-> run'[s]] /\ run'[r] = new
  BY DEF IInv
<1>2. \A s \in Runs : s = r
  BY DEF OneRun
<1> QED
  BY <1>1, <1>2 DEF IInv, RunOK

(* It changes it and leaves the files alone. *)
LEMMA QuietUpdate ==
    ASSUME OneRun, IInv, NEW r \in Runs, NEW new, run' = [run EXCEPT ![r] = new],
           RunOK(new), RunInv(new), UNCHANGED <<config, manifest, ownership>>
    PROVE  IInv'
<1>1. run' = [s \in Runs |-> run'[s]] /\ run'[r] = new
  BY DEF IInv
<1>2. \A s \in Runs : s = r
  BY DEF OneRun
<1>3. RunInv(run[r])'
  BY <1>1 DEF RunInv, Consistent
<1> QED
  BY <1>1, <1>2, <1>3 DEF IInv, RunOK, ManifestOK

(* A run moves on within one of the three shapes, keeping what it knows. *)
LEMMA Moves ==
    ASSUME OneRun, IInv, NEW r \in Runs, NEW s, Goto(r, s), UNCHANGED <<config, manifest, ownership>>,
           \/ run[r].stage \in Checking /\ s \in Checking \ {"probing"}
           \/ run[r].stage \in Starting \ {"launching"} /\ s \in Starting \ {"recording"}
    PROVE  IInv'
<1>1. RunOK(run[r]) /\ RunInv(run[r]) /\ run' = [run EXCEPT ![r] = [run[r] EXCEPT !.stage = s]]
  BY DEF IInv, Goto
<1>2. CASE run[r].stage \in Checking /\ s \in Checking \ {"probing"}
  <2> DEFINE new == [stage |-> s, manifest |-> run[r].manifest, ownership |-> run[r].ownership]
  <2>1. [run[r] EXCEPT !.stage = s] = new
    BY <1>1, <1>2, CheckedGoto DEF RunOK
  <2>2. RunOK(new) /\ RunInv(new)
    BY <1>1, <1>2 DEF RunOK, RunInv, Checked, Checking, Starting, Early
  <2> HIDE DEF new
  <2> QED
    BY <1>1, <2>1, <2>2, QuietUpdate
<1>3. CASE run[r].stage \in Starting \ {"launching"} /\ s \in Starting \ {"recording"}
  <2> DEFINE new == [stage |-> s, manifest |-> run[r].manifest, pid |-> run[r].pid, token |-> run[r].token]
  <2>1. [run[r] EXCEPT !.stage = s] = new
    BY <1>1, <1>3, StartedGoto DEF RunOK
  <2>2. RunOK(new) /\ RunInv(new)
    BY <1>1, <1>3 DEF RunOK, RunInv, Started, Checking, Starting, Early
  <2> HIDE DEF new
  <2> QED
    BY <1>1, <2>1, <2>2, QuietUpdate
<1> QED
  BY <1>2, <1>3

(* It begins a gateway, or finds one. *)
LEMMA Starts ==
    ASSUME OneRun, IInv, NEW r \in Runs, run[r].stage \in Checking, NEW s \in Starting \ {"recording"}, NEW p, NEW t,
           run' = [run EXCEPT ![r] = [stage |-> s, manifest |-> run[r].manifest, pid |-> p, token |-> t]],
           UNCHANGED <<config, manifest, ownership>>
    PROVE  IInv'
<1> DEFINE new == [stage |-> s, manifest |-> run[r].manifest, pid |-> p, token |-> t]
<1>1. RunInv(run[r])
  BY DEF IInv
<1>2. RunOK(new) /\ RunInv(new)
  BY <1>1 DEF RunOK, RunInv, Started, Checking, Starting, Early
<1> HIDE DEF new
<1>3. run' = [run EXCEPT ![r] = new]
  BY DEF new
<1> QED
  BY <1>2, <1>3, QuietUpdate

(* It ends without a result. *)
LEMMA Stops ==
    ASSUME OneRun, IInv, NEW r \in Runs, NEW s \in {"idle", "failed"},
           run' = [run EXCEPT ![r] = [stage |-> s]], UNCHANGED <<config, manifest, ownership>>
    PROVE  IInv'
<1> DEFINE new == [stage |-> s]
<1>1. RunOK(new) /\ RunInv(new)
  BY DEF RunOK, RunInv, Early, Checking, Starting, Ended
<1> HIDE DEF new
<1>2. run' = [run EXCEPT ![r] = new]
  BY DEF new
<1> QED
  BY <1>1, <1>2, QuietUpdate

(* It launches claude. *)
LEMMA Launches ==
    ASSUME OneRun, IInv, NEW r \in Runs, NEW s \in {"ready", "skipped"}, LaunchAs(r, s),
           manifest # None, s = "ready" => Consistent
    PROVE  IInv'
<1> DEFINE new == [stage |-> s, client |-> manifest.client]
<1>1. RunOK(new) /\ RunInv(new)
  BY DEF RunOK, RunInv, Early, Checking, Starting, Ended
<1> HIDE DEF new
<1>2. run' = [run EXCEPT ![r] = new]
  BY DEF LaunchAs, new
<1> QED
  BY <1>1, <1>2, QuietUpdate DEF LaunchAs

-----------------------------------------------------------------------------
LEMMA BeginStep == ASSUME OneRun, IInv, NEW r \in Runs, Begin(r) PROVE IInv'
<1>1. PICK c, o, t : /\ run' = [run EXCEPT ![r] = [stage |-> "config", client |-> c, found |-> o, runtime |-> t]]
                     /\ manifest # None => c = manifest.client /\ t = manifest.runtime
                     /\ manifest = None => t = None
  BY DEF Begin, Rendering
<1> DEFINE new == [stage |-> "config", client |-> c, found |-> o, runtime |-> t]
<1>2. RunOK(new) /\ RunInv(new)
  BY <1>1 DEF RunOK, RunInv, Rendered, Early, Checking, Starting
<1> HIDE DEF new
<1>3. run' = [run EXCEPT ![r] = new]
  BY <1>1 DEF new
<1> QED
  BY <1>2, <1>3, QuietUpdate DEF Begin

LEMMA WriteConfigStep == ASSUME OneRun, IInv, NEW r \in Runs, WriteConfig(r) PROVE IInv'
<1> DEFINE new == [stage |-> "manifest", client |-> run[r].client, found |-> run[r].found, runtime |-> run[r].runtime]
<1>1. At(r, "config") /\ RunOK(run[r]) /\ RunInv(run[r])
  BY DEF IInv, WriteConfig
<1>2. run' = [run EXCEPT ![r] = new]
  <2>1. [run[r] EXCEPT !.stage = "manifest"] = new
    BY <1>1, RenderedGoto DEF RunOK, Early, At
  <2> HIDE DEF new
  <2> QED
    BY <2>1 DEF WriteConfig, Goto
<1>3. RunOK(new)
  BY DEF RunOK, Rendered, Early, Checking, Starting
<1>4. run'[r] = new
  BY <1>2 DEF IInv
<1>5. RunInv(run[r])'
  BY <1>1, <1>4 DEF RunInv, WriteConfig, At, Checking, Starting
<1>6. ManifestOK' /\ (manifest # None => config.client = manifest.client)'
  BY <1>1 DEF IInv, ManifestOK, WriteConfig, RunInv, At, Configuration
<1> HIDE DEF new
<1> QED
  BY <1>2, <1>3, <1>5, <1>6, RunUpdate

LEMMA WriteManifestStep == ASSUME OneRun, IInv, NEW r \in Runs, WriteManifest(r) PROVE IInv'
<1> DEFINE new == [stage |-> "reading", client |-> run[r].client, found |-> run[r].found, runtime |-> run[r].runtime]
<1>1. At(r, "manifest") /\ RunOK(run[r]) /\ RunInv(run[r])
  BY DEF IInv, WriteManifest
<1>2. run' = [run EXCEPT ![r] = new]
  <2>1. [run[r] EXCEPT !.stage = "reading"] = new
    BY <1>1, RenderedGoto DEF RunOK, Early, At
  <2> HIDE DEF new
  <2> QED
    BY <2>1 DEF WriteManifest, Goto
<1>3. RunOK(new)
  BY DEF RunOK, Rendered, Early, Checking, Starting
<1>4. run'[r] = new
  BY <1>2 DEF IInv
<1>5. /\ manifest' = [client |-> run[r].client, runtime |-> run[r].runtime, fingerprint |-> config]
      /\ config' = config /\ config.client = run[r].client
  BY <1>1 DEF WriteManifest, RunInv, At, Configuration
<1>6. manifest' # None /\ ManifestOK' /\ Consistent'
  BY <1>5, RecordIsNotNone DEF ManifestOK, Consistent
<1>7. RunInv(run[r])'
  BY <1>4, <1>6 DEF RunInv, Checking, Starting
<1> HIDE DEF new
<1> QED
  BY <1>2, <1>3, <1>6, <1>7, RunUpdate DEF Consistent

LEMMA ReadStateStep == ASSUME OneRun, IInv, NEW r \in Runs, ReadState(r) PROVE IInv'
<1>1. PICK s \in {"probing", "stopping"} :
        /\ run' = [run EXCEPT ![r] = [stage |-> s, manifest |-> manifest, ownership |-> ownership]]
        /\ s = "probing" => manifest.runtime # None /\ manifest.runtime.fingerprint = manifest.fingerprint
  BY DEF ReadState
<1> DEFINE new == [stage |-> s, manifest |-> manifest, ownership |-> ownership]
<1>2. Consistent
  BY DEF ReadState, IInv, RunInv, At
<1>3. RunOK(new) /\ RunInv(new)
  BY <1>1, <1>2 DEF RunOK, RunInv, Checked, Early, Checking, Starting
<1> HIDE DEF new
<1>4. run' = [run EXCEPT ![r] = new]
  BY <1>1 DEF new
<1> QED
  BY <1>3, <1>4, QuietUpdate DEF ReadState

LEMMA WriteOwnershipStep == ASSUME OneRun, IInv, NEW r \in Runs, WriteOwnership(r) PROVE IInv'
<1> DEFINE new == [stage |-> "recording", manifest |-> run[r].manifest, pid |-> run[r].pid, token |-> run[r].token]
<1>1. At(r, "owning") /\ RunOK(run[r]) /\ RunInv(run[r])
  BY DEF IInv, WriteOwnership
<1>2. run' = [run EXCEPT ![r] = new]
  <2>1. [run[r] EXCEPT !.stage = "recording"] = new
    BY <1>1, StartedGoto DEF RunOK, Starting, At
  <2> HIDE DEF new
  <2> QED
    BY <2>1 DEF WriteOwnership, Goto
<1>3. RunOK(new)
  BY DEF RunOK, Started, Early, Checking, Starting
<1>4. run'[r] = new
  BY <1>2 DEF IInv
<1>5. Consistent' /\ UNCHANGED <<config, manifest>> /\ run[r].manifest = manifest /\ ownership' = Record(new)
  BY <1>1 DEF WriteOwnership, RunInv, At, Starting, Consistent, Recorded, Record
<1>6. ManifestOK' /\ (manifest # None => config.client = manifest.client)'
  BY <1>5 DEF IInv, ManifestOK
<1>7. RunInv(run[r])'
  BY <1>4, <1>5 DEF RunInv, Checking, Starting, Record
<1> HIDE DEF new
<1> QED
  BY <1>2, <1>3, <1>6, <1>7, RunUpdate

LEMMA WriteRuntimeStep == ASSUME OneRun, IInv, NEW r \in Runs, WriteRuntime(r) PROVE IInv'
<1> DEFINE new == [stage |-> "launching", manifest |-> run[r].manifest, pid |-> run[r].pid, token |-> run[r].token]
<1>1. At(r, "recording") /\ RunOK(run[r]) /\ RunInv(run[r]) /\ ManifestOK
  BY DEF IInv, WriteRuntime
<1>2. Consistent /\ run[r].manifest = manifest
  BY <1>1 DEF RunInv, At, Starting
<1>3. run' = [run EXCEPT ![r] = new]
  <2>1. [run[r] EXCEPT !.stage = "launching"] = new
    BY <1>1, StartedGoto DEF RunOK, Starting, At
  <2> HIDE DEF new
  <2> QED
    BY <2>1 DEF WriteRuntime, Goto
<1>4. RunOK(new)
  BY DEF RunOK, Started, Early, Checking, Starting
<1>5. run'[r] = new
  BY <1>3 DEF IInv
<1>6. manifest' = [client |-> manifest.client, runtime |-> Recorded(r), fingerprint |-> manifest.fingerprint]
  <2>1. manifest = [client |-> manifest.client, runtime |-> manifest.runtime, fingerprint |-> manifest.fingerprint]
    BY <1>1, <1>2 DEF ManifestOK, Consistent
  <2> QED
    BY <1>2, <2>1 DEF WriteRuntime
<1>7. manifest' # None /\ ManifestOK' /\ Consistent'
  BY <1>2, <1>6, RecordIsNotNone DEF ManifestOK, Consistent, WriteRuntime
<1>8. RunInv(run[r])'
  BY <1>5, <1>7 DEF RunInv, Checking, Starting
<1> HIDE DEF new
<1> QED
  BY <1>3, <1>4, <1>7, <1>8, RunUpdate DEF Consistent

(* Gateways do not touch the files. *)
LEMMA OtherStep == ASSUME IInv, UNCHANGED <<config, manifest, ownership, run>> PROVE IInv'
<1>1. Consistent' = Consistent /\ ManifestOK' = ManifestOK
  BY DEF Consistent, ManifestOK
<1>2. \A r \in Runs : RunOK(run[r])' /\ RunInv(run[r])'
  BY <1>1 DEF IInv, RunOK, RunInv, Rendered, Checked, Started
<1> QED
  BY <1>1, <1>2 DEF IInv

-----------------------------------------------------------------------------
LEMMA InitInv == Init => IInv
<1> SUFFICES ASSUME Init PROVE IInv
  OBVIOUS
<1>1. \A r \in Runs : run[r].stage = "idle"
  BY DEF Init
<1> QED
  BY <1>1 DEF Init, IInv, ManifestOK, RunOK, RunInv, Early, Checking, Starting, Ended

LEMMA StepInv == ASSUME OneRun, IInv, [Next]_vars PROVE IInv'
<1>1. CASE (\E p \in Pids : GatewayStep(p)) \/ UNCHANGED vars
  BY <1>1, OtherStep DEF GatewayStep, GatewayLoads, GatewayListens, GatewayDies, vars
<1>2. ASSUME NEW r \in Runs, Step(r) PROVE IInv'
  <2>1. CASE ProbeExisting(r)
    <3>1. CASE Goto(r, "stopping")
      BY <2>1, <3>1, Moves DEF ProbeExisting, At, Checking
    <3>2. CASE ~Goto(r, "stopping")
      BY <2>1, <3>2, Starts DEF ProbeExisting, At, Checking, Starting
    <3> QED
      BY <3>1, <3>2
  <2>2. CASE StopOwned(r)
    BY <2>2, Moves DEF StopOwned, At, Checking
  <2>3. CASE Spawn(r)
    <3>1. PICK p \in Pids :
            run' = [run EXCEPT ![r] = [stage |-> "waiting", manifest |-> @.manifest, pid |-> p, token |-> p]]
      BY <2>3 DEF Spawn
    <3>2. run[r].stage \in Checking /\ "waiting" \in Starting /\ UNCHANGED <<config, manifest, ownership>>
      BY <2>3 DEF Spawn, At, Checking, Starting
    <3> QED
      BY <3>1, <3>2, Starts
  <2>4. CASE WaitHealthy(r)
    BY <2>4, Moves DEF WaitHealthy, At, Starting
  <2>5. CASE SpawnFails(r) \/ GiveUp(r) \/ WriteFails(r) \/ Crash(r) \/ Prepared(r)
    BY <2>5, Stops DEF SpawnFails, GiveUp, WriteFails, Crash, Prepared
  <2>6. CASE Launch(r)
    <3>1. Consistent
      BY <2>6 DEF Launch, IInv, RunInv, At, Starting
    <3> QED
      BY <2>6, <3>1, Launches DEF Launch, Consistent
  <2>7. CASE SkipPreparation(r)
    BY <2>7, Launches DEF SkipPreparation
  <2> QED
    BY <1>2, <2>1, <2>2, <2>3, <2>4, <2>5, <2>6, <2>7, BeginStep, WriteConfigStep, WriteManifestStep,
       ReadStateStep, WriteOwnershipStep, WriteRuntimeStep DEF Step
<1> QED
  BY <1>1, <1>2 DEF Next

LEMMA SpecInv == ASSUME OneRun PROVE Spec => []IInv
BY InitInv, StepInv, PTL DEF Spec

-----------------------------------------------------------------------------
(* Only two steps write manifest.json, and neither changes the client.     *)
LEMMA ManifestStays ==
    ASSUME IInv, [Next]_vars
    PROVE  /\ UNCHANGED manifest \/ \E r \in Runs : WriteManifest(r) \/ WriteRuntime(r)
           /\ manifest # None => manifest' # None /\ manifest'.client = manifest.client
<1>1. UNCHANGED manifest \/ \E r \in Runs : WriteManifest(r) \/ WriteRuntime(r)
  BY DEF Next, Step, GatewayStep, GatewayLoads, GatewayListens, GatewayDies, vars, Begin,
     WriteConfig, ReadState, ProbeExisting, StopOwned, Spawn, SpawnFails, WaitHealthy, GiveUp, WriteOwnership,
     WriteFails, Crash, Launch, SkipPreparation, Prepared, LaunchAs
<1>2. ASSUME NEW r \in Runs, WriteManifest(r), manifest # None
      PROVE  manifest' # None /\ manifest'.client = manifest.client
  BY <1>2, RecordIsNotNone DEF WriteManifest, IInv, RunInv, At
<1>3. ASSUME NEW r \in Runs, WriteRuntime(r), manifest # None
      PROVE  manifest' # None /\ manifest'.client = manifest.client
  <2>1. run[r].manifest = manifest /\ ManifestOK
    BY <1>3 DEF WriteRuntime, IInv, RunInv, At, Starting
  <2>2. manifest = [client |-> manifest.client, runtime |-> manifest.runtime, fingerprint |-> manifest.fingerprint]
    BY <1>3, <2>1 DEF ManifestOK
  <2>3. manifest' = [client |-> manifest.client, runtime |-> Recorded(r), fingerprint |-> manifest.fingerprint]
    BY <1>3, <2>1, <2>2 DEF WriteRuntime
  <2> QED
    BY <2>3, RecordIsNotNone
<1> QED
  BY <1>1, <1>2, <1>3

(* Once there is a manifest its client stays, through crashes at any step. *)
THEOREM ClientIsStableHolds == ASSUME OneRun PROVE Spec => ClientIsStable
<1>1. IInv /\ [Next]_vars => [manifest # None => manifest'.client = manifest.client]_vars
  BY ManifestStays
<1> QED
  BY <1>1, SpecInv, PTL DEF Spec, ClientIsStable

-----------------------------------------------------------------------------
(* The gateways.  Whom nobody attends both files name, or it is lost; and  *)
(* whom they name has the configuration that is written down with it,      *)
(* unless another one had answered for it.                                 *)
States == {"unborn", "starting", "loaded", "serving", "stopping", "dead"}
GatewayOK(g) ==
    /\ "state" \in DOMAIN g /\ g.state \in States
    /\ g.state = "loaded" => g = [state |-> "loaded", config |-> g.config]
GatewaysOK == gateway = [p \in Pids |-> gateway[p]] /\ \A p \in Pids : GatewayOK(gateway[p])

Attending == {"waiting", "owning", "recording"}
Clean == Alive \ (lost \cup mistaken)
Fresh(p, fingerprint) == State(p) # "starting" /\ gateway[p].config = fingerprint
HeldInv == \A p \in Clean : Held(p) => Fresh(p, manifest.runtime.fingerprint)

Known(p) == p \in Pids /\ State(p) # "unborn"
Born ==
    /\ ownership # None => Known(ownership.pid)
    /\ manifest # None /\ manifest.runtime # None => Known(manifest.runtime.pid)

Loaded(p) == State(p) \in {"loaded", "serving"} \/ (State(p) = "stopping" /\ gateway[p].bound)
ClientInv ==
    \A p \in Pids :
        /\ State(p) # "unborn" => manifest # None
        /\ Loaded(p) => gateway[p].config.client = manifest.client

(* What a run knows of its gateway. *)
Care(x) ==
    /\ x.stage = "spawning" => Alive \subseteq lost
    /\ x.stage \in Attending => Known(x.pid) /\ Alive \subseteq lost \cup {x.pid}
    /\ x.stage = "waiting" /\ State(x.pid) \in {"loaded", "serving"} => gateway[x.pid].config = config
    /\ x.stage \in {"owning", "recording"} /\ x.pid \in Clean => Fresh(x.pid, x.manifest.fingerprint)

CareInv ==
    /\ GatewaysOK /\ HeldInv /\ Born /\ ClientInv /\ NothingUnattended
    /\ \A r \in Runs : Care(run[r])

(* A step of a gateway, a signal to one, or neither: none is spawned.      *)
Aged ==
    /\ GatewaysOK'
    /\ Alive' \subseteq Alive
    /\ \A p \in Pids :
          /\ State(p)' = "unborn" <=> State(p) = "unborn"
          /\ p \in Alive' /\ State(p) # "starting" =>
                State(p)' # "starting" /\ gateway'[p].config = gateway[p].config
          /\ State(p)' \in {"loaded", "serving"} =>
                \/ State(p) \in {"loaded", "serving"} /\ gateway'[p].config = gateway[p].config
                \/ gateway'[p].config = config /\ config' = config
          /\ Loaded(p)' =>
                \/ Loaded(p) /\ gateway'[p].config = gateway[p].config
                \/ gateway'[p].config = config /\ config' = config

LEMMA SameAged == ASSUME GatewaysOK, UNCHANGED gateway PROVE Aged
BY DEF GatewaysOK, Aged, Alive, State, Loaded

LEMMA OneGateway ==
    ASSUME GatewaysOK, NEW p \in Pids, NEW g, GatewayOK(g), gateway' = [gateway EXCEPT ![p] = g]
    PROVE  GatewaysOK' /\ gateway'[p] = g /\ \A q \in Pids \ {p} : gateway'[q] = gateway[q]
<1>1. gateway' = [q \in Pids |-> gateway'[q]] /\ gateway'[p] = g /\ \A q \in Pids \ {p} : gateway'[q] = gateway[q]
  BY DEF GatewaysOK
<1> QED
  BY <1>1 DEF GatewaysOK

LEMMA SignalledAged ==
    ASSUME GatewaysOK, NEW p, gateway' = Signalled(p)
    PROVE  Aged /\ p \notin Alive'
<1>1. CASE p \in Pids /\ gateway[p].state \in {"starting", "loaded", "serving"}
  <2> DEFINE g == [state |-> "stopping", bound |-> gateway[p].state = "serving",
                   config |-> IF gateway[p].state = "starting" THEN None ELSE gateway[p].config]
  <2>1. gateway' = [gateway EXCEPT ![p] = g]
    BY <1>1 DEF Signalled
  <2>2. /\ GatewayOK(g) /\ g.state = "stopping" /\ (g.bound => gateway[p].state = "serving")
        /\ gateway[p].state = "serving" => g.config = gateway[p].config
    BY DEF GatewayOK, States
  <2> HIDE DEF g
  <2>3. GatewaysOK' /\ gateway'[p] = g /\ \A q \in Pids \ {p} : gateway'[q] = gateway[q]
    BY <1>1, <2>1, <2>2, OneGateway
  <2> QED
    BY <1>1, <2>2, <2>3 DEF Aged, Alive, State, Loaded
<1>2. CASE ~(p \in Pids /\ gateway[p].state \in {"starting", "loaded", "serving"})
  <2>1. gateway' = gateway
    BY <1>2 DEF Signalled, GatewaysOK
  <2> QED
    BY <1>2, <2>1, SameAged DEF Alive, State
<1> QED
  BY <1>1, <1>2

LEMMA StepAged ==
    ASSUME GatewaysOK, NEW p \in Pids, GatewayStep(p)
    PROVE  Aged
<1>1. CASE GatewayLoads(p)
  <2> DEFINE g == [state |-> "loaded", config |-> config]
  <2>1. gateway' = [gateway EXCEPT ![p] = g] /\ State(p) = "starting" /\ config' = config
    BY <1>1 DEF GatewayLoads
  <2>2. GatewayOK(g) /\ g.state = "loaded" /\ g.config = config
    BY DEF GatewayOK, States
  <2> HIDE DEF g
  <2>3. GatewaysOK' /\ gateway'[p] = g /\ \A q \in Pids \ {p} : gateway'[q] = gateway[q]
    BY <2>1, <2>2, OneGateway
  <2> QED
    BY <2>1, <2>2, <2>3 DEF Aged, Alive, State, Loaded
<1>2. CASE GatewayListens(p) /\ Serving = {}
  <2> DEFINE g == [state |-> "serving", config |-> gateway[p].config]
  <2>1. gateway' = [gateway EXCEPT ![p] = g] /\ State(p) = "loaded"
    <3>1. gateway[p] = [state |-> "loaded", config |-> gateway[p].config]
      BY <1>2 DEF GatewayListens, State, GatewaysOK, GatewayOK
    <3>2. [gateway[p] EXCEPT !.state = "serving"] = g
      BY <3>1
    <3> QED
      BY <1>2, <3>2 DEF GatewayListens
  <2>2. GatewayOK(g) /\ g.state = "serving" /\ g.config = gateway[p].config
    BY DEF GatewayOK, States
  <2> HIDE DEF g
  <2>3. GatewaysOK' /\ gateway'[p] = g /\ \A q \in Pids \ {p} : gateway'[q] = gateway[q]
    BY <2>1, <2>2, OneGateway
  <2> QED
    BY <2>1, <2>2, <2>3 DEF Aged, Alive, State, Loaded
<1>3. CASE (GatewayListens(p) /\ Serving # {}) \/ GatewayDies(p)
  <2> DEFINE g == [state |-> "dead"]
  <2>1. gateway' = [gateway EXCEPT ![p] = g] /\ State(p) # "unborn"
    BY <1>3 DEF GatewayListens, GatewayDies
  <2>2. GatewayOK(g) /\ g.state = "dead"
    BY DEF GatewayOK, States
  <2> HIDE DEF g
  <2>3. GatewaysOK' /\ gateway'[p] = g /\ \A q \in Pids \ {p} : gateway'[q] = gateway[q]
    BY <2>1, <2>2, OneGateway
  <2> QED
    BY <2>1, <2>2, <2>3 DEF Aged, Alive, State, Loaded
<1> QED
  BY <1>1, <1>2, <1>3 DEF GatewayStep

-----------------------------------------------------------------------------
(* The files name the same gateway as before. *)
SameRecord ==
    /\ UNCHANGED ownership
    /\ manifest # None => manifest' # None /\ manifest'.client = manifest.client /\ manifest'.runtime = manifest.runtime
    /\ manifest = None /\ manifest' # None => manifest'.runtime = None

LEMMA SameHeld == ASSUME SameRecord, NEW p PROVE Held(p)' <=> Held(p)
BY DEF SameRecord, Held, CanStopOwnedRuntime

LEMMA Frame ==
    ASSUME CareInv, IInv', Aged, SameRecord, lost \subseteq lost', mistaken \subseteq mistaken'
    PROVE  HeldInv' /\ Born' /\ ClientInv'
<1>1. ASSUME NEW p \in Clean', Held(p)' PROVE Fresh(p, manifest.runtime.fingerprint)'
  <2>1. p \in Clean /\ p \in Alive' /\ p \in Pids
    BY <1>1 DEF Clean, Aged, Alive
  <2>2. Held(p)
    BY <1>1, SameHeld
  <2>3. Fresh(p, manifest.runtime.fingerprint) /\ manifest # None
    BY <2>1, <2>2 DEF CareInv, HeldInv, Held
  <2> QED
    BY <2>1, <2>3 DEF Fresh, Aged, SameRecord
<1>2. Born'
  BY DEF CareInv, Born, Known, Aged, SameRecord
<1>3. ClientInv'
  <2> SUFFICES ASSUME NEW p \in Pids
               PROVE  /\ State(p)' # "unborn" => manifest' # None
                      /\ Loaded(p)' => gateway'[p].config.client = manifest'.client
    BY DEF ClientInv
  <2>1. State(p)' # "unborn" => manifest # None /\ manifest' # None /\ manifest'.client = manifest.client
    BY DEF CareInv, ClientInv, Aged, SameRecord
  <2>2. Loaded(p)' => State(p)' # "unborn"
    BY DEF Loaded
  <2>3. manifest' # None => config'.client = manifest'.client
    BY DEF IInv
  <2>4. ASSUME Loaded(p)', Loaded(p), gateway'[p].config = gateway[p].config
        PROVE  gateway'[p].config.client = manifest'.client
    BY <2>1, <2>2, <2>4 DEF CareInv, ClientInv
  <2>5. ASSUME Loaded(p)', gateway'[p].config = config, config' = config
        PROVE  gateway'[p].config.client = manifest'.client
    BY <2>1, <2>2, <2>3, <2>5
  <2>6. Loaded(p)' =>
          \/ Loaded(p) /\ gateway'[p].config = gateway[p].config
          \/ gateway'[p].config = config /\ config' = config
    BY DEF Aged
  <2> QED
    BY <2>1, <2>4, <2>5, <2>6
<1> QED
  BY <1>1, <1>2, <1>3 DEF HeldInv

(* A gateway does something. *)
LEMMA GatewayCare ==
    ASSUME IInv, CareInv, IInv', Aged, UNCHANGED <<config, manifest, ownership, lost, mistaken, run>>
    PROVE  CareInv'
<1>1. SameRecord
  BY DEF SameRecord
<1>2. HeldInv' /\ Born' /\ ClientInv'
  BY <1>1, Frame
<1>3. NothingUnattended'
  BY <1>1, SameHeld DEF CareInv, NothingUnattended, Attended, Aged
<1>4. ASSUME NEW r \in Runs PROVE Care(run[r])'
  <2>1. Care(run[r])
    BY DEF CareInv
  <2> DEFINE x == run[r]
  <2>2. x.stage \in Attending => Known(x.pid)' /\ Alive' \subseteq lost' \cup {x.pid}
    BY <2>1 DEF Care, Aged, Known
  <2>3. x.stage = "waiting" /\ State(x.pid)' \in {"loaded", "serving"} => gateway'[x.pid].config = config'
    BY <2>1 DEF Care, Aged, Known, Attending
  <2>4. x.stage \in {"owning", "recording"} /\ x.pid \in Clean' => Fresh(x.pid, x.manifest.fingerprint)'
    <3>1. Clean' \subseteq Clean /\ Clean' \subseteq Alive' /\ Clean' \subseteq Pids
      BY DEF Clean, Aged, Alive
    <3> QED
      BY <2>1, <3>1 DEF Care, Aged, Fresh
  <2>5. x.stage = "spawning" => Alive' \subseteq lost'
    BY <2>1 DEF Care, Aged
  <2>6. x' = x
    OBVIOUS
  <2> HIDE DEF x
  <2> QED
    BY <2>2, <2>3, <2>4, <2>5, <2>6 DEF Care, Fresh, x
<1> QED
  BY <1>2, <1>3, <1>4 DEF CareInv, Aged

(* A run that has no gateway yet, or no longer, moves on. *)
LEMMA QuietCare ==
    ASSUME OneRun, IInv, CareInv, IInv', NEW r \in Runs, NEW s, UNCHANGED <<gateway, lost, mistaken>>, SameRecord,
           run[r].stage \notin Attending, run'[r].stage = s, s \notin Attending \cup {"spawning"}
    PROVE  CareInv'
<1>1. Aged
  BY SameAged DEF CareInv
<1>2. HeldInv' /\ Born' /\ ClientInv'
  BY <1>1, Frame
<1>3. \A q \in Runs : q = r
  BY DEF OneRun
<1>4. NothingUnattended'
  <2>1. \A p \in Alive : Held(p) \/ p \in lost
    BY <1>3 DEF CareInv, NothingUnattended, Attended, Attending
  <2> QED
    BY <1>1, <2>1, SameHeld DEF NothingUnattended, Aged
<1>5. \A q \in Runs : Care(run[q])'
  BY <1>3 DEF Care, Attending
<1> QED
  BY <1>1, <1>2, <1>4, <1>5 DEF CareInv, Aged

(* A run begins to take care of a gateway, or goes on taking care of it,   *)
(* and leaves the files alone.                                             *)
LEMMA AttendCare ==
    ASSUME OneRun, IInv, CareInv, IInv', NEW r \in Runs, UNCHANGED <<gateway, lost, manifest, ownership>>,
           mistaken \subseteq mistaken', run'[r].stage \in Attending, Care(run[r])'
    PROVE  CareInv'
<1>1. Aged /\ SameRecord
  BY SameAged DEF CareInv, SameRecord
<1>2. HeldInv' /\ Born' /\ ClientInv'
  BY <1>1, Frame
<1>3. \A q \in Runs : q = r
  BY DEF OneRun
<1>4. NothingUnattended'
  BY <1>3 DEF Care, NothingUnattended, Attended, Attending
<1> QED
  BY <1>1, <1>2, <1>3, <1>4 DEF CareInv, Aged

(* A run leaves its gateway, and every gateway is held or lost. *)
LEMMA LeaveCare ==
    ASSUME OneRun, IInv, CareInv, IInv', NEW r \in Runs, Aged, SameRecord, lost \subseteq lost', mistaken \subseteq mistaken',
           run'[r].stage \notin Attending, run'[r].stage = "spawning" => Alive' \subseteq lost',
           \A p \in Alive' : Held(p) \/ p \in lost'
    PROVE  CareInv'
<1>1. HeldInv' /\ Born' /\ ClientInv'
  BY Frame
<1>2. \A q \in Runs : q = r
  BY DEF OneRun
<1>3. NothingUnattended'
  BY SameHeld DEF NothingUnattended
<1>4. \A q \in Runs : Care(run[q])'
  BY <1>2 DEF Care, Attending
<1> QED
  BY <1>1, <1>3, <1>4 DEF CareInv, Aged

-----------------------------------------------------------------------------
LEMMA Went ==
    ASSUME IInv, NEW r \in Runs, NEW s, Goto(r, s), run[r].stage \in Early \cup Checking \cup Starting
    PROVE  /\ run'[r].stage = s
           /\ run[r].stage \in Starting => run'[r].pid = run[r].pid /\ run'[r].manifest = run[r].manifest
<1>1. RunOK(run[r]) /\ run'[r] = [run[r] EXCEPT !.stage = s]
  BY DEF IInv, Goto
<1> QED
  BY <1>1, RenderedGoto, CheckedGoto, StartedGoto DEF RunOK

LEMMA ProbeCare == ASSUME OneRun, IInv, CareInv, IInv', NEW r \in Runs, ProbeExisting(r) PROVE CareInv'
<1>1. /\ At(r, "probing") /\ RunInv(run[r]) /\ UNCHANGED <<config, manifest, ownership, gateway, lost, mistaken>>
  BY DEF IInv, ProbeExisting, history
<1>2. CASE Goto(r, "stopping")
  <2>1. run'[r].stage = "stopping"
    BY <1>1, <1>2, Went DEF At, Checking
  <2> QED
    BY <1>1, <2>1, QuietCare DEF At, Attending, SameRecord
<1>3. CASE run' = [run EXCEPT ![r] = [stage |-> "owning", manifest |-> @.manifest,
                                      pid |-> @.manifest.runtime.pid, token |-> @.manifest.runtime.token]]
  <2>1. run'[r].stage = "owning" /\ run'[r].pid = manifest.runtime.pid /\ run'[r].manifest = manifest
    BY <1>1, <1>3 DEF IInv, RunInv, At, Checking
  <2>2. manifest # None /\ manifest.runtime # None /\ manifest.runtime.fingerprint = manifest.fingerprint
    BY <1>1 DEF RunInv, At, Consistent, Checking
  <2>3. \A p \in Alive : Held(p) \/ p \in lost
    BY <1>1 DEF OneRun, CareInv, NothingUnattended, Attended, At
  <2>4. \A p \in Alive : Held(p) => p = manifest.runtime.pid
    BY DEF Held, CanStopOwnedRuntime
  <2>5. UNCHANGED <<Alive, Clean>> /\ \A p : Fresh(p, manifest.fingerprint)' <=> Fresh(p, manifest.fingerprint)
    BY <1>1 DEF Alive, Clean, State, Fresh
  <2>6. manifest.runtime.pid \in Clean => Fresh(manifest.runtime.pid, manifest.fingerprint)
    BY <2>2, <2>3 DEF CareInv, HeldInv, Clean
  <2>7. Known(manifest.runtime.pid)'
    BY <1>1, <2>2 DEF CareInv, Born, Known, State
  <2>8. Care(run[r])'
    BY <1>1, <2>1, <2>3, <2>4, <2>5, <2>6, <2>7 DEF Care
  <2> QED
    BY <1>1, <2>1, <2>8, AttendCare DEF Attending
<1> QED
  BY <1>2, <1>3 DEF ProbeExisting

LEMMA StopCare == ASSUME OneRun, IInv, CareInv, IInv', NEW r \in Runs, StopOwned(r) PROVE CareInv'
<1>1. /\ At(r, "stopping") /\ UNCHANGED <<config, manifest, ownership, lost, mistaken>>
      /\ run[r].manifest = manifest /\ run[r].ownership = ownership
  BY DEF IInv, StopOwned, history, RunInv, At, Checking, Starting
<1>2. run'[r].stage = "spawning"
  BY <1>1, Went DEF StopOwned, At, Checking
<1>3. \A p \in Alive : Held(p) \/ p \in lost
  BY <1>1 DEF OneRun, CareInv, NothingUnattended, Attended, At
<1>4. Aged /\ Alive' \subseteq lost'
  <2>1. CASE CanStopOwnedRuntime(manifest, ownership)
    <3>1. gateway' = Signalled(manifest.runtime.pid)
      BY <1>1, <2>1 DEF StopOwned
    <3>2. Aged /\ manifest.runtime.pid \notin Alive'
      BY <3>1, SignalledAged DEF CareInv
    <3>3. \A p \in Alive : Held(p) => p = manifest.runtime.pid
      BY DEF Held, CanStopOwnedRuntime
    <3> QED
      BY <1>1, <1>3, <3>2, <3>3 DEF Aged
  <2>2. CASE ~CanStopOwnedRuntime(manifest, ownership)
    <3>1. gateway' = gateway
      BY <1>1, <2>2 DEF StopOwned
    <3>2. \A p : ~Held(p)
      BY <2>2 DEF Held
    <3> QED
      BY <1>1, <1>3, <3>1, <3>2, SameAged DEF CareInv, Aged
  <2> QED
    BY <2>1, <2>2
<1> QED
  BY <1>1, <1>2, <1>4, LeaveCare DEF Attending, SameRecord

(* A gateway is born: the only step after which more are alive.            *)
LEMMA SpawnCare == ASSUME OneRun, IInv, CareInv, IInv', NEW r \in Runs, Spawn(r) PROVE CareInv'
<1>1. PICK p \in Pids :
        /\ State(p) = "unborn" /\ gateway' = [gateway EXCEPT ![p] = [state |-> "starting"]]
        /\ run' = [run EXCEPT ![r] = [stage |-> "waiting", manifest |-> @.manifest, pid |-> p, token |-> p]]
  BY DEF Spawn
<1>2. /\ At(r, "spawning") /\ UNCHANGED <<config, manifest, ownership, lost, mistaken>> /\ manifest # None
  BY DEF IInv, Spawn, history, RunInv, At, Checking, Consistent
<1> DEFINE g == [state |-> "starting"]
<1>3. gateway' = [gateway EXCEPT ![p] = g] /\ GatewayOK(g) /\ g.state = "starting"
  BY <1>1 DEF GatewayOK, States
<1> HIDE DEF g
<1>4. GatewaysOK' /\ State(p)' = "starting" /\ \A q \in Pids \ {p} : gateway'[q] = gateway[q]
  BY <1>3, OneGateway DEF CareInv, State
<1>5. run'[r].stage = "waiting" /\ run'[r].pid = p
  BY <1>1 DEF IInv
<1>6. Alive' \subseteq Alive \cup {p} /\ Alive \subseteq lost
  BY <1>2, <1>4 DEF Alive, State, CareInv, Care, At
<1>7. ~Held(p)' /\ \A q : Held(q)' <=> Held(q)
  BY <1>1, <1>2 DEF Held, CanStopOwnedRuntime, CareInv, Born, Known
<1>8. HeldInv'
  BY <1>2, <1>6, <1>7 DEF HeldInv, Clean
<1>9. Born'
  BY <1>2, <1>4 DEF CareInv, Born, Known, State
<1>10. ClientInv'
  BY <1>2, <1>4 DEF CareInv, ClientInv, Loaded, State
<1>11. NothingUnattended'
  BY <1>2, <1>5, <1>6 DEF NothingUnattended, Attended
<1>12. \A q \in Runs : Care(run[q])'
  BY <1>1, <1>2, <1>4, <1>5, <1>6 DEF Care, OneRun, Known, Attending
<1> QED
  BY <1>4, <1>8, <1>9, <1>10, <1>11, <1>12 DEF CareInv

LEMMA WaitCare == ASSUME OneRun, IInv, CareInv, IInv', NEW r \in Runs, WaitHealthy(r) PROVE CareInv'
<1>1. /\ At(r, "waiting") /\ UNCHANGED <<config, manifest, ownership, gateway, lost>>
      /\ run[r].manifest = manifest /\ config = manifest.fingerprint /\ Care(run[r])
  BY DEF IInv, WaitHealthy, RunInv, At, Checking, Starting, Consistent, CareInv
<1>2. run'[r].stage = "owning" /\ run'[r].pid = run[r].pid /\ run'[r].manifest = manifest
  BY <1>1, Went DEF WaitHealthy, At, Starting
<1>3. mistaken \subseteq mistaken' /\ (State(run[r].pid) # "serving" => run[r].pid \in mistaken')
  BY DEF WaitHealthy
<1>4. UNCHANGED Alive /\ \A p : Fresh(p, manifest.fingerprint)' <=> Fresh(p, manifest.fingerprint)
  BY <1>1 DEF Alive, State, Fresh
<1>5. Known(run[r].pid)' /\ Alive \subseteq lost \cup {run[r].pid}
  BY <1>1, <1>2 DEF Care, Attending, Known, At, State
<1>6. State(run[r].pid) = "serving" => Fresh(run[r].pid, manifest.fingerprint)
  BY <1>1 DEF Care, At, Fresh
<1>7. Care(run[r])'
  BY <1>1, <1>2, <1>3, <1>4, <1>5, <1>6 DEF Care, Clean
<1> QED
  BY <1>1, <1>2, <1>3, <1>7, AttendCare DEF Attending

LEMMA GiveUpCare == ASSUME OneRun, IInv, CareInv, IInv', NEW r \in Runs, GiveUp(r) PROVE CareInv'
<1>1. At(r, "waiting") /\ UNCHANGED <<config, manifest, ownership, lost, mistaken>>
  BY DEF GiveUp, history
<1>2. Aged /\ run[r].pid \notin Alive'
  BY SignalledAged DEF GiveUp, CareInv
<1>3. Alive \subseteq lost \cup {run[r].pid}
  BY <1>1 DEF CareInv, Care, At, Attending
<1>4. run'[r].stage = "failed"
  BY DEF GiveUp, IInv
<1> QED
  BY <1>1, <1>2, <1>3, <1>4, LeaveCare DEF Aged, Attending, SameRecord

(* The run that ends loses the gateway nobody else takes care of. *)
LEMMA EndCare ==
    ASSUME OneRun, IInv, CareInv, IInv', NEW r \in Runs, Loses(r), UNCHANGED <<config, manifest, ownership, gateway, mistaken>>,
           run'[r].stage \in {"idle", "failed"}
    PROVE  CareInv'
<1>1. Aged /\ SameRecord /\ lost \subseteq lost' /\ UNCHANGED Alive
  BY SameAged DEF CareInv, SameRecord, Loses, Alive, State
<1>2. \A p \in Alive : Held(p) \/ p \in lost'
  BY DEF OneRun, CareInv, NothingUnattended, Attended, Loses
<1> QED
  BY <1>1, <1>2, LeaveCare DEF Attending

LEMMA OwnershipCare == ASSUME OneRun, IInv, CareInv, IInv', NEW r \in Runs, WriteOwnership(r) PROVE CareInv'
<1>1. /\ At(r, "owning") /\ UNCHANGED <<config, manifest, gateway, lost, mistaken>> /\ Care(run[r])
      /\ run[r].manifest = manifest /\ ownership' = Recorded(r) /\ manifest # None
  BY DEF IInv, WriteOwnership, history, RunInv, At, Starting, Consistent, CareInv
<1>2. run'[r].stage = "recording" /\ run'[r].pid = run[r].pid /\ run'[r].manifest = manifest
  BY <1>1, Went DEF WriteOwnership, At, Starting
<1>3. Aged
  BY <1>1, SameAged DEF CareInv
<1>4. /\ UNCHANGED <<Alive, Clean>>
      /\ \A p : Known(p)' <=> Known(p)
      /\ \A p, f : Fresh(p, f)' <=> gateway'[p].config = f /\ State(p) # "starting"
  BY <1>1 DEF Alive, State, Clean, Known, Fresh
<1>5. /\ Known(run[r].pid) /\ Alive \subseteq lost \cup {run[r].pid}
      /\ run[r].pid \in Clean => Fresh(run[r].pid, manifest.fingerprint)
  BY <1>1 DEF Care, At, Attending
<1>6. HeldInv'
  <2> SUFFICES ASSUME NEW p \in Clean', Held(p)' PROVE Fresh(p, manifest.runtime.fingerprint)'
    BY DEF HeldInv
  <2>1. p = run[r].pid /\ manifest'.runtime.fingerprint = manifest.fingerprint
    BY <1>1 DEF Held, CanStopOwnedRuntime, Recorded
  <2>2. Fresh(p, manifest.fingerprint) /\ gateway' = gateway
    BY <1>1, <1>4, <1>5, <2>1
  <2> QED
    BY <2>1, <2>2 DEF Fresh, State
<1>7. Born'
  BY <1>1, <1>4, <1>5 DEF CareInv, Born, Recorded
<1>8. ClientInv'
  BY <1>1 DEF CareInv, ClientInv, State, Loaded
<1>9. NothingUnattended'
  BY <1>1, <1>2, <1>4, <1>5 DEF NothingUnattended, Attended
<1>10. Care(run[r])'
  BY <1>1, <1>2, <1>4, <1>5 DEF Care, Attending, Fresh
<1> QED
  BY <1>3, <1>6, <1>7, <1>8, <1>9, <1>10 DEF CareInv, Aged, OneRun

LEMMA RuntimeCare == ASSUME OneRun, IInv, CareInv, IInv', NEW r \in Runs, WriteRuntime(r) PROVE CareInv'
<1>1. /\ At(r, "recording") /\ UNCHANGED <<config, ownership, gateway, lost, mistaken>> /\ Care(run[r])
      /\ run[r].manifest = manifest /\ manifest # None /\ ManifestOK
      /\ ownership = Recorded(r)
  BY DEF IInv, WriteRuntime, history, RunInv, At, Starting, Consistent, CareInv, Record, Recorded
<1>2. manifest' = [client |-> manifest.client, runtime |-> Recorded(r), fingerprint |-> manifest.fingerprint]
  <2>1. manifest = [client |-> manifest.client, runtime |-> manifest.runtime, fingerprint |-> manifest.fingerprint]
    BY <1>1 DEF ManifestOK
  <2> QED
    BY <1>1, <2>1 DEF WriteRuntime
<1>3. manifest' # None /\ manifest'.client = manifest.client /\ manifest'.runtime = Recorded(r)
  BY <1>2, RecordIsNotNone
<1>4. run'[r].stage = "launching"
  BY <1>1, Went DEF WriteRuntime, At, Starting
<1>5. Aged /\ UNCHANGED <<Alive, Clean>> /\ (\A p : Known(p)' <=> Known(p))
  BY <1>1, SameAged DEF CareInv, Alive, Clean, State, Known
<1>6. /\ Known(run[r].pid) /\ Alive \subseteq lost \cup {run[r].pid}
      /\ run[r].pid \in Clean => Fresh(run[r].pid, manifest.fingerprint)
  BY <1>1 DEF Care, At, Attending
<1>7. Recorded(r).pid = run[r].pid /\ Recorded(r).fingerprint = manifest.fingerprint /\ Recorded(r) # None
  <2>1. "pid" \in DOMAIN Recorded(r) /\ "pid" \notin DOMAIN None
    BY DEF Recorded, None
  <2> QED
    BY <1>1, <2>1 DEF Recorded
<1>8. HeldInv'
  <2> SUFFICES ASSUME NEW p \in Clean', Held(p)' PROVE Fresh(p, manifest.runtime.fingerprint)'
    BY DEF HeldInv
  <2>1. p = run[r].pid /\ manifest'.runtime.fingerprint = manifest.fingerprint
    BY <1>1, <1>3, <1>7 DEF Held
  <2> QED
    BY <1>1, <1>5, <1>6, <2>1 DEF Fresh, State
<1>9. Born'
  BY <1>1, <1>3, <1>5, <1>6, <1>7 DEF Born
<1>10. ClientInv'
  BY <1>1, <1>3 DEF CareInv, ClientInv, State, Loaded
<1>11. \A p : p = run[r].pid => Held(p)'
  BY <1>1, <1>3, <1>7 DEF Held, CanStopOwnedRuntime
<1>12. NothingUnattended'
  BY <1>1, <1>5, <1>6, <1>11 DEF NothingUnattended
<1>13. Care(run[r])'
  BY <1>4 DEF Care, Attending
<1> QED
  BY <1>5, <1>8, <1>9, <1>10, <1>12, <1>13 DEF CareInv, Aged, OneRun

LEMMA InitCare == Init => CareInv
<1> SUFFICES ASSUME Init PROVE CareInv
  OBVIOUS
<1>1. \A p \in Pids : gateway[p] = [state |-> "unborn"]
  BY DEF Init
<1>2. GatewaysOK /\ Alive = {} /\ \A p \in Pids : State(p) = "unborn"
  BY <1>1 DEF Init, GatewaysOK, GatewayOK, States, Alive, State
<1> QED
  BY <1>2 DEF Init, CareInv, HeldInv, Clean, Born, ClientInv, Loaded, NothingUnattended, Care, Attending

LEMMA StepCare == ASSUME OneRun, IInv, CareInv, [Next]_vars PROVE CareInv'
<1>0. IInv' /\ GatewaysOK
  BY StepInv DEF CareInv
<1>1. CASE UNCHANGED vars
  BY <1>0, <1>1, SameAged, GatewayCare DEF vars, history
<1>2. ASSUME NEW p \in Pids, GatewayStep(p) PROVE CareInv'
  <2>1. UNCHANGED <<config, manifest, ownership, lost, mistaken, run>>
    BY <1>2 DEF GatewayStep, GatewayLoads, GatewayListens, GatewayDies, history
  <2> QED
    BY <1>0, <1>2, <2>1, StepAged, GatewayCare
<1>3. ASSUME NEW r \in Runs, Step(r) PROVE CareInv'
  <2>0. RunOK(run[r]) /\ RunInv(run[r]) /\ run = [q \in Runs |-> run[q]]
    BY DEF IInv
  <2>1. CASE Begin(r)
    <3>1. run'[r].stage = "config" /\ run[r].stage \notin Attending /\ UNCHANGED <<gateway, lost, mistaken, manifest, ownership>>
      BY <2>0, <2>1 DEF Begin, Rendering, Ended, Attending, history
    <3> QED
      BY <1>0, <3>1, QuietCare DEF SameRecord, Attending
  <2>2. CASE WriteConfig(r)
    <3>1. run'[r].stage = "manifest" /\ run[r].stage \notin Attending /\ UNCHANGED <<gateway, lost, mistaken, manifest, ownership>>
      BY <2>2, Went DEF WriteConfig, At, Early, Attending, history
    <3> QED
      BY <1>0, <3>1, QuietCare DEF SameRecord, Attending
  <2>3. CASE WriteManifest(r)
    <3>1. run'[r].stage = "reading" /\ run[r].stage \notin Attending /\ UNCHANGED <<gateway, lost, mistaken, ownership>>
      BY <2>3, Went DEF WriteManifest, At, Early, Attending, history
    <3>2. SameRecord
      BY <2>0, <2>3, RecordIsNotNone DEF WriteManifest, At, RunInv, SameRecord
    <3> QED
      BY <1>0, <3>1, <3>2, QuietCare DEF Attending
  <2>4. CASE ReadState(r)
    <3>1. run'[r].stage \in {"probing", "stopping"} /\ run[r].stage \notin Attending
          /\ UNCHANGED <<gateway, lost, mistaken, manifest, ownership>>
      BY <2>0, <2>4 DEF ReadState, At, Attending, history
    <3> QED
      BY <1>0, <3>1, QuietCare DEF SameRecord, Attending
  <2>5. CASE SpawnFails(r)
    <3>1. run'[r].stage = "failed" /\ run[r].stage \notin Attending /\ UNCHANGED <<gateway, lost, mistaken, manifest, ownership>>
      BY <2>0, <2>5 DEF SpawnFails, At, Attending, history
    <3> QED
      BY <1>0, <3>1, QuietCare DEF SameRecord, Attending
  <2>6. CASE Launch(r) \/ SkipPreparation(r) \/ Prepared(r)
    <3>1. run'[r].stage \in {"ready", "skipped", "idle"} /\ run[r].stage \notin Attending
          /\ UNCHANGED <<gateway, lost, mistaken, manifest, ownership>>
      BY <2>0, <2>6 DEF Launch, SkipPreparation, Prepared, LaunchAs, At, Attending, history
    <3> QED
      BY <1>0, <3>1, QuietCare DEF SameRecord, Attending
  <2>7. CASE WriteFails(r) \/ Crash(r)
    <3>1. run'[r].stage \in {"idle", "failed"}
      BY <2>0, <2>7 DEF WriteFails, Crash
    <3> QED
      BY <1>0, <2>7, <3>1, EndCare DEF WriteFails, Crash
  <2> QED
    BY <1>0, <1>3, <2>1, <2>2, <2>3, <2>4, <2>5, <2>6, <2>7, ProbeCare, StopCare, SpawnCare, WaitCare, GiveUpCare,
       OwnershipCare, RuntimeCare DEF Step
<1> QED
  BY <1>1, <1>2, <1>3 DEF Next

LEMMA SpecCare == ASSUME OneRun PROVE Spec => []CareInv
BY InitInv, StepInv, InitCare, StepCare, PTL DEF Spec

-----------------------------------------------------------------------------
(* A run that has come through to a gateway finds in config.yaml and in    *)
(* manifest.json the same configuration and the same client, and every     *)
(* gateway that answers has that client.                                   *)
THEOREM ReadyIsConsistentHolds == ASSUME OneRun PROVE Spec => []ReadyIsConsistent
<1>1. IInv /\ CareInv => ReadyIsConsistent
  <2> SUFFICES ASSUME IInv, CareInv PROVE ReadyIsConsistent
    OBVIOUS
  <2>1. \A r \in Runs : run[r].stage \in {"waiting", "owning", "recording", "launching", "ready"} => Consistent
    BY DEF IInv, RunInv, Starting
  <2>2. \A p \in Serving : gateway[p].config.client = manifest.client
    BY DEF CareInv, ClientInv, Serving, Loaded
  <2>3. \A r \in Runs : run[r].stage \in {"ready", "skipped"} => run[r].client = manifest.client
    BY DEF IInv, RunInv
  <2> QED
    BY <2>1, <2>2, <2>3 DEF ReadyIsConsistent, Consistent
<1> QED
  BY <1>1, SpecInv, SpecCare, PTL

(* A gateway that lives is attended, named by both files, or was lost by a *)
(* run that was killed or could not write it down.                         *)
THEOREM NothingUnattendedHolds == ASSUME OneRun PROVE Spec => []NothingUnattended
<1>1. CareInv => NothingUnattended
  BY DEF CareInv
<1> QED
  BY <1>1, SpecCare, PTL

(* A run goes on with a gateway that has another configuration only if     *)
(* that one was told to stop, was lost, or was written down on another's   *)
(* answer: what it has waited for has read the file since, and what the    *)
(* files name had answered when it was written down.                       *)
THEOREM StaleOnlyLingersHolds == ASSUME OneRun PROVE Spec => StaleOnlyLingers
<1>1. IInv /\ CareInv /\ [Next]_vars =>
        [\A r \in Runs : Answered(r) =>
            \A p \in Serving \ (lost \cup mistaken) :
                gateway[p].config = run[r].manifest.fingerprint \/ State(p) = "stopping"]_vars
  <2> SUFFICES ASSUME IInv, CareInv, NEW r \in Runs, Answered(r),
                      NEW p \in Serving, p \notin lost \cup mistaken, State(p) # "stopping"
               PROVE  gateway[p].config = run[r].manifest.fingerprint
    OBVIOUS
  <2>1. p \in Clean /\ State(p) = "serving"
    BY DEF Serving, Clean, Alive
  <2>2. run[r].manifest = manifest /\ Consistent
    BY DEF Answered, IInv, RunInv, Checking, Starting
  <2>3. CASE run[r].stage = "waiting"
    <3>1. p = run[r].pid
      BY <2>1, <2>3 DEF CareInv, Care, Attending, Clean
    <3> QED
      BY <2>1, <2>2, <2>3, <3>1 DEF CareInv, Care, Consistent
  <2>4. CASE run[r].stage = "probing"
    <3>1. Held(p)
      BY <2>1, <2>4 DEF OneRun, CareInv, NothingUnattended, Attended, Clean
    <3>2. gateway[p].config = manifest.runtime.fingerprint
      BY <2>1, <3>1 DEF CareInv, HeldInv, Fresh
    <3>3. manifest.runtime.fingerprint = manifest.fingerprint
      BY <2>4 DEF IInv, RunInv
    <3> QED
      BY <2>2, <3>2, <3>3
  <2> QED
    BY <2>3, <2>4 DEF Answered
<1> QED
  BY <1>1, SpecInv, SpecCare, PTL DEF Spec, StaleOnlyLingers
=============================================================================
