# Verification of hiclaw-controller

HiClaw runs AI agents ("workers", grouped in teams, led by a "manager", talked to
by "humans") as containers. `hiclaw-controller` (Go, `src/hiclaw-controller`) is the
operator that keeps them: users write custom resources (CRs), reconcilers turn
them into Matrix accounts and rooms, gateway consumers, object-storage users,
files and containers, and an HTTP API lets agents and operators act directly. This
directory models that controller in TLA+, model-checks it with TLC and proves
its safety properties with TLAPS. Paths below are relative to
`src/hiclaw-controller/internal`.

## 1. Inventory

| Component | State it keeps | Operations | Interacts with |
|---|---|---|---|
| Worker reconciler (`controller/worker_controller.go`, `member_reconcile.go`) | Worker CR: `spec`, `metadata.generation`, finalizer, `status.{observedGeneration,phase,matrixUserID,exposedPorts,...}` | `Reconcile`: finalizer, infra, config, container, expose, legacy, deferred status patch; `reconcileDelete` | informer cache, API server, backend, provisioner, deployer |
| Lifecycle API (`server/lifecycle_handler.go`) | in-memory readiness map | Wake, Sleep, EnsureReady, Ready, GetWorkerRuntimeStatus | the same CR and the same container, concurrently with the reconciler |
| Backends (`backend/*.go`) | the container or Pod of a name | Create, Delete, Start, Stop, Status | Docker daemon, Kubernetes |
| Manager reconciler (`controller/manager_*.go`) | Manager CR with `status.welcomeSent` | as the Worker's, plus the first-boot welcome | Matrix, gateway |
| Team reconciler (`controller/team_controller.go`) | Team CR, `status.members[]` with spec hashes | rooms, stale members, members, status | member phases shared with the Worker |
| Human reconciler (`controller/human_*.go`) | Human CR, `status.rooms`, initial password | Matrix account, invite, join, kick | Matrix; the Team pass that owns the room |
| Provisioner and credentials (`service/provisioner*.go`, `credentials.go`) | stored secrets, Matrix accounts, rooms, MinIO users, consumers, ServiceAccounts | Provision, Refresh, Deprovision, Ensure... | Matrix, Higress or the cloud gateway, MinIO/OSS |
| Gateway clients (`gateway/*.go`) | consumers and `allowedConsumers` of AI routes; a process-wide lock | EnsureConsumer, Authorize, Deauthorize, EnsureAIRoute | the console, which writes the same routes |
| Deployer and packages (`service/deployer.go`, `executor/*.go`) | package cache, the agent's local directory and storage prefix | resolve, download, seed, merge, push | the running agent, which writes the same prefix |
| Legacy registries (`service/legacy.go`) | JSON registries, Manager's `groupAllowFrom` | read-modify-write under a mutex | object storage, Manager agent |
| File watcher (`watcher`) | content hash per file, pending events | InitialSync, debounce, upsert, delete | API server |
| Start-up (`app`, `initializer`, `migration`) | none of its own | wiring, one-shot initialisation, import of registries | everything |
| Auth and STS (`auth`, `credprovider`, `credentials`, `accessresolver`) | token-review cache, cached STS token | authenticate, authorize, issue | Kubernetes, credential provider |
| HTTP resource API, CLI, proxy, clients | none | CRUD and forwarding | API server, external services |
| Worker runtimes (`copaw`, `hermes`), Manager agent, Helm, install scripts | files mirrored with object storage | sync, Matrix channel | controller API, object storage |

What makes the system hard:

* **Stale reads.** Reconcilers and handlers read through `mgr.GetClient()`, an
  informer cache that is several writes behind in the worst case. Decisions about
  deleting a running container are taken from such a copy.
* **Status writers without a lock.** The deferred status patch
  (`client.MergeFrom`) carries no `resourceVersion`. It carries one by accident
  when an earlier write in the same reconcile (the finalizer) refreshed the
  working copy and not the patch base: then it is refused after any other write.
* **Several actors on one thing.** Reconciler, lifecycle handlers and the
  container's own life on a container; Human and Team reconcilers on a room;
  deployer and agent on a file; controllers and console on an AI route; every
  reconciler on the shared registries.
* **Partial failure.** Every call may fail and the process may stop between any
  two calls. Some failures are errors, some are swallowed (a lost Docker ping, a
  failed delete in a finalizer, a read of storage that "does not exist").
* **Records that lag behind deeds.** What was created is found again only through
  a status patch, a saved secret or a registry row that is written afterwards.
* **Side effects that cannot be repeated.** The welcome message, a password reset.

What correctness means, per component:

* Worker and Manager: no container without its CR; an observed generation is the
  one that runs; a healthy container is not killed for nothing; status does not
  move back; in the end the container and the status match the spec.
* Manager welcome: not forgotten, and repeated only where the claim could not be seen.
* Team: as for workers, per member; a removed member leaves nothing; an edit of one
  member disturbs no other; one broken member does not stop the rest.
* Human: room memberships equal the access list in the end; no password reset
  after the first provisioning.
* Provisioning: a secret in use is a secret that is stored; what was created is
  found again by the next attempt and removed by deletion; authorizing one
  consumer changes nobody else's authorization.
* Deployment: the spec's configuration arrives; what the agent wrote is kept; shared
  files lose no entry; a routed port is recorded where its removal will look for it.
* Process: files reach resources; a restart, an import or the initializer undoes
  nothing the user did, and start-up completes although services come up late.

`PROJECT.json` lists every component and every hazard with its line and the
property that covers it.

## 2. Modules

| Module | Models | Run with |
|---|---|---|
| `Backend` | one named container under the calls of the `WorkerBackend` interface, for Docker and for Kubernetes | the three container controllers |
| `KubeApi` | external: API server and informer for one CR (versions, merge patch, optimistic lock, finalizers, late cache) | Worker, Manager, Team, Human, Deploy |
| `WorkerController` | `WorkerReconciler` and the lifecycle handlers for one standalone Worker | `MCWorkerController` |
| `WorkerProofs`, `ManagerProofs`, `TeamProofs`, `HumanProofs` | theorems about the four reconcilers | |
| `RouteProofs`, `ProvisioningProofs` | theorems about the AI routes of `Provisioning`, and with them about its secrets and its teardown | |
| `DeployProofs` | theorems about `Deploy` and the shared files of `LegacyFiles` | |
| `ProcessProofs` | theorems about `ConfigFiles` and `ControllerProcess` | |
| `ManagerController` | `ManagerReconciler` with the welcome | `MCManagerController` |
| `TeamController` | `TeamReconciler` with its members' containers, configs and registry rows; composes `Backend` (one container per member) and `KubeApi` | `MCTeamController` |
| `RouteSets` | abstract specification: an AI route is a set of consumers, a step changes one consumer's authorizations | refined by `Provisioning` |
| `AIRoutes` | `modifyAIRoutes`: read and write whole routes under `aiRouteMu`, with 409 retries and a foreign writer | `Provisioning` |
| `Provisioning` | `Provisioner` for a worker and a Manager whose passes interleave; composes `AIRoutes` | `MCProvisioning` |
| `HumanRooms` | `HumanReconciler`, the homeserver's admin bot and the Team pass that sets the members of its room | `MCHumanRooms` |
| `LegacyFiles` | `LegacyCompat`: registries and `groupAllowFrom`, read-modify-write under one mutex | `Deploy` |
| `Deploy` | one pass's package, config, file, expose and legacy steps against a running agent and other reconcilers; composes `LegacyFiles` and `KubeApi` | `MCDeploy` |
| `ConfigFiles` | the file watcher: scan, fsnotify, debounce, hashes, upserts | `ControllerProcess` |
| `ControllerProcess` | start, stop and restart of the embedded process: initializer, migration, watcher, and the passes and finalizers that feed the registries; composes `ConfigFiles` | `MCControllerProcess` |

### 2.1 Worker and Manager

`api` is the CR in the API server, `cache` the informer's copy, `watch`
the versions in between. `w` (or `m`) is the variable `worker` (`mgr`) of
`Reconcile`, `base` its `patchBase`, `err` is `reterr # nil`, `changed` is
`MemberContext.SpecChanged`, `pc` the next call of the reconcile in progress. `ctr`
is the container; `ctr.gen` and `ctr.atObs` record the generation and the observed
generation in the copy that created it and exist for the properties only. `hs`
holds the lifecycle requests in progress. `faults` counts injected failures.

A reconcile is cut where another actor can come in between: at each
call that reads or writes the API server or the container. `Begin` is the cached
`Get` and the choice of the branch; `AddFinalizer`, `Infra`, `ReconcileContainer`,
`KillContainer`, `StartContainer`, `CreateContainer`, `PatchStatus` are the calls
of the normal path; `Cleanup` and `RemoveFinalizer` those of deletion.
controller-runtime runs at most one reconcile of an object at a time, and leader
election keeps a single controller, so there is one `pc`. `Infra` stands for
provisioning, model-provider authorization, service account and config together:
none of them touches the container or the CR (they are the subject of
`Provisioning` and `Deploy`), and a failure after the first one
still records the Matrix id in the working copy.

Worker and Manager differ where the code does: the Worker adds its finalizer
with `Patch`, the Manager with `Update`; the Worker gates the spec-change test on
`observedGeneration > 0`, the Manager does not; the Manager's reconcile may write the
status twice (claim and deferred patch).

### 2.2 Team

A member's source spec is a version number and `hashMemberSourceSpec` is that number,
0 the empty hash. The steps of a pass are `Begin`, `AddFinalizer`, `MarkPending` (its
patch refreshes the working copy), `TeamInfra` (rooms), `CleanStale`,
`ReconcileMember(m)` for each desired member in any order, `Summarise` and
`PatchStatus`, which replaces the members array as a whole; `HandleDelete` and
`RemoveFinalizer` are deletion. All calls for one member are one step, since
nobody else touches that member's resources. A lost Docker ping (`"detect"`) is an alternative of
`ReconcileMember` of its own: no container call is made and the member's hash is stored all the
same. `Summarise` may fail to read the status of any members (`"status"`): these keep `ready`
and do not count for the phase.

### 2.3 Provisioning

One process per CR, with its own `pc`: `LoadOrGenerate`, `Register` (register, else
login, else reset through the admin bot: `Recover`), `Storage`, `Room`, `Consumer`,
`Ensure`, `Authorize`, the route steps, `Finish`; `Refresh` on later passes; on
deletion `LeaveRooms`, `Deauthorize`, `Cleanup`, `Finalize`. A secret is a number;
`held` is what the agent's deployed configuration contains. The AI routes are those
of `AIRoutes`: one GET and one PUT per route, each of which may fail, be refused with
409 or meet the console's write. `RouteSets` says what this should amount to and
`RoutesAtomic` is the refinement with `allowed <- routes`.

### 2.4 Human

`Begin`, registration or login, desired rooms, invite, join, kick, display
name, registry row, status patch, finalizer; deletion. Passwords are
numbers; commands to the admin bot wait in `botq` and run later, also after the CR
they were meant for is gone. `Sweep` is `ReconcileRoomMembershipWithActorToken` of
the room's owner, split into its read of the members and its kick. `env.led` are the rooms of
Teams with their own admin: `AdminLeaves` is the global admin leaving such a room at the end of
`ProvisionTeamRooms`, `left` the rooms it has left; afterwards an invite is refused, and a kick
is refused or, where the homeserver's text is one of those that `KickFromRoomWithToken` takes
for "not in the room" (a 404, or 403 with "not in", "not a member" or "cannot kick"), counted as
done. In other rooms the admin has the power to kick and these texts mean what they say. How late a
pass may read is `env.lag`: not at all, late but never behind the account (`"account"`: what the
status says of the account has arrived before the next pass begins), or any version.

### 2.5 Deployment

One pass: infra, resolve, download, package, inline config, local seed,
`openclaw.json`, SOUL.md, AGENTS.md, container, expose, coordination context, legacy,
end. A read and the write that depends on it are two steps. A file is
reduced to who wrote it last (`Authors`), AGENTS.md to its three sections. `api`, `cache` and
`watch` are the resource as in the other reconcilers: `Begin` and `BeginDelete` read the cache
(`ReadsCache`), from which spec, phase and exposed ports come (`Copy`), `AddFinalizer` gets the
current version back, and `End` patches the status against the copy it started from. The history
`recorded` says that every pass so far read the status as it was in the API server and had its
patch accepted. The first, empty `Pending` patch of a Team is left out: it only refreshes the
copy. Storage reads fail the way
`oss/minio.go` reports them: as "does not exist".

### 2.6 Process

`New` runs the file scan with a client whose cache is not started, `Start` starts
manager, watcher and initializer; the initializer's steps follow `Initializer.Run`
with its fatal and its logged errors; `LoadRegistries` and the create steps are
the migration; `TeamMembers`/`TeamRow`, `WorkerPass` and `Finalize` keep the registry
rows. A resource's spec is a version; `asked` and `had` are histories for the
properties, `overlap` records that the migration met a pass or a deletion half done.

### 2.7 Failures

Failures are named by kind and bounded by `MaxFaults`. In the Worker and
Manager modules the kinds are the constant `Faults`. The later modules choose in `Init` a
record `env` from `Envs`: the circumstances of one behaviour (which failures may happen,
how late the cache is, which other actors are about, what was there before). A run
therefore covers several environments at once, and each property says in its
antecedent in which of them it is claimed; every antecedent holds in some environment of
the run. The kinds are listed with a comment in each module (`FaultKinds`, `Env`);
for Worker and Manager:

| Kind | What fails |
|---|---|
| `api` | a write to the API server |
| `infra` | a provisioning or config call |
| `backend` | a status, delete, stop or start call |
| `create` | a create call, possibly half way (Docker: nothing done, old container removed, or created and not started) |
| `delete` | the container delete inside the finalizer, which the code ignores |
| `detect` | the Docker ping of `Available`, after which the code sees no backend |
| `send` | a Matrix or gateway call of the welcome |
| `exit` | the container stops, or reaches an unknown state |
| `crash` | the controller restarts and lists the CR afresh |

## 3. Runs

| Run | Checks | Shows |
|---|---|---|
| `worker_k8s` | `TypeOK`, `ObservedContainerIsCurrent`, `ObservedNeverRegresses`, `Converges` | with one failure of any kind (restart included), an edit and a late cache, the observed generation is the one the Pod was built from, it never moves back, and the worker is gone or ends in a Pod of its last generation, if that was not edited before any was observed |
| `worker_docker` | `NoOrphanContainer`, `FirstContainerSurvives`, `Converges` | with a wake or sleep request that interleaves with the reconciler at every point, a failing backend call, an exit or a restart, unmanaged workers included: no container outlives its CR, until the first edit no live container is killed, and container and generation are the spec's in the end |
| `manager_lag` | `TypeOK`, `ObservedMeansCurrent`, `RepeatsNeedUnseenClaim` | on Kubernetes with any staleness, a failure, edits and a restart: without the gate the observed generation is right even when the cache is late, and the welcome is repeated only by a reconcile that began before its cache showed the claim |
| `manager_live` | `Converges`, `WelcomeClaimed` | on Docker with a late cache, a failing call, an exit and a restart the Manager ends in a container of its current generation and with the welcome claimed |
| `team` | `TypeOK`, `HashMeansCurrent`, `MembersTracked`, `PeersUndisturbed`, `Converges` | stored hashes name what the containers run, also after lost patches, creations and restarts; containers stay reachable from the Team; an edit of one member recreates no other; the Team converges around a member that can never start |
| `provision` | `TypeOK`, `SecretsPersisted`, `NothingLeft`, `RoutesAtomic`, `Provisioned` | secrets in use are the stored ones whatever is lost; a deleted CR leaves no access unless others write the routes as often as a removal is tried; routes behave as sets changed atomically; in the end every agent holds what the services accept, also under a name used before |
| `human` | `TypeOK`, `RecordedIsJoined`, `PasswordKept`, `Admitted`, `Revoked` | a recorded room is a joined one; no pass that has received the account resets its password; granted access is given and revoked access taken in the end |
| `deploy` | `TypeOK`, `PortsTracked`, `DeletedLeavesNothing`, `OthersEntriesKept`, `AgentOwnsItsFiles`, `Deployed` | passes keep what the agent and the user wrote; a worker's pass and a Team's or the Manager's reconciler that rewrite the shared files in every interleaving lose nobody's entry; an open port is recorded as long as passes read what was recorded; deletion leaves no object, row or right, and then no port; the spec is applied in the end, through failing reads and writes, races, restarts and late reads |
| `process` | `TypeOK`, `OnlyWanted`, `NoSpecReturns`, `AuthorizationKept`, `FilesFollowed`, `BootsUp` | over a restart, files reach resources, an unchanged file undoes no edit, the migration revives nothing, the initializer keeps the routes' consumers, and the Manager is made although gateway calls fail |
| `manager_welcome_twice` | violation of `WelcomeAtMostOnce` | the claim patch has no `resourceVersion`: with a late cache alone two claims succeed |
| `human_reset` | violation of `PasswordNeverReset` | a late read resets the password that the user has changed |
| `process_restart` | violation of `FilesSynced` | a file edited while the process is down is never applied |

The violations are the findings of `PROJECT.json`. No deadlock is checked: a deleted CR and a
process without further edits are legal ends.

**Bounds.** Worker and Manager: one CR and one container (the reconcilers share
nothing between CRs in these phases), `MaxGen` 2 (a spec and an edit:
a stale copy needs two versions), `MaxFaults` 1, `MaxSent` 2 where the welcome is counted (one repetition; `unseen` counts as far) and 0 where it is not. Team: a leader and one
worker, two edits over three versions (add, edit, remove, restore); two members suffice for
every property, which relates one member to the Team or to one peer. Provisioning: one
worker and one Manager on two routes, of which the worker may use one, two lives of a name,
three secrets, up to two console edits and two tries per PUT (the code has five; a retry that
succeeds and one that is the last both occur: with two edits a removal may be refused on every
try, with one it is not). Human: two rooms, one there from the start and one
that appears, two lives. Deploy: two specs that differ in
configuration and in the port they expose, so that an edit closes one port and opens the other (the
deletion closes what is open; `deploy_ports` adds a spec without ports), one edit, one agent write,
two of the three reconcilers of the shared files at a time (`EntriesKept` is proved for all of them at once). Process: one file, four names (file, renamed, team, member),
three versions, two queued events, one restart. One failure per behaviour:
a second one of the same kind meets the state the first one left for the retry. The lost Docker ping
(`"detect"`) is a fault of no Worker or Manager run, since it breaks `ObservedContainerIsCurrent` and
`Converges` (`worker_undetected`); `NoOrphan`, `FirstContainerKept` and `WelcomeRepeats` are proved with it.

**Stated assumptions on the cache.** `ReadsFinalizer = TRUE` says that the
finalizer write reaches the cache before the next reconcile of the same CR
begins. Without it a reconcile may read the CR without its finalizer a second
time; its finalizer patch then refreshes the working copy beyond the cache while
the patch base stays old, and `ObservedContainerIsCurrent` and
`ObservedNeverRegresses` fail. Both runs of the Worker assume it; `NoOrphan` and
`FirstContainerKept` are proved without it. The Manager's runs assume nothing of the cache. In `team`, `env.lag = "patches"` lets reads be late once the first status patch has
been delivered; `HashMeansCurrent` and `MembersTracked` are not claimed there. `HumanRooms` has the three
levels of section 2.4; `PasswordKept` is claimed for the first two, `RecordedIsJoined` and
`Revoked` for current reads, `Admitted` for any. In `Deploy`, reads may be arbitrarily late
where `env.lag` says so; `recorded` is what the properties about ports and plugin entries assume
of them.

**Fairness** (`FairSpec`). Weak fairness of the reconcile steps: every reconcile
is followed by another, by `RequeueAfter` on success and by the rate-limited queue
on error. Weak fairness of the watch, of a handler that has begun, and of a
Pod's start, termination and garbage collection; of the admin bot's queue; of a call to
storage that has begun; of the supervisor's restart, the process's goroutines and
services coming up. Strong fairness where a step waits for a mutex that others take
in between (`aiRouteMu`, `LegacyCompat.mu`): Go's `sync.Mutex` lets no waiter starve. For
the welcome, the agent joins the room in the end, although its container may be recreated
meanwhile (strong fairness, since joining is possible only while it runs), and the gateway
picks the key up. Nothing is assumed about users, the agent, the console and
failures: the liveness properties say that once they stop, which the bounds make
certain, the system settles. One bound hides a behaviour of its own: files touched for ever
at intervals below 500 ms would postpone the watcher's debounce for ever.

### 3.1 Reproduction configurations

These configurations are expected to end in a violation. Each documents a behaviour of the
code that a run above excludes by an assumption, besides the three that are runs themselves, and
is kept so that a fix can be tried against it: `tlc -config <name>.cfg <module>`. `deploy_ports.cfg`
with `Envs <- MCEnvsOneFailure` and `MaxFaults = 1` is another: a pass that fails early with an
empty `spec.expose` resets `status.exposedPorts`.

| Configuration | Module | Violated | Behaviour |
|---|---|---|---|
| `worker_stale` | `MCWorkerController` | `ObservedMeansCurrent` | an edit made before the first accepted status patch is recorded as observed and never rolled out (the gate `observedGeneration > 0`) |
| `worker_undetected` | `MCWorkerController` | `ObservedContainerIsCurrent` | a lost Docker ping records an edit that was not rolled out |
| `worker_respawn` | `MCWorkerController` | `RecreateMeansDiffers` | a late `observedGeneration` makes a reconcile recreate a Pod that is current |
| `worker_created` | `MCWorkerController` | `Converges` | Docker creates a container and fails to start it; status "created" counts as starting for ever |
| `manager_first_container` | `MCManagerController` | `FirstContainerSurvives` | with a late cache the second reconcile deletes the first container |
| `team_orphan` | `MCTeamController` | `MembersNeverOrphaned` | a member whose status patch was lost and that is removed from the spec keeps its container |
| `team_hash` | `MCTeamController` | `HashAlwaysCurrent` | a member is removed while its cleanup fails and added again: its empty hash counts as unchanged, and the first patch records the new hash over the old container |
| `team_undetected` | `MCTeamController` | `HashAlwaysCurrent` | a lost Docker ping stores a member's new hash over its old container |
| `team_flap` | `MCTeamController` | `ActiveDoesNotFlap` | a backend that cannot be reached for the summary puts an Active Team back to Pending |
| `human_kicked` | `MCHumanRooms` | `AccessKept` | a Team's pass kicks a Human who has access through its own spec, and nobody invites again |
| `human_led` | `MCHumanRooms` | `AccessJoined` | in a Team with its own admin the global admin has left the room and cannot invite |
| `deploy_ports` | `MCDeploy` | `PortsFollowSpec` | `expose` edited from 80 to 81 during a pass, late reads, no failure: port 80 stays routed for ever |

### 3.2 What the model says the code does elsewhere

Behaviours met while modelling, each excluded from a property by a named condition.

* **Manager.** A lost Docker ping records the generation as it does for a Worker (`"detect"`).
* **Team.** The merge patch replaces the whole members array, so a lost one also
  loses the other members' hashes; a spec edited back to the version whose hash a lost
  patch left looks unchanged (`env.reverts`). The comment of `hashMemberSourceSpec` says an
  empty stored hash counts as changed; `memberSpecChanged` says it does not. A removed member whose cleanup failed and
  which is then added again therefore keeps its old container under its new hash
  (`"delete"`); so does one whose pass started from a Team older than its last patch. The
  lost ping and the flapping phase are `team_undetected` and `team_flap`.
* **Provisioning.** Higress's `EnsureConsumer` returns the requested key on 409, whatever
  key the consumer has; a failing save of the key a cloud gateway handed out repeats
  (`"key"`, `"save"`); a stop during the write of a credentials file leaves it truncated
  (`"torn"`); a worker's failed join is not retried (`"join"`);
  `LeaveAllWorkerRooms` looks the credentials up by runtime name; a removal from an AI route
  that is refused with 409 on every try is logged, and the consumer stays on the route of a
  CR that is gone (`env.edits` at least `MaxRetries`);
  `EnsureWorkerGatewayAuth` is documented as called at restart and has no caller. On a cloud
  gateway `DeprovisionWorker` revokes the rule of the default model API only; a rule for another one
  (`spec.modelProvider`) is left, of a consumer that is gone, and `NothingLeft` exempts it.
* **Human.** A late read after the first pass resets the password (`human_reset`); in a Team with
  its own admin a Human is neither admitted (`human_led`) nor, where the kick is refused with one
  of the texts that count as done, put out; the patch base is
  not refreshed after the finalizer's `Update`, so a concurrent edit makes the patch fail and loses
  the account and rooms it recorded; an invite whose join failed, and a kick whose
  patch was lost before access is granted again, are recorded nowhere.
* **Deploy.** Any failure of `mc` reads as "does not exist": seed-only files, the user part of
  AGENTS.md, plugin entries, registries and `groupAllowFrom` are then rewritten from
  scratch (`"read"`); a write of the agent between a read and the push is lost
  (`env.race`); a first SOUL.md whose push fails is never repaired; a renamed worker leaves its
  `groupAllowFrom` entry and its exposed routes (`env.renamed`); a torn http archive is a cache
  hit for ever; an error while exposing drops the ports exposed before it. With late reads a port is lost without
  any failure (`deploy_ports`): a pass takes `exposedPorts` from the cached status, and the deletion
  of a worker whose spec was emptied meanwhile reads no port at all; a pass that reads a phase from
  before the first patch takes itself for the first deployment and replaces the plugin entries.
  `CleanupOSSData` removes the storage prefix only: the agent's directory on the controller's file
  system, with its SOUL.md, and the package archive outlive the worker, and a new worker of that
  name finds them.
* **Process.** As `process_restart`: edits between the scan and the watcher's `Add`, and between
  `Add` and `mgr.Start`, are not applied; a chmod within 500 ms of a write hides it; a refused
  upsert is not retried; a file removed while the process is down leaves its resource. One
  transient error aborts the initializer until the next start. The migration makes resources nobody asked
  for when a registry row has the runtime name, the local copy is stale, a row could not be
  removed, the teams registry reads as absent (members become standalone Workers), or a
  Team's pass or a deletion is between its two writes (`overlap`). A worker provisioned
  before `default-ai-route` exists is not authorized later; the Manager is, on every pass.

## 4. Proofs

The theorems hold for every value of the constants: any set of specs, members, rooms, ports,
consumers, routes, files, faults and environments, and any bound. The assumptions on constants
are named in the modules that declare them (`WorkerAssumption`, `ManagerAssumption`,
`BackendKindAssumption`, `TeamAssumption`, `HumanAssumption`, `RoutesAssumption`,
`ProvisioningAssumption`, `LegacyAssumption`, `NamesAssumption`, `SpecsAssumption`,
`BoundsAssumption`, `ConfigAssumption`, `ProcessAssumption`, `EnvsAssumption`). They say that
bounds are numbers, that names are different and that the environments are environments; two say
more. `HumanAssumption` has finitely many rooms, because the code walks a list of them when a
Human is deleted. `ProvisioningAssumption` lets only renamed clients have credentials under
another name, which is what `env.legacy` means.

| Theorem | Statement | Condition |
|---|---|---|
| `WorkerProofs!TypeCorrect` | `Spec => []TypeOK` | |
| `WorkerProofs!NoOrphan` | `Spec => []NoOrphanContainer` | `"delete"` is not among the faults |
| `WorkerProofs!ObservedIsCurrent` | `Spec => []ObservedContainerIsCurrent` | `"detect"` is not among the faults, `ReadsFinalizer` |
| `WorkerProofs!ObservedGrows` | `Spec => ObservedNeverRegresses` | the same |
| `WorkerProofs!FirstContainerKept` | `Spec => FirstContainerSurvives` | in the property: before the first edit |
| `ManagerProofs!ManagerTypeCorrect` | `Spec => []TypeOK` | |
| `ManagerProofs!WelcomeRepeats` | `Spec => []RepeatsNeedUnseenClaim` | |
| `ManagerProofs!ObservedIsBuilt` | `Spec => []ObservedMeansCurrent` | `"detect"` is not among the faults |
| `TeamProofs!TeamTypeCorrect` | `Spec => []TypeOK` | |
| `TeamProofs!RecordedIsBuilt` | `Spec => []HashMeansCurrent` | in the property (`Recorded`: current reads, no lost ping, no failing cleanup, no version restored) |
| `TeamProofs!NoMemberOrphan` | `Spec => []MembersTracked` | in the property (`Calm`) |
| `TeamProofs!PeersKept` | `Spec => PeersUndisturbed` | in the property (`Calm`) |
| `HumanProofs!HumanTypeCorrect` | `Spec => []TypeOK` | |
| `HumanProofs!RecordedRoomsAreJoined` | `Spec => []RecordedIsJoined` | in the property |
| `HumanProofs!PasswordIsTheUsers` | `Spec => PasswordKept` | in the property: passes have received the account (`env.lag # "any"`) |
| `RouteProofs!RoutesRefine` | `Spec => RoutesAtomic`, the refinement of `RouteSets` | |
| `RouteProofs!RoutesExclusive` | `Spec => [](Exclusive /\ ReadIsCurrent)` | |
| `ProvisioningProofs!ProvisioningTypeCorrect` | `Spec => []TypeOK` | |
| `ProvisioningProofs!SecretsAreStored` | `Spec => []SecretsPersisted` | in the property (no `"torn"`) |
| `ProvisioningProofs!TeardownIsComplete` | `Spec => []NothingLeft` | in the property |
| `DeployProofs!DeployTypeCorrect` | `Spec => []TypeOK` | |
| `DeployProofs!EntriesKept` | `Spec => OthersEntriesKept` | in the property: reads do not fail, nobody races |
| `DeployProofs!AgentKeepsItsFiles` | `Spec => AgentOwnsItsFiles` | in the property: the same; for the plugin entries also `recorded` |
| `DeployProofs!PortsAreTracked` | `Spec => []PortsTracked` | in the property: nothing failed so far, `recorded` |
| `DeployProofs!DeletionIsComplete` | `Spec => []DeletedLeavesNothing` | in the property: nothing failed so far, not renamed; for the ports also `recorded` |
| `ProcessProofs!ProcessTypeCorrect` | `Spec => []TypeOK` | |
| `ProcessProofs!ConsumersStayAdmitted` | `Spec => AuthorizationKept` | |
| `ProcessProofs!SpecsDoNotReturn` | `Spec => NoSpecReturns` | |
| `ProcessProofs!OnlyTheWantedLive` | `Spec => []OnlyWanted` | in the property (`Plain`) |

The conditions are the places where the code gives the property up: the ignored
delete in the finalizer, the lost ping that counts as success
(`worker_undetected` is the counterexample), a second finalizer patch, a status read too late
(`human_reset`, `deploy_ports`), and the behaviours of section 3.2. None is needed
for types, the routes' refinement, `AuthorizationKept` and `NoSpecReturns`. `FirstContainerSurvives`
of the Worker speaks of the time before the first edit and needs nothing else.

Every property but the liveness ones was checked by TLC in a run first, and so was the
inductive invariant behind it. Each temporal theorem ends in one `PTL` step over lemmas
without temporal operators, one per action or group of actions.

### 4.1 Worker

None of these invariants is inductive. The argument goes in layers:

1. `VersionInv`: the versions that somebody may still read (the cache, the watch,
   the CR itself) are ordered by `resourceVersion`, and a later one never takes back
   what an earlier one said (`Older`): the generation does not fall, one generation
   has one spec, a deletion mark stays, and so does the finalizer of a CR that is
   not being deleted. A stale copy is a true statement about the past.
2. `FinalizerInv`: from `AddFinalizer` to the deferred patch of a successful
   reconcile, the CR exists and has the finalizer, because only this reconciler
   removes it and only from a CR the cache shows as deleted; and a CR without
   finalizer has no container. `OrphanInv` is the conjunction with `TypeOK`.
3. `DeleteInv` adds that nothing is kept once the finalizer is about to go, which
   needs the container delete to succeed: with `OrphanInv` it is inductive and
   gives `NoOrphanContainer`.
4. `ObservedInv` and `CopyInv`: the observed generation never exceeds the generation
   and grows along the versions; every version with the finalizer, hence every
   copy a later reconcile can start from, is at least as new as what was observed
   and as the copy the container was created from; the working copy is between
   what was observed and what is still to be read, and its base agrees with it on
   the observed generation. That is why a patch without a lock cannot move
   `observedGeneration` back.
5. `ContainerInv` and `BuiltInv`: nothing is kept when a create is about to run; a
   reconcile that reaches its patch without error has a container of its own
   generation, or the generation was observed already; a container is never newer
   than the CR. The conjunction with layer 4 is `CurrentInv`.

Steps are grouped by what they do to the CR (`Advances`, `UserStep`) and to the
container (`Survives`), so that each group needs one preservation lemma; the
reconciler's own steps are treated one by one.

`FirstContainerSurvives` has an invariant of its own, `FirstInv`, which assumes nothing of faults
or staleness. Every copy of the CR stays `Within` it: no newer, and with its spec if it has its
generation. While the generation is 1 the CR is `Untouched`: `SpecChanged` stays false, since
a copy has observed either nothing or that one generation; a container about to be killed is not
up, and no wake call can have started it since it was looked at; and a request that reached the
backend asks for the state the spec already has, because a request that changes the state is an
edit.

### 4.2 Manager

`WelcomeInv` is `ClaimInv` and `CountInv`, and assumes nothing of the cache. `ClaimInv`: a claim
that any version of the CR shows is still there, so the working copy and its base show none that
the CR does not have; the base never has the flag set when the working copy has not, so that the
deferred merge patch cannot clear it; a reconcile at the claim has the flag unset in its copy, one at
the send has it set. `CountInv` counts. `unseen` is the number of reconciles that began from a copy
without the claim while the CR had it; such a reconcile, and the one that makes the first claim, are
the only ones that may send (`MaySend`), so before a send there were at most `unseen` messages and
at any time at most one more. The message counter alone says nothing about who may send next, hence
the strengthening.

`LagInv` proves `ObservedMeansCurrent` for any staleness of the cache. It has the layers of
the Worker, with one difference: nothing gates the first pass, and the Manager's finalizer is
written with `Update`. `CopyInv` therefore says what a refused `Update` protects: a copy
without the finalizer that has the CR's `resourceVersion` is the CR. A CR without the
finalizer has no container and has observed nothing, so that the ungated comparison of the
first pass has nothing to get wrong.

### 4.3 Team

`TeamInv` is `TypeOK`, `ShapeInv`, `CalmInv` and `HashInv`. `ShapeInv` ties the cache and the
watch to the CR and the members still to do to the pass. `CalmInv` holds where no status patch,
cleanup or process is lost and reads are current: the pass's base has the CR's members, and
each kept container has an `Entry` with the version it was built from, in the working copy while a
pass runs and in the CR otherwise (`Record`). It gives `MembersTracked`, and `PeersUndisturbed` as a property of one step from
it. `HashInv` needs less (patches, creations and processes may be lost, passes start from the
current Team, no version returns): a member whose hash the CR, or the copy in the pass, holds
as its spec's has a container of that version (`Says`, which excepts one created while no hash
was stored, as the property does; a lost ping would store the hash over another container), and
the base's members are the CR's, so that
the merge patch replaces the array with true statements.

The runs of `TeamController` use Docker, and the end of a Pod's termination is not one of its
steps. The theorems hold for either value of `BackendKind`, but of a Team's Pods they say nothing
beyond their deletion.

### 4.4 Human

`HumanInv` is what always holds (`TypeInv`, with the bot's queue holding ever newer
passwords; `WatchInv`; `PlacesInv`, a pass invites only into rooms that are there and only a room's
owner sweeps it) and what holds for passes that start from the current CR: `ApiInv` (a recorded
account exists and no reset of it is queued, which needs that every reset ever queued was
executed before the account could be recorded), `PassInv` (what each step of a pass holds of
account and CR; at the finalizer the copy is the CR if the `Update` will be accepted), and, if also no
patch is lost and owners agree with the spec, `JoinedInv`. The last is about `Claimed` rooms,
those in the CR's status or in the working copy: a pass that is about to kick still lists
the room it will leave, and one that has joined lists a room that the CR does not have yet.

`AccountInv` is what remains of `ApiInv` and `PassInv` when reads are late but never behind the
account: a pass that knows no account runs only while the status has none, and the reset that it asks
the bot for is the newest command of the queue, so that every older one has been executed when the
account is recorded. `PasswordKept` needs no more.

### 4.5 AI routes

`RouteInv` has two parts besides types. `Exclusive`: whoever is in `modifyAIRoutes` holds
`aiRouteMu`, and only with Higress, since the cloud gateway changes rules in one call.
`ReadIsCurrent`: what a call has read is what the route holds as long as the console
would accept its version, and without versions nobody else writes. A PUT that is
accepted therefore differs from the route in one consumer, which is a step of
`RouteSets`; everything else is a stutter. The step simulation is one lemma per
operation of `AIRoutes` and a case per action of `Provisioning`.

### 4.6 Provisioning

`ProvInv` adds to `RouteInv` three families of facts, one per client: `Phased` (what the CR
is while a step of its pass or of its deletion is next), `Secure` (a secret in a service or
in the pass is the stored one, or the pass that took it is about to store it) and `Left`
(what the deletion has taken away by each of its steps). `Left` needs `RouteInv`: that a
consumer is off a route after the last try is true only because no one else can be
in `modifyAIRoutes` and because a foreign write costs one try, so the number of tries left is
compared with the number of foreign writes left. Facts about one client are preserved
by the steps of the other, which is one frame lemma, used by all three.

### 4.7 Deployment and shared files

`LegacyInv` is the argument of section 4.5 for `LegacyCompat.mu`: `Serialised` (a call holds the
mutex) makes `SeenIsCurrent` (what was read is still in the file) inductive, given that reads tell
the truth. `LegacyActs` lists what a step of `Deploy` can do to the shared files, so that its thirty
actions reduce to six cases.

`DeployInv` adds what a pass knows, by its `pc`:

* `FlowInv`: the pass is in a call of `LegacyCompat` only while it waits for it; deletion steps
  belong to a resource that the cache shows as marked; all ports are routed under the resource's
  name. Its `WatchInv` is what makes late reads harmless here: a deletion mark stays in every later
  version, so a deletion that has begun is never followed by a pass that deploys again, and who has
  seen the finalizer on an unmarked version may rely on it. That is why deletion is complete for
  any staleness of the cache.
* `PortInv`, while nothing has failed and passes were `recorded`: the routed ports are in the
  pass's copy from `ReconcileMemberExpose` to the status patch and in the status at all other
  times, and the pass started from the status. The second part is needed for the first:
  `ReconcileMemberExpose` computes both from the copy. A current status is enough; the copy's spec
  may be of any version.
* `GoneInv`, while nothing has failed and the name is kept (for the ports also `recorded`): each step of the deletion leaves behind
  it what it removed, and nothing brings it back; with `SeenInv`, which is `SeenIsCurrent`
  for the entries alone and holds although the user customises the Manager's file past the mutex, since
  no such write touches `groupAllowFrom`.
* `FreshInv`, if reads tell the truth and the agent does not race: what was read is there when
  the push is computed from it.
* `ReadyInv`: if passes read the recorded status and end with their patch, a stored `openclaw.json` means that the
  status of the CR makes the next pass an update, which reads the plugin entries before it
  writes them. The first pass is no update, and has nothing to lose.

The steps of the normal path are grouped as `Walk` and `Failing`; one lemma per action
says what it writes, and one (`WriteEffect`) what a write to the API server appends to the watch.

### 4.8 Process

`ProcessInv` is types, `ConfigInv` and `BootInv`. `ConfigInv` is about the watcher:
versions only grow (`SerialInv`); a removal that is queued is of a file that is gone or that
came back later in the queue (`RemovalInv`), and likewise for debounced ones
(`PendingInv`); a file whose hash is not the watcher's is still to be read (`HashInv`); an upsert in progress
carries the version the hash says, one that the resource never had (`UpsertInv`);
nothing waits while nobody watches (`QuietInv`). `UpsertInv` is `NoSpecReturns` one step earlier.
`BootInv` says that the scan is over when the manager starts.

`WantedInv` is about the environments of `OnlyWanted` (`Plain`): every live resource, every
registry row and every name the migration has still to create is `Backed`, asked for or there, but
for a member's row, which its Team's row or running pass accounts for. A deletion that finds no
resource (the file of a worker that exists only as a registry row is removed) is no deletion: its
row is still there, and the migration makes the worker; `asked` is left alone then.

### 4.9 Only model-checked

The liveness properties (`Converges`, `WelcomeClaimed`, `Provisioned`, `Admitted`, `Revoked`,
`Deployed`, `FilesFollowed`, `BootsUp`): fairness and `ENABLED` are outside the prover's
reach. Every safety property of a passing run is the subject of a theorem above.

## 5. Not modelled

* **Inside modelled components:** image, environment, labels, resources, rendering of
  templates, status messages and mail text are data no property tells apart. The
  readiness map of the lifecycle API is not modelled. Provisioning of the Manager and of Team
  rooms follows the worker's steps and is not repeated; so is the migration of humans.
  The worker's skills are left out: builtin, remote and on-demand ones are mirrored into its
  prefix with `Overwrite` (deployer.go:553 and :834), so that what an agent changes in them is lost
  on the next pass, and no property speaks of them (`other` in `Deploy` are the files a package
  seeds). Nacos packages and the gateway's session and model-provider lookup are left out too, and so
  is a failing list of the AI routes before the first of them is read (higress.go:198): it ends the
  call with an error before anything is changed, as a failing first GET does.
* **`KubeApi`** is modelled from how the reconcilers use it: a refused write, a late cache and
  a merge patch, not a full API server; leader election is assumed to keep a single
  controller.
* **Authentication and STS:** a bounded cache of token reviews, a cached token with a
  refresh margin under one mutex, and pure permission tables; independent of the reconcilers.
* **Docker API proxy, CLI, metrics, configuration loading:** stateless.
* **CoPaw and Hermes runtimes, Manager agent, scripts, Helm chart:** outside the controller;
  `Deploy` has the agent as an actor that writes its own files.

`PROJECT.json` gives the status and the reason for each.

## 6. Plan

1. `Readiness` of the lifecycle API, composed with the Worker.
2. `TokenCache` (authentication cache at its limit) and `StsToken`.
3. The workers' file synchronisation (`copaw`, `hermes`) composed with `Deploy`.
