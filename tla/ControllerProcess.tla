------------------------- MODULE ControllerProcess --------------------------
(***************************************************************************)
(* The embedded controller process over its restarts (internal/app/app.go, *)
(* internal/initializer, internal/migration): New scans the configuration  *)
(* files, Start starts the manager and, concurrently with the reconcilers  *)
(* and the file watcher (ConfigFiles), runs the initializer once: it waits *)
(* for storage, Matrix and the gateway, prepares them, makes the Manager   *)
(* resource and makes resources of the rows of the legacy registries that  *)
(* have none.  The reconcilers write those rows.                           *)
(*                                                                         *)
(* Of the reconcilers only what meets the initializer is here: the rows    *)
(* they publish and remove and the consumers they put on the AI route.     *)
(***************************************************************************)
EXTENDS ConfigFiles

CONSTANTS
    Team,         \* the name of a Team, one of Names
    Member,       \* the name of its only member, one of Names
    RuntimeName,  \* the name the registry has for a worker that is renamed
    Envs,         \* circumstances of a run, one is chosen initially
    MaxRestarts,  \* bound on the stops of the process
    MaxFaults     \* bound on the faults of a behaviour

ASSUME ProcessAssumption ==
    /\ {Team, Member, RuntimeName} \subseteq Names
    /\ {Team, Member, RuntimeName} \cap Files = {}
    /\ Team \notin {Member, RuntimeName}
    /\ MaxRestarts \in Nat /\ MaxFaults \in Nat

VARIABLES
    env,        \* the circumstances: see Env
    up,         \* the process: down, new (New runs), up (the manager is started)
    ipc,        \* the initializer's next step
    svc,        \* the services that answer
    made,       \* the gateway objects that exist
    route,      \* default-ai-route: whether it is there, whom it admits
    manager,    \* whether the Manager resource exists
    prov,       \* the workers provisioned, as their status records it
    reg,        \* the legacy registries in storage
    copy,       \* their copy on the local file system
    todo,       \* the rows the migration has read and not dealt with
    tpc,        \* the Team's pass: idle, or between its two registries
    overlap,    \* the migration met a Team's pass or a deletion half done (history)
    restarts, faults

process == <<env, up, ipc, svc, made, route, manager, prov, reg, copy, todo, tpc,
             overlap, restarts, faults>>

vars == <<config, process>>

-----------------------------------------------------------------------------
(***************************************************************************)
(* State                                                                   *)
(***************************************************************************)
\* users: what people do to the files (file: edit one) and, with http and
\* delete, through the API.  early: edit files before the watcher and the
\* cache are both started; recreate: make a file again before its resource is
\* gone; console: somebody
\* makes the AI route in the gateway's console.  faults: what fails.
\* abrupt: the process may also stop in the middle of a pass.  mirrored: the
\* registries have a local copy.  renamed: workers with a file have another
\* runtime name.  ready: the services that answer from the start.  before: the
\* rows an earlier version left.  live: the resources already there.
Env == [users : SUBSET {"file", "touch", "chmod", "remove", "http", "delete",
                        "early", "recreate", "console"},
        faults : SUBSET {"api", "timeout", "admin", "storage", "gateway",
                         "registry", "read", "stop"},
        abrupt : BOOLEAN, mirrored : BOOLEAN, renamed : BOOLEAN,
        ready : SUBSET {"storage", "matrix", "gateway"},
        before : [workers : SUBSET (Names \ {Team}), teams : SUBSET {Team}],
        live : SUBSET Names]

ASSUME EnvsAssumption == Envs \subseteq Env

Objects == {"sources", "routes", "timeout", "provider"}

Steps == {"off", "storage", "dirs", "matrix", "admin", "gateway", "sources",
          "routes", "timeout", "provider", "route", "post", "manager", "load", "create", "done", "aborted"}

Registry == [workers : SUBSET (Names \ {Team}), teams : SUBSET {Team}]

NoRows == [workers |-> {}, teams |-> {}]

NewRoute == [exists |-> TRUE, allowed |-> {}]

Runtime(n) == IF env.renamed /\ n \in Files THEN RuntimeName ELSE n

Started == up = "up"

\* Type correctness; that nobody is admitted by a route that does not exist,
\* that the watcher and the initializer run only in a process that has
\* started them.
TypeOK ==
    /\ ConfigTypeOK
    /\ env \in Env
    /\ up \in {"down", "new", "up"}
    /\ ipc \in Steps
    /\ svc \in SUBSET {"storage", "matrix", "gateway"}
    /\ made \in SUBSET Objects
    /\ route \in [exists : BOOLEAN, allowed : SUBSET (Names \cup {"manager"})]
    /\ manager \in BOOLEAN
    /\ prov \in SUBSET Names
    /\ reg \in Registry /\ copy \in Registry /\ todo \in Registry
    /\ tpc \in {"idle", "team"}
    /\ overlap \in BOOLEAN
    /\ restarts \in 0 .. MaxRestarts /\ faults \in 0 .. MaxFaults
    /\ ~route.exists => route.allowed = {}
    /\ up = "down" <=> w.at = "off"
    /\ ~Started => ipc = "off" /\ tpc = "idle"
    /\ todo # NoRows => ipc = "create"

\* A step that fails, while the run's circumstances allow it.
Fault(k) ==
    /\ k \in env.faults
    /\ faults < MaxFaults
    /\ faults' = faults + 1

Init ==
    /\ env \in Envs
    /\ disk \in [Files -> IF "file" \in env.users THEN {0, 1} ELSE {0}]
    /\ serial = 1
    /\ crs = [n \in Names |-> IF n \in env.live THEN NewCR(1) ELSE NoCR]
    /\ asked = env.live \cup env.before.teams
                 \cup {n \in env.before.workers : n # Member \/ env.before.teams = {}}
    /\ events = <<>> /\ pending = NothingPending
    /\ hashes = [n \in Files |-> 0]
    /\ w = Off
    /\ up = "down"
    /\ ipc = "off"
    /\ svc = env.ready
    /\ made = {}
    /\ route = [exists |-> FALSE, allowed |-> {}]
    /\ manager = FALSE
    /\ prov = {}
    /\ reg = env.before
    /\ copy = IF env.mirrored THEN env.before ELSE NoRows
    /\ todo = NoRows
    /\ tpc = "idle"
    /\ overlap = FALSE
    /\ restarts = 0 /\ faults = 0

-----------------------------------------------------------------------------
(***************************************************************************)
(* The process                                                             *)
(***************************************************************************)
\* App.New: InitialSync begins; the services it needs are made, not started.
New ==
    /\ up = "down"
    /\ up' = "new"
    /\ StartScan
    /\ UNCHANGED <<env, ipc, svc, made, route, manager, prov, reg, copy, todo, tpc,
                   overlap, restarts, faults>>

\* App.Start: the manager, its cache, the reconcilers and the initializer.
Start ==
    /\ up = "new"
    /\ w.at \notin {"off", "scan"}
    /\ up' = "up"
    /\ ipc' = "storage"
    /\ UNCHANGED <<config, env, svc, made, route, manager, prov, reg, copy, todo, tpc,
                   overlap, restarts, faults>>

\* The process ends, after the passes under way (App.Stop) or abruptly, and a
\* supervisor starts it again.
Stop ==
    /\ up # "down"
    /\ "stop" \in env.faults
    /\ restarts < MaxRestarts
    /\ env.abrupt \/ (tpc = "idle" /\ w.cur = NoFile)
    /\ WatcherStops
    /\ up' = "down"
    /\ ipc' = "off"
    /\ tpc' = "idle"
    /\ todo' = NoRows
    /\ overlap' = (overlap \/ tpc = "team")
    /\ restarts' = restarts + 1
    /\ UNCHANGED <<env, svc, made, route, manager, prov, reg, copy, faults>>

ServiceUp(s) ==
    /\ s \notin svc
    /\ svc' = svc \cup {s}
    /\ UNCHANGED <<config, env, up, ipc, made, route, manager, prov, reg, copy, todo,
                   tpc, overlap, restarts, faults>>

-----------------------------------------------------------------------------
(***************************************************************************)
(* Initializer.Run.  An error of a fatal step ends it, until the process   *)
(* is started again.                                                       *)
(***************************************************************************)
\* retry around EnsureBucket, Login and Healthy.
WaitFor(s, next) ==
    /\ ipc = s
    /\ s \in svc
    /\ ipc' = next
    /\ UNCHANGED <<config, env, up, svc, made, route, manager, prov, reg, copy, todo,
                   tpc, overlap, restarts, faults>>

waitForOSS == WaitFor("storage", "dirs")

waitForMatrix == WaitFor("matrix", "admin")

waitForGateway == WaitFor("gateway", "sources")

\* It answers too late: 5 minutes are over.
TimesOut(s) ==
    /\ ipc = s
    /\ s \notin svc
    /\ Fault("timeout")
    /\ ipc' = "aborted"
    /\ UNCHANGED <<config, env, up, svc, made, route, manager, prov, reg, copy, todo,
                   tpc, overlap, restarts>>

\* A step that changes nothing here and ends Run when it fails.
Prepare(at, next, k) ==
    /\ ipc = at
    /\ \/ ipc' = next /\ UNCHANGED faults
       \/ ipc' = "aborted" /\ Fault(k)
    /\ UNCHANGED <<config, env, up, svc, made, route, manager, prov, reg, copy, todo,
                   tpc, overlap, restarts>>

ensureOSSStructure == Prepare("dirs", "matrix", "storage")

registerAdmin == Prepare("admin", "gateway", "admin")

\* Mutant: an object that cannot be made ends the initialization.
EnsureFatal(o, next) ==
    /\ ipc = o
    /\ \/ made' = made \cup {o} /\ ipc' = next /\ UNCHANGED faults
       \/ Fault("gateway") /\ ipc' = "aborted" /\ UNCHANGED made
    /\ UNCHANGED <<config, env, up, svc, route, manager, prov, reg, copy, todo, tpc,
                   overlap, restarts>>

\* A call of initGatewayRoutes: an object that exists (409) is kept, a
\* failure is logged.
Ensure(o, next) ==
    /\ ipc = o
    /\ \/ made' = made \cup {o} /\ UNCHANGED faults
       \/ Fault("gateway") /\ UNCHANGED made
    /\ ipc' = next
    /\ UNCHANGED <<config, env, up, svc, route, manager, prov, reg, copy, todo, tpc,
                   overlap, restarts>>

\* The sources and routes of Matrix and Element, the idle timeout of streams
\* in the gateway's configuration, the provider of the models.
EnsureServiceSources == Ensure("sources", "routes")

EnsureRoutes == Ensure("routes", "timeout")

EnsureStreamIdleTimeout == Ensure("timeout", "provider")

EnsureAIProvider == Ensure("provider", "route")

\* Mutant: the route is declared again on every start.
GetAIRouteDeclares ==
    /\ ipc = "route"
    /\ route' = NewRoute
    /\ ipc' = "manager"
    /\ UNCHANGED <<config, env, up, svc, made, manager, prov, reg, copy, todo, tpc,
                   overlap, restarts, faults>>

\* EnsureAIRoute: a route that exists is left alone.
GetAIRoute ==
    /\ ipc = "route"
    /\ \/ ipc' = (IF route.exists THEN "manager" ELSE "post") /\ UNCHANGED faults
       \/ ipc' = "manager" /\ Fault("gateway")
    /\ UNCHANGED <<config, env, up, svc, made, route, manager, prov, reg, copy, todo,
                   tpc, overlap, restarts>>

\* One that does not is posted; 409 if it is there by now.
PostAIRoute ==
    /\ ipc = "post"
    /\ ipc' = "manager"
    /\ \/ route' = (IF route.exists THEN route ELSE NewRoute) /\ UNCHANGED faults
       \/ Fault("gateway") /\ UNCHANGED route
    /\ UNCHANGED <<config, env, up, svc, made, manager, prov, reg, copy, todo, tpc,
                   overlap, restarts>>

\* A failing Get is taken for "not found", and Create fails if it exists.
EnsureManagerCR ==
    /\ ipc = "manager"
    /\ \/ manager' = TRUE /\ ipc' = "load" /\ UNCHANGED faults
       \/ Fault("api") /\ ipc' = "aborted" /\ UNCHANGED manager
    /\ UNCHANGED <<config, env, up, svc, made, route, prov, reg, copy, todo, tpc,
                   overlap, restarts>>

-----------------------------------------------------------------------------
(***************************************************************************)
(* Migrator.Run                                                            *)
(***************************************************************************)
\* The members of the teams in ts.
teamByWorker(ts) == IF Team \in ts THEN {Member} ELSE {}

\* Mutant: members of teams are migrated like other workers.
LoadRegistriesAll ==
    /\ ipc = "load"
    /\ LET src == IF env.mirrored THEN copy ELSE reg IN todo' = src
    /\ ipc' = "create"
    /\ overlap' = (overlap \/ tpc = "team")
    /\ UNCHANGED <<config, env, up, svc, made, route, manager, prov, reg, copy, tpc,
                   restarts, faults>>

\* The registries are read from the local copy if there is one.  A read from
\* storage that fails is taken for an empty registry.
LoadRegistries ==
    /\ ipc = "load"
    /\ LET src == IF env.mirrored THEN copy ELSE reg
           Rows(ws, ts) == [workers |-> ws \ teamByWorker(ts), teams |-> ts]
       IN \/ todo' = Rows(src.workers, src.teams) /\ UNCHANGED faults
          \/ todo' = Rows(src.workers, {}) /\ ~env.mirrored /\ Fault("read")
          \/ todo' = Rows({}, src.teams) /\ ~env.mirrored /\ Fault("read")
    /\ ipc' = "create"
    /\ overlap' = (overlap \/ tpc = "team")
    /\ UNCHANGED <<config, env, up, svc, made, route, manager, prov, reg, copy, tpc,
                   restarts>>

\* A resource that exists is left alone; the spec of a new one is put
\* together from the row and the agent's files (version 0).
Create(n) ==
    /\ \/ UNCHANGED faults
          /\ crs' = [crs EXCEPT ![n] = IF @.exists THEN @ ELSE NewCR(0)]
       \/ Fault("api") /\ UNCHANGED crs
    /\ UNCHANGED <<disk, asked, serial, events, pending, hashes, w, env, up, ipc, svc,
                   made, route, manager, prov, reg, copy, tpc, overlap, restarts>>

createStandaloneWorkerCR(n) ==
    /\ ipc = "create" /\ n \in todo.workers
    /\ todo' = [todo EXCEPT !.workers = @ \ {n}]
    /\ Create(n)

\* After the workers; humans, after the teams, go the same way.
createTeamCR(n) ==
    /\ ipc = "create" /\ todo.workers = {} /\ n \in todo.teams
    /\ todo' = [todo EXCEPT !.teams = @ \ {n}]
    /\ Create(n)

MigrationDone ==
    /\ ipc = "create"
    /\ todo = NoRows
    /\ ipc' = "done"
    /\ UNCHANGED <<config, env, up, svc, made, route, manager, prov, reg, copy, todo,
                   tpc, overlap, restarts, faults>>

-----------------------------------------------------------------------------
(***************************************************************************)
(* The reconcilers, as far as the initializer meets them                   *)
(***************************************************************************)
\* Mutant: the consumer is noted although there is no route.
AuthorizeBlind(c) == route' = [route EXCEPT !.allowed = @ \cup {c}]

\* AuthorizeAIRoutes changes the routes it finds.
Authorize(c) ==
    route' = [route EXCEPT !.allowed = IF route.exists THEN @ \cup {c} ELSE @]

\* The Manager's consumer is restored on every pass.
ManagerPass ==
    /\ Started /\ manager
    /\ Authorize("manager")
    /\ UNCHANGED <<config, env, up, ipc, svc, made, manager, prov, reg, copy, todo, tpc,
                   overlap, restarts, faults>>

\* A Worker's pass: provisioned once, with its consumer; its row every time.
WorkerPass(n) ==
    /\ Started /\ crs[n].exists /\ ~crs[n].deleting /\ n # Team
    /\ IF n \in prov THEN UNCHANGED route ELSE Authorize(n)
    /\ prov' = prov \cup {n}
    /\ \/ UNCHANGED faults /\ reg' = [reg EXCEPT !.workers = @ \cup {Runtime(n)}]
       \/ Fault("registry") /\ UNCHANGED reg
    /\ UNCHANGED <<config, env, up, ipc, svc, made, manager, copy, todo, tpc, overlap, restarts>>

\* A Team's pass publishes its members and then the Team, unless a Worker has
\* a member's name.
TeamMembers ==
    /\ Started /\ tpc = "idle" /\ crs[Team].exists /\ ~crs[Team].deleting
    /\ ~crs[Member].exists
    /\ tpc' = "team"
    /\ \/ UNCHANGED faults /\ reg' = [reg EXCEPT !.workers = @ \cup {Member}]
       \/ Fault("registry") /\ UNCHANGED reg
    /\ UNCHANGED <<config, env, up, ipc, svc, made, route, manager, prov, copy, todo,
                   overlap, restarts>>

TeamRow ==
    /\ tpc = "team"
    /\ tpc' = "idle"
    /\ \/ UNCHANGED faults /\ reg' = [reg EXCEPT !.teams = @ \cup {Team}]
       \/ Fault("registry") /\ UNCHANGED reg
    /\ UNCHANGED <<config, env, up, ipc, svc, made, route, manager, prov, copy, todo,
                   overlap, restarts>>

\* The rows of a resource.
RowsOf(n) == [workers |-> IF n = Team THEN {Member} ELSE {Runtime(n)},
              teams |-> {n} \cap {Team}]

\* The pass of a deleted resource: its rows go, a failure to remove one is
\* logged; then the finalizer, and with it the resource.
Finalize(n) ==
    /\ Started /\ crs[n].exists /\ crs[n].deleting
    /\ n = Team => tpc = "idle"
    /\ overlap' = (overlap \/ ipc = "create")
    /\ crs' = [crs EXCEPT ![n] = NoCR]
    /\ prov' = prov \ {n}
    /\ route' = [route EXCEPT !.allowed = @ \ {n}]
    /\ \/ /\ UNCHANGED faults
          /\ reg' = [workers |-> reg.workers \ RowsOf(n).workers,
                     teams |-> reg.teams \ RowsOf(n).teams]
       \/ Fault("registry") /\ UNCHANGED reg
    /\ UNCHANGED <<disk, asked, serial, events, pending, hashes, w, env, up, ipc, svc,
                   made, manager, copy, todo, tpc, restarts>>

\* The mirror copies the registries to the local file system.
Mirror ==
    /\ env.mirrored
    /\ copy' = reg
    /\ UNCHANGED <<config, env, up, ipc, svc, made, route, manager, prov, reg, todo, tpc,
                   overlap, restarts, faults>>

-----------------------------------------------------------------------------
(***************************************************************************)
(* Users, and the watcher in this process                                  *)
(***************************************************************************)
Quiet == up = "down" \/ (Started /\ w.at \in {"loop", "batch"})

Users ==
    /\ \/ \E n \in Files :
            /\ "early" \in env.users \/ Quiet
            /\ \/ /\ "file" \in env.users
                  /\ EditFile(n) /\ (disk[n] # 0 \/ ~crs[n].exists \/ "recreate" \in env.users)
               \/ "touch" \in env.users /\ TouchFile(n, "write")
               \/ "chmod" \in env.users /\ TouchFile(n, "chmod")
               \/ "remove" \in env.users /\ RemoveFile(n)
       \/ \E n \in Files : Started /\ "http" \in env.users /\ ~crs[n].deleting /\ ApiWrites(n)
       \/ \E n \in Names : Started /\ "delete" \in env.users /\ ApiDeletes(n)
    /\ UNCHANGED process

\* Somebody makes the route in the console.
Console ==
    /\ "console" \in env.users
    /\ ~route.exists
    /\ route' = NewRoute
    /\ UNCHANGED <<config, env, up, ipc, svc, made, manager, prov, reg, copy, todo, tpc,
                   overlap, restarts, faults>>

Watcher ==
    \/ /\ \/ StartWatch \/ AddDirs \/ ReadEvent \/ Debounced \/ BatchDone
          \/ \E n \in Files : SyncFile(n) \/ SkipChmod(n) \/ HandleDelete(n, FALSE)
          \/ Upsert(Started, FALSE)
       /\ UNCHANGED process
    \/ /\ Fault("api")
       /\ Upsert(Started, TRUE) \/ \E n \in Files : HandleDelete(n, TRUE)
       /\ UNCHANGED <<env, up, ipc, svc, made, route, manager, prov, reg, copy, todo, tpc,
                      overlap, restarts>>

Initialize ==
    \/ waitForOSS \/ ensureOSSStructure \/ waitForMatrix \/ registerAdmin
    \/ waitForGateway \/ EnsureServiceSources \/ EnsureRoutes \/ EnsureStreamIdleTimeout
    \/ EnsureAIProvider \/ GetAIRoute \/ PostAIRoute \/ EnsureManagerCR \/ LoadRegistries
    \/ (\E n \in Names : createStandaloneWorkerCR(n) \/ createTeamCR(n)) \/ MigrationDone

Reconcile ==
    \/ ManagerPass \/ TeamMembers \/ TeamRow
    \/ \E n \in Names : WorkerPass(n) \/ Finalize(n)

Next ==
    \/ New \/ Start \/ Stop \/ Initialize \/ Reconcile \/ Watcher \/ Mirror
    \/ Users \/ Console
    \/ \E s \in {"storage", "matrix", "gateway"} : ServiceUp(s) \/ TimesOut(s)

Spec == Init /\ [][Next]_vars

\* The supervisor restarts the process, goroutines run, the reconcilers repeat
\* their passes every five minutes, services come up.
FairSpec ==
    /\ Spec
    /\ WF_vars(New) /\ WF_vars(Start) /\ WF_vars(Initialize) /\ WF_vars(Watcher)
    /\ WF_vars(ManagerPass) /\ WF_vars(TeamMembers \/ TeamRow)
    /\ \A n \in Names : WF_vars(Finalize(n))
    /\ \A s \in {"storage", "matrix", "gateway"} : WF_vars(ServiceUp(s))

-----------------------------------------------------------------------------
(***************************************************************************)
(* Properties                                                              *)
(***************************************************************************)
\* A resource that lives never gets a spec back that it had before: a file
\* whose spec is unchanged, touched or read again after a restart, does not
\* undo what was edited through the API (syncFile's hash, InitialSync).
NoSpecReturns ==
    [][\A n \in Names :
         (crs[n].exists /\ crs'[n].exists /\ crs'[n].ver # crs[n].ver)
            => crs'[n].ver \notin crs[n].had]_vars

\* The resource has the spec of its file, and only a file has one.
Followed(n) ==
    IF disk[n] = 0 THEN ~crs[n].exists ELSE crs[n].exists /\ crs[n].ver = disk[n]

\* In a process that is not stopped and whose calls succeed, whatever is
\* done to the files once the watcher runs reaches the resources (Watch,
\* processPending), unless the migration meets a deletion half done.
FilesFollowed ==
    (/\ env.faults = {} /\ env.users \subseteq {"file", "touch", "remove"}
     /\ env.before = NoRows /\ []~overlap)
        => \A n \in Files : <>[]Followed(n)

\* A resource lives only if somebody asked for it: over restarts, with the
\* registries the reconcilers keep, the migration brings back nothing that
\* was deleted and makes no Worker of a Team's member.  Needs that rows can
\* be read and removed, from storage and by the name of the resource, and that
\* the migration meets no deletion and no Team's pass half done.
OnlyWanted ==
    (/\ env.faults \cap {"registry", "read"} = {}
     /\ ~env.renamed /\ ~env.mirrored /\ ~overlap)
        => \A n \in Names : crs[n].exists /\ ~crs[n].deleting => n \in asked

\* A consumer the AI route admits stays admitted until its resource is
\* deleted, whatever the initializer of a restarted process does to the route
\* (EnsureAIRoute).
AuthorizationKept ==
    [][\A c \in route.allowed \ route'.allowed : c \in Names /\ crs[c].deleting]_vars

\* However often the process is restarted and whichever gateway calls fail, the
\* Manager resource is made, provided no fatal step fails (Run); if no gateway
\* call fails the route and the other objects are there and the Manager is
\* admitted.
BootsUp ==
    env.faults \cap {"api", "timeout", "admin", "storage"} = {}
        => <>[](/\ manager
                /\ "gateway" \notin env.faults
                     => made = Objects /\ route.exists /\ "manager" \in route.allowed)

\* InitialSync syncs all files: after a start the resources have the specs of
\* the files.
FilesSynced ==
    \A n \in Files : <>[](disk[n] # 0 => crs[n].exists /\ crs[n].ver = disk[n])
=============================================================================
