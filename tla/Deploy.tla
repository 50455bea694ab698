------------------------------- MODULE Deploy --------------------------------
(***************************************************************************)
(* Deployment of an agent's files, as one reconcile pass does it           *)
(* (internal/controller/member_reconcile.go, internal/service/deployer.go, *)
(* internal/executor/package.go, internal/service/provisioner_expose.go):  *)
(* package, inline configuration, openclaw.json, SOUL.md, AGENTS.md,       *)
(* exposed ports, and the files shared with the Manager (LegacyFiles).     *)
(*                                                                         *)
(* The pass reads its resource from the informer cache, which may be       *)
(* behind, and writes to the API server (KubeApi).  The agent runs         *)
(* meanwhile and writes its own files into the same storage prefix, the    *)
(* user customises plugins and edits the resource, the Team and Manager    *)
(* reconcilers use the shared files.                                       *)
(***************************************************************************)
EXTENDS LegacyFiles, KubeApi

CONSTANTS
    Specs,       \* the specs the user may give the resource
    Ports,       \* ports a worker may expose
    Envs,        \* circumstances of a run, one is chosen initially
    MaxEdits,    \* bound on the edits of the spec
    MaxWrites,   \* bound on the agent's own writes
    MaxFaults    \* bound on the faults of a behaviour

ASSUME NamesAssumption ==
    /\ {"worker", "team", "manager"} \subseteq Callers
    /\ {"cr", "runtime", "leader"} \subseteq Ids
    /\ "workers" \in Registries

ASSUME SpecsAssumption ==
    Specs \subseteq [soul : {"none", "s1", "s2"}, agents : {"none", "a1"},
                     expose : SUBSET Ports]

ASSUME BoundsAssumption == MaxEdits \in Nat /\ MaxWrites \in Nat /\ MaxFaults \in Nat

VARIABLES
    env,       \* the circumstances: see Env
    pc,        \* the next step of the pass, "idle" between passes
    work,      \* the pass's copy of the resource: see Copy
    seen,      \* the object it last read from storage
    archive,   \* the package archive in the import directory
    local,     \* the agent's directory on the controller's file system
    store,     \* the agent's prefix in storage
    gateway,   \* the ports the gateway routes, as <<name, port>>
    edits, writes, faults,
    recorded   \* history: every pass so far read the current status and
               \* had its status patch accepted

vars == <<legacy, kube, env, pc, work, seen, archive, local, store, gateway,
          edits, writes, faults, recorded>>

-----------------------------------------------------------------------------
(***************************************************************************)
(* State                                                                   *)
(***************************************************************************)
\* role: of the member.  package: where spec.package points to, or "none".
\* renamed: spec.workerName differs from the resource's name.  race: the
\* agent may write while a pass runs.  lag: a pass may begin before the cache
\* has every version.  peers: the other reconcilers that use the shared files
\* meanwhile.  faults: what may go wrong.
Env == [role : {"standalone", "team_leader"}, package : {"none", "http", "oss"},
        renamed : BOOLEAN, race : BOOLEAN, lag : BOOLEAN,
        peers : SUBSET {"manager", "team"},
        faults : SUBSET {"read", "write", "fatal", "expose", "patch", "crash"}]

ASSUME EnvsAssumption == Envs \subseteq Env

Leader == env.role = "team_leader"

\* The names the code builds from the resource's name and from the runtime name.
CRName == "cr"
RuntimeName == IF env.renamed THEN "runtime" ELSE "cr"

\* Who wrote a file last: nobody, the package, the controller's default, the
\* agent, or the spec (one of its inline values).
Authors == {"absent", "package", "default", "agent", "s1", "s2"}

\* AGENTS.md: the builtin section, the coordination block, the user's part.
AgentsMD == [builtin : BOOLEAN, context : BOOLEAN,
             user : {"absent", "package", "agent", "a1"}]

NoAgentsMD == [builtin |-> FALSE, context |-> FALSE, user |-> "absent"]

\* openclaw.json: whether it exists and whether its plugin entries are the
\* user's.
OpenClaw == [here : BOOLEAN, custom : BOOLEAN]

NoOpenClaw == [here |-> FALSE, custom |-> FALSE]

\* other stands for the other files that a package seeds: MEMORY.md, crons, its
\* own skills.
Files == [openclaw : OpenClaw, soul : Authors, agents : AgentsMD,
          other : {"absent", "package", "agent"}]

NoFiles == [openclaw |-> NoOpenClaw, soul |-> "absent", agents |-> NoAgentsMD,
            other |-> "absent"]

Status == [phase : {"", "Pending", "Failed", "Running"}, user : BOOLEAN,
           exposed : SUBSET Ports]

NoStatus == [phase |-> "", user |-> FALSE, exposed |-> {}]

\* One version of the resource.  fin: it has the finalizer.
Resource == [rv : Nat, exists : BOOLEAN, fin : BOOLEAN, deleting : BOOLEAN,
             spec : Specs, status : Status]

Live == api.exists /\ ~api.deleting

\* A step that may go wrong, at most MaxFaults times in all.
Fault(k, happens) ==
    /\ happens => k \in env.faults /\ faults < MaxFaults
    /\ faults' = IF happens THEN faults + 1 ELSE faults

Steps == {"finalizer", "infra", "resolve", "download", "package", "inline", "seed", "openclaw",
          "openclaw.put", "soul", "agents", "agents.put", "container", "expose",
          "context", "context.put", "allow", "allow.wait", "row", "row.wait", "end",
          "unexpose", "cleanup", "deny", "deny.wait", "unrow", "unrow.wait",
          "unfinalize"}

\* base: the copy from which the status patch is computed.  rv: the version of
\* the pass's own copy.  update: MemberContext.IsUpdate.
Work == [base : [rv : Nat, status : Status], rv : Nat, spec : Specs,
         update : BOOLEAN, phase : {"", "Pending", "Failed", "Running"},
         user : BOOLEAN, exposed : SUBSET Ports, failed : BOOLEAN]

TypeOK ==
    /\ LegacyTypeOK
    /\ env \in Env
    /\ api \in Resource
    /\ cache \in Resource
    /\ watch \subseteq Resource
    /\ pc \in Steps \cup {"idle"}
    /\ work \in Work
    /\ seen \in [openclaw : OpenClaw, agents : AgentsMD]
    /\ archive \in {"none", "partial", "whole"}
    /\ local \in [soul : Authors, other : {"absent", "package"}]
    /\ store \in Files
    /\ gateway \subseteq {"cr", "runtime"} \X Ports
    /\ edits \in 0..MaxEdits
    /\ writes \in 0..MaxWrites
    /\ faults \in 0..MaxFaults
    /\ recorded \in BOOLEAN

NoWork == [base |-> [rv |-> 0, status |-> NoStatus], rv |-> 0,
           spec |-> CHOOSE s \in Specs : TRUE, update |-> FALSE, phase |-> "",
           user |-> FALSE, exposed |-> {}, failed |-> FALSE]

Unread == [openclaw |-> NoOpenClaw, agents |-> NoAgentsMD]

Init ==
    /\ env \in Envs
    /\ LegacyInit("manager" \notin env.peers)
    /\ api \in [rv : {1}, exists : {TRUE}, fin : {FALSE}, deleting : {FALSE},
               spec : Specs, status : {NoStatus}]
    /\ cache = api
    /\ watch = {}
    /\ pc = "idle"
    /\ work = NoWork
    /\ seen = Unread
    /\ archive = "none"
    /\ local = [soul |-> "absent", other |-> "absent"]
    /\ store = NoFiles
    /\ gateway = {}
    /\ edits = 0
    /\ writes = 0
    /\ faults = 0
    /\ recorded = TRUE

files == <<archive, local, store>>
resource == <<env, kube, edits, writes, recorded>>

-----------------------------------------------------------------------------
(***************************************************************************)
(* The reconcile pass: package and inline configuration                    *)
(***************************************************************************)
\* A version as a pass copies it.  IsUpdate comes from the phase (a Worker) or
\* from Observed (a leader).
Copy(o, base) ==
    [base |-> [rv |-> base.rv, status |-> base.status], rv |-> o.rv, spec |-> o.spec,
     update |-> IF Leader THEN o.status.user ELSE o.status.phase = "Running",
     phase |-> o.status.phase, user |-> o.status.user, exposed |-> o.status.exposed,
     failed |-> FALSE]

\* The pass reads the resource from the cache.
ReadsCache ==
    /\ pc = "idle"
    /\ env.lag \/ watch = {}
    /\ cache.exists
    /\ work' = Copy(cache, cache)
    /\ recorded' = (recorded /\ cache.status = api.status)
    /\ UNCHANGED <<legacy, kube, env, edits, writes, seen, files, gateway, faults>>

Begin ==
    /\ ReadsCache
    /\ ~cache.deleting
    /\ pc' = IF cache.fin THEN "infra" ELSE "finalizer"

\* Mutant: the phase of a failed pass is the container's state.
FailedPhaseOfContainer(user) == "Starting"

\* computeWorkerPhase of a failed pass.
FailedPhase(user) ==
    CASE ~user                     -> "Failed"
      [] user /\ work.phase = ""   -> "Pending"
      [] OTHER                     -> work.phase

\* A Worker's pass ends with the error.  applyMemberStateToWorker: no port was
\* reconciled, the recorded ones are dropped when the spec asks for none.  A
\* Team's pass goes on after the error of a member.
Fail(user) ==
    /\ pc' = IF Leader THEN "context" ELSE "end"
    /\ work' = [work EXCEPT !.user = user, !.failed = TRUE,
                   !.exposed = IF work.spec.expose = {} THEN {} ELSE @]
    /\ seen' = Unread

\* A Worker is patched, a Team updated.
FinalizerAccepted == IF Leader THEN UpdateAccepted(work) ELSE api.exists

\* The call returns the current object, of which the rest of the pass is.  The
\* base of a Worker's status patch remains the cached copy; a Team's is taken
\* later.  A refused call ends the pass; so does the status patch it leads to.
AddFinalizer ==
    /\ pc = "finalizer"
    /\ \E failed \in BOOLEAN :
        /\ Fault("fatal", failed)
        /\ CASE failed /\ ~Leader ->
                  Fail(work.user) /\ UNCHANGED <<api, watch>>
             [] ~failed /\ FinalizerAccepted ->
                  /\ Write([api EXCEPT !.fin = TRUE])
                  /\ work' = Copy(api', IF Leader THEN api' ELSE work.base)
                  /\ pc' = "infra"
                  /\ UNCHANGED seen
             [] OTHER ->
                  /\ pc' = "idle"
                  /\ work' = NoWork
                  /\ UNCHANGED <<api, watch, seen>>
    /\ UNCHANGED <<legacy, cache, env, edits, writes, recorded, files, gateway>>

\* ReconcileMemberInfra, EnsureModelProviderAuth, EnsureMemberServiceAccount
\* (module Provisioning).  user: the Matrix user exists when it returns.
Infra ==
    /\ pc = "infra"
    /\ \E failed \in BOOLEAN, user \in {work.user, TRUE} :
        /\ Fault("fatal", failed)
        /\ \/ failed /\ Fail(user)
           \/ /\ ~failed /\ user
              /\ pc' = IF env.package = "none" THEN "inline" ELSE "resolve"
              /\ work' = [work EXCEPT !.user = TRUE]
              /\ UNCHANGED <<seen>>
    /\ UNCHANGED <<legacy, resource, files, gateway>>

\* Mutant: an archive that is there is not used and not replaced.
ResolveRefusesCached ==
    /\ pc = "resolve"
    /\ IF archive = "none"
       THEN /\ archive' = IF env.package = "http" THEN "partial" ELSE "whole"
            /\ pc' = IF env.package = "http" THEN "download" ELSE "package"
            /\ UNCHANGED <<work, seen>>
       ELSE Fail(TRUE) /\ UNCHANGED archive
    /\ UNCHANGED <<legacy, resource, local, store, gateway, faults>>

\* PackageResolver.Resolve: an archive of that name is a cache hit whatever it
\* holds, else it is downloaded.
Resolve ==
    /\ pc = "resolve"
    /\ \E failed \in BOOLEAN :
        /\ Fault("fatal", failed)
        /\ CASE failed -> Fail(TRUE) /\ UNCHANGED archive
             [] ~failed /\ archive = "whole" ->
                  /\ pc' = "package"
                  /\ UNCHANGED <<work, seen, archive>>
             \* resolveHTTP: os.Create, then io.Copy.
             [] ~failed /\ archive = "none" /\ env.package = "http" ->
                  /\ archive' = "partial"
                  /\ pc' = "download"
                  /\ UNCHANGED <<work, seen>>
             \* mc cp writes the archive at once.
             [] ~failed /\ archive = "none" /\ env.package = "oss" ->
                  /\ archive' = "whole"
                  /\ pc' = "package"
                  /\ UNCHANGED <<work, seen>>
             \* ResolveAndExtract: unzip fails.
             [] OTHER -> Fail(TRUE) /\ UNCHANGED archive
    /\ UNCHANGED <<legacy, resource, local, store, gateway>>

\* resolveHTTP: io.Copy ends, or fails and the file is removed.
Download ==
    /\ pc = "download"
    /\ \E failed \in BOOLEAN :
        /\ Fault("fatal", failed)
        /\ \/ failed /\ archive' = "none" /\ Fail(TRUE)
           \/ /\ ~failed
              /\ archive' = "whole"
              /\ pc' = "package"
              /\ UNCHANGED <<work, seen>>
    /\ UNCHANGED <<legacy, resource, local, store, gateway>>

\* putPackageObjectSeedOnly, putPackageFileSeedOnly, writeFileSeedOnly: a file
\* that exists is kept; missed, a Stat that failed counts as absence.
Seed(current, missed) == IF current = "absent" \/ missed THEN "package" ELSE current

\* wrapWithBuiltinMarkers: the package's AGENTS.md becomes the user's part.
SeedAgents(current, missed) ==
    IF current = NoAgentsMD \/ missed
    THEN [builtin |-> FALSE, context |-> FALSE, user |-> "package"]
    ELSE current

\* DeployToMinIO: storage first, then the local directory.  SOUL.md and
\* AGENTS.md are left to DeployWorkerConfig on an update.
Package ==
    /\ pc = "package"
    /\ \E missed \in {"none", "soul", "agents", "other"}, failed \in BOOLEAN :
        /\ missed = "none" \/ ~failed
        /\ failed => "write" \in env.faults
        /\ missed # "none" => "read" \in env.faults
        /\ Fault(IF failed THEN "write" ELSE "read", failed \/ missed # "none")
        /\ IF failed
           THEN Fail(TRUE) /\ UNCHANGED <<store, local>>
           ELSE /\ store' = [store EXCEPT
                      !.soul = IF work.update THEN @ ELSE Seed(@, missed = "soul"),
                      !.agents = IF work.update THEN @ ELSE SeedAgents(@, missed = "agents"),
                      !.other = Seed(@, missed = "other")]
                /\ local' = [local EXCEPT
                      !.soul = IF work.update THEN @ ELSE Seed(@, FALSE),
                      !.other = Seed(@, FALSE)]
                /\ pc' = "inline"
                /\ UNCHANGED <<work, seen>>
    /\ UNCHANGED <<legacy, resource, archive, gateway>>

\* WriteInlineConfigs: after the package, into the local directory.
Inline ==
    /\ pc = "inline"
    /\ pc' = "seed"
    /\ local' = [local EXCEPT !.soul = IF work.spec.soul = "none" THEN @
                                       ELSE work.spec.soul]
    /\ UNCHANGED <<legacy, resource, work, seen, archive, store, gateway, faults>>

\* seedLocalAgentFiles, which leaves SOUL.md, AGENTS.md and HEARTBEAT.md alone.
SeedLocal ==
    /\ pc = "seed"
    /\ \E missed \in BOOLEAN :
        /\ Fault("read", missed)
        /\ store' = [store EXCEPT !.other =
              IF local.other = "absent" THEN @ ELSE Seed(@, missed)]
    /\ pc' = "openclaw"
    /\ UNCHANGED <<legacy, resource, work, seen, archive, local, gateway>>

-----------------------------------------------------------------------------
(***************************************************************************)
(* The reconcile pass: DeployWorkerConfig                                  *)
(***************************************************************************)
\* On an update the stored openclaw.json is read for its plugin entries.
ReadOpenClaw(missed) == IF work.update /\ ~missed THEN store.openclaw ELSE NoOpenClaw

GetOpenClaw ==
    /\ pc = "openclaw"
    /\ \E missed \in BOOLEAN :
        /\ Fault("read", missed)
        /\ seen' = [seen EXCEPT !.openclaw = ReadOpenClaw(missed)]
    /\ pc' = "openclaw.put"
    /\ UNCHANGED <<legacy, resource, work, files, gateway>>

\* mergeUserPluginConfig: the existing entries override the generated ones.
PutOpenClaw ==
    /\ pc = "openclaw.put"
    /\ \E failed \in BOOLEAN :
        /\ Fault("write", failed)
        /\ IF failed
           THEN Fail(TRUE) /\ UNCHANGED store
           ELSE /\ store' = [store EXCEPT !.openclaw =
                       [here |-> TRUE, custom |-> seen.openclaw.custom]]
                /\ pc' = "soul"
                /\ UNCHANGED <<work, seen>>
    /\ UNCHANGED <<legacy, resource, archive, local, gateway>>

\* SOUL.md of a worker: the spec's text on every pass, else seed-only from the
\* local file or, on a first deployment, the default text.
Soul(missed) ==
    CASE work.spec.soul # "none" -> local.soul
      [] work.spec.soul = "none" /\ store.soul # "absent" /\ ~missed -> store.soul
      [] OTHER ->
           IF local.soul # "absent" THEN local.soul
           ELSE IF ~work.update THEN "default" ELSE store.soul

\* A leader's SOUL.md is written with its context.  A failed push is logged.
PutSoul ==
    /\ pc = "soul"
    /\ \E missed, failed \in BOOLEAN :
        /\ ~(missed /\ failed)
        /\ failed => "write" \in env.faults
        /\ missed => "read" \in env.faults /\ work.spec.soul = "none"
        /\ Leader => ~missed /\ ~failed
        /\ Fault(IF failed THEN "write" ELSE "read", failed \/ missed)
        /\ store' = IF failed \/ Leader THEN store
                    ELSE [store EXCEPT !.soul = Soul(missed)]
    /\ pc' = "agents"
    /\ UNCHANGED <<legacy, resource, work, seen, archive, local, gateway>>

\* prepareAndPushAgentsMD reads the stored AGENTS.md unless the spec has the
\* text; a failed read continues with an empty file.
GetAgents ==
    /\ pc = "agents"
    /\ \E missed \in BOOLEAN :
        /\ missed => work.spec.agents = "none"
        /\ Fault("read", missed)
        /\ seen' = [seen EXCEPT !.agents =
              CASE work.spec.agents # "none" -> [NoAgentsMD EXCEPT !.user = work.spec.agents]
                [] work.spec.agents = "none" /\ missed -> NoAgentsMD
                [] OTHER -> store.agents]
    /\ pc' = "agents.put"
    /\ UNCHANGED <<legacy, resource, work, files, gateway>>

\* Mutant: the text around the builtin section is replaced with it.
MergeBuiltinSectionAll(target) == [builtin |-> TRUE, context |-> FALSE, user |-> "absent"]

\* MergeBuiltinSection: what follows the end marker, or the whole of a file
\* without markers, stays.
MergeBuiltinSection(target) == [target EXCEPT !.builtin = TRUE]

\* agentconfig.InjectCoordinationContext replaces the coordination block.
InjectContext(target) == [target EXCEPT !.context = TRUE]

\* A failed push is logged.  HEARTBEAT.md and the builtin skills follow.
PutAgents ==
    /\ pc = "agents.put"
    /\ \E failed \in BOOLEAN :
        /\ Fault("write", failed)
        /\ store' = IF failed THEN store
                    ELSE [store EXCEPT !.agents =
                            LET merged == MergeBuiltinSection(seen.agents)
                            IN IF Leader THEN merged
                               ELSE InjectContext(merged)]
    /\ seen' = Unread
    /\ pc' = "container"
    /\ UNCHANGED <<legacy, resource, work, archive, local, gateway>>

\* ReconcileMemberContainer (modules WorkerController, TeamController).
Container ==
    /\ pc = "container"
    /\ \E failed \in BOOLEAN :
        /\ Fault("fatal", failed)
        /\ IF failed THEN Fail(TRUE)
           ELSE /\ pc' = IF Leader THEN "row" ELSE "expose"
                /\ UNCHANGED <<work, seen>>
    /\ UNCHANGED <<legacy, resource, files, gateway>>

-----------------------------------------------------------------------------
(***************************************************************************)
(* The reconcile pass: ports, leader context, shared files, status         *)
(***************************************************************************)
\* Mutant: the ports that are no longer wanted are forgotten, not closed.
ReconcileExposeAddsOnly(name, desired, current, broken) ==
    [gateway |-> gateway \cup {<<name, p>> : p \in desired \ (current \cup broken)},
     exposed |-> desired \ (broken \ current)]

\* ReconcileExpose: the ports to add, save those whose call fails, then the
\* ports to remove, whose errors UnexposePort swallows.
ReconcileExpose(name, desired, current, broken) ==
    [gateway |-> (gateway \cup {<<name, p>> : p \in desired \ (current \cup broken)})
                    \ {<<name, p>> : p \in current \ desired},
     exposed |-> desired \ (broken \ current)]

\* ReconcileMemberExpose: the CR's name; after an error the recorded ports stay.
Expose ==
    /\ pc = "expose"
    /\ \E broken \in SUBSET (work.spec.expose \ work.exposed) :
        /\ Fault("expose", broken # {})
        /\ LET r == ReconcileExpose(CRName, work.spec.expose, work.exposed, broken)
           IN /\ gateway' = r.gateway
              /\ work' = [work EXCEPT !.exposed = IF broken # {} THEN @ ELSE r.exposed]
    /\ pc' = "allow"
    /\ UNCHANGED <<legacy, resource, seen, files>>

\* Deployer.InjectCoordinationContext of a leader: the read error is dropped.
GetContext ==
    /\ pc = "context"
    /\ \E missed \in BOOLEAN :
        /\ Fault("read", missed)
        /\ seen' = [seen EXCEPT !.agents = IF missed THEN NoAgentsMD ELSE store.agents]
    /\ pc' = "context.put"
    /\ UNCHANGED <<legacy, resource, work, files, gateway>>

\* The push, then renderAndPushSoulTemplate, seed-only: the spec's text or the
\* template ("default").  An error of the push skips it, and is logged.
PutContext ==
    /\ pc = "context.put"
    /\ \E missed, failed \in BOOLEAN :
        /\ ~(missed /\ failed)
        /\ failed => "write" \in env.faults
        /\ missed => "read" \in env.faults
        /\ Fault(IF failed THEN "write" ELSE "read", failed \/ missed)
        /\ store' = IF failed THEN store
                    ELSE [store EXCEPT
                            !.agents = InjectContext(seen.agents),
                            !.soul = CASE @ # "absent" /\ ~missed -> @
                                       [] OTHER -> IF work.spec.soul # "none"
                                                   THEN work.spec.soul ELSE "default"]
    /\ seen' = Unread
    /\ pc' = "allow"
    /\ UNCHANGED <<legacy, resource, work, archive, local, gateway>>

\* A call of LegacyCompat: entered at one step, over at the next.
LegacyStep(from, wait, to, op) ==
    \/ /\ pc = from
       /\ Enter("worker", op)
       /\ pc' = wait
       /\ UNCHANGED <<resource, work, seen, files, gateway, faults>>
    \/ /\ pc = wait
       /\ call["worker"] = Idle
       /\ pc' = to
       /\ UNCHANGED <<legacy, resource, work, seen, files, gateway, faults>>

\* reconcileLegacy: UpdateManagerGroupAllowFrom, then the registry row, both
\* under the runtime name.  A Team publishes the member's row, then the leader.
Allow == LegacyStep("allow", "allow.wait", IF Leader THEN "end" ELSE "row",
    [kind |-> "allow", file |-> "openclaw.json", id |-> RuntimeName])

Row == LegacyStep("row", "row.wait", IF Leader THEN "context" ELSE "end",
    [kind |-> "upsert", file |-> "workers", id |-> RuntimeName])

\* The status that the pass computes.  (A Team's own phase: TeamController.)
NewStatus ==
    [phase   |-> CASE ~work.failed             -> "Running"
                   [] work.failed /\ ~Leader   -> FailedPhase(work.user)
                   [] OTHER                    -> work.phase,
     user    |-> work.user,
     exposed |-> IF Leader THEN {} ELSE work.exposed]

\* Its merge patch, field by field.
PatchedStatus ==
    LET base == work.base.status
    IN [phase   |-> Merged(api.status.phase, base.phase, NewStatus.phase),
        user    |-> Merged(api.status.user, base.user, NewStatus.user),
        exposed |-> Merged(api.status.exposed, base.exposed, NewStatus.exposed)]

\* The deferred status patch of a Worker's pass, or a Team's.  It is refused
\* when the copy was refreshed by AddFinalizer and the resource has been
\* written since.
End ==
    /\ pc = "end"
    /\ \E lost \in BOOLEAN :
        /\ Fault("patch", lost)
        /\ LET accepted == ~lost /\ PatchAccepted(work, work.base)
           IN /\ \/ accepted /\ Write([api EXCEPT !.status = PatchedStatus])
                 \/ ~accepted /\ UNCHANGED <<api, watch>>
              /\ recorded' = (recorded /\ accepted)
    /\ pc' = "idle"
    /\ work' = NoWork
    /\ UNCHANGED <<legacy, cache, env, edits, writes, seen, files, gateway>>

-----------------------------------------------------------------------------
(***************************************************************************)
(* Deletion                                                                *)
(***************************************************************************)
\* A marked resource, in the cache: the pass may be one too many, of a resource
\* that is gone already.
BeginDelete ==
    /\ ReadsCache
    /\ cache.deleting
    /\ cache.fin
    /\ pc' = "unexpose"

\* DeprovisionWorker, under the runtime name: the recorded ports, or the
\* spec's when none is recorded.
Unexpose ==
    /\ pc = "unexpose"
    /\ LET current == IF work.exposed = {} THEN work.spec.expose ELSE work.exposed
       IN gateway' = ReconcileExpose(RuntimeName, {}, current, {}).gateway
    /\ pc' = "cleanup"
    /\ UNCHANGED <<legacy, resource, work, seen, files, faults>>

\* CleanupOSSData; a failure is logged.
Cleanup ==
    /\ pc = "cleanup"
    /\ \E failed \in BOOLEAN :
        /\ Fault("write", failed)
        /\ store' = IF failed THEN store ELSE NoFiles
    /\ pc' = IF Leader THEN "unrow" ELSE "deny"
    /\ UNCHANGED <<legacy, resource, work, seen, archive, local, gateway>>

\* reconcileDelete of a standalone worker names the CR, of a Team the leader's
\* runtime name.
Deny == LegacyStep("deny", "deny.wait", IF Leader THEN "unfinalize" ELSE "unrow",
    [kind |-> "deny", file |-> "openclaw.json",
     id |-> IF Leader THEN RuntimeName ELSE CRName])

Unrow == LegacyStep("unrow", "unrow.wait", IF Leader THEN "deny" ELSE "unfinalize",
    [kind |-> "remove", file |-> "workers", id |-> RuntimeName])

\* A refused call is repeated with the whole deletion.
Unfinalize ==
    /\ pc = "unfinalize"
    /\ \/ FinalizerAccepted /\ Write(Unfinalized(api))
       \/ ~FinalizerAccepted /\ UNCHANGED <<api, watch>>
    /\ pc' = "idle"
    /\ work' = NoWork
    /\ UNCHANGED <<legacy, cache, env, edits, writes, recorded, seen, files, gateway, faults>>

-----------------------------------------------------------------------------
(***************************************************************************)
(* Everyone else                                                           *)
(***************************************************************************)
pass == <<pc, work, seen>>

\* The user edits or deletes the resource.
Edit ==
    /\ Live
    /\ edits < MaxEdits
    /\ edits' = edits + 1
    /\ \E s \in Specs \ {api.spec} : Write([api EXCEPT !.spec = s])
    /\ UNCHANGED <<legacy, cache, env, writes, recorded, pass, files, gateway, faults>>

Remove ==
    /\ Live
    /\ Write(Deleted(api))
    /\ UNCHANGED <<legacy, cache, env, edits, writes, recorded, pass, files, gateway, faults>>

\* The informer receives a version, or several.
Deliver ==
    /\ Receive
    /\ UNCHANGED <<legacy, env, edits, writes, recorded, pass, files, gateway, faults>>

\* The agent writes one of its files, or the user its plugin entries.
AgentFile ==
    \/ /\ store.soul # "absent"
       /\ store' = [store EXCEPT !.soul = "agent"]
    \/ /\ store.agents.user # "agent" /\ store.agents.builtin
       /\ store' = [store EXCEPT !.agents.user = "agent"]
    \/ /\ store.other = "package"
       /\ store' = [store EXCEPT !.other = "agent"]
    \/ /\ store.openclaw.here /\ ~store.openclaw.custom
       /\ store' = [store EXCEPT !.openclaw.custom = TRUE]

\* Or the user customises the Manager.
AgentWrites ==
    /\ Live
    /\ env.race \/ pc = "idle"
    /\ writes < MaxWrites
    /\ writes' = writes + 1
    /\ \/ /\ env.race \/ mu = Nobody
          /\ CustomiseManager
          /\ UNCHANGED store
       \/ UNCHANGED legacy /\ AgentFile
    /\ UNCHANGED <<kube, env, edits, recorded, pass, archive, local, gateway, faults>>

\* The other reconcilers call LegacyCompat: the Manager deploys its
\* configuration, a Team publishes or withdraws its leader and itself.
Others ==
    /\ \/ "manager" \in env.peers /\ Enter("manager", [kind |-> "put", file |-> "openclaw.json", id |-> "leader"])
       \/ \E k \in {"allow", "deny"} :
            "team" \in env.peers /\ Enter("team", [kind |-> k, file |-> "openclaw.json", id |-> "leader"])
       \/ \E k \in {"upsert", "remove"}, f \in Registries :
            "team" \in env.peers /\ Enter("team", [kind |-> k, file |-> f, id |-> "leader"])
    /\ UNCHANGED <<resource, pass, files, gateway, faults>>

\* GetObject and PutObject of a call in progress.
ReadFile(c) ==
    /\ \E missed \in BOOLEAN : Fault("read", missed) /\ Read(c, missed)
    /\ UNCHANGED <<resource, pass, files, gateway>>

StoreFile(c) ==
    /\ \E failed \in BOOLEAN : Fault("write", failed) /\ Store(c, failed)
    /\ UNCHANGED <<resource, pass, files, gateway>>

\* The controller process stops and starts again, with a new cache.
Crash ==
    /\ pc # "idle"
    /\ Fault("crash", TRUE)
    /\ LegacyCrash
    /\ Relist
    /\ recorded' = FALSE
    /\ pc' = "idle"
    /\ work' = NoWork
    /\ seen' = Unread
    /\ UNCHANGED <<env, edits, writes, files, gateway>>

-----------------------------------------------------------------------------
Pass ==
    \/ Begin \/ AddFinalizer \/ Infra \/ Resolve \/ Download \/ Package \/ Inline \/ SeedLocal
    \/ GetOpenClaw \/ PutOpenClaw \/ PutSoul \/ GetAgents \/ PutAgents
    \/ Container \/ Expose \/ GetContext \/ PutContext \/ Allow \/ Row \/ End
    \/ BeginDelete \/ Unexpose \/ Cleanup \/ Deny \/ Unrow \/ Unfinalize

Calls == \E c \in Callers : ReadFile(c) \/ StoreFile(c)

Next == Pass \/ Calls \/ Others \/ Deliver \/ Edit \/ Remove \/ AgentWrites \/ Crash

Spec == Init /\ [][Next]_vars

\* A pass runs to its end and is queued again after reconcileInterval or an
\* error; the watch delivers; a call to storage returns; the mutex is handed on;
\* the Manager's reconciler deploys its configuration on each of its passes.
FairSpec ==
    /\ Spec
    /\ SF_vars(Pass)
    /\ WF_vars(Deliver)
    /\ \A c \in Callers : WF_vars(ReadFile(c) \/ StoreFile(c))
    /\ SF_vars("manager" \in env.peers /\ Enter("manager", [kind |-> "put", file |-> "openclaw.json", id |-> "leader"])
               /\ UNCHANGED <<resource, pass, files, gateway, faults>>)
-----------------------------------------------------------------------------
(***************************************************************************)
(* Properties                                                              *)
(***************************************************************************)
\* What the agent or the user wrote is still there after a pass: SOUL.md unless
\* the spec holds its text, its part of AGENTS.md likewise, the files seeded
\* from the package, the plugin entries ("must not overwrite runtime-mutated
\* OSS state", deployer.go:169).  A failed read is taken for an absent file,
\* and a write of the agent between a read and the push is lost: neither is
\* assumed here.  A pass that reads a phase from before the first patch takes
\* itself for a first deployment and replaces the plugin entries.
AgentOwnsItsFiles ==
    [][/\ ~env.race
       /\ "read" \notin env.faults
       /\ Live
       => /\ store.soul = "agent" /\ work.spec.soul = "none" => store'.soul = "agent"
          /\ store.soul = "agent" /\ Leader => store'.soul = "agent"
          /\ store.agents.user = "agent" /\ work.spec.agents = "none" =>
                store'.agents.user = "agent"
          /\ store.other = "agent" => store'.other = "agent"
          /\ \/ ~recorded \/ "fatal" \in env.faults
             \/ store.openclaw.custom => store'.openclaw.custom]_vars

\* A reconciler changes only its own entry of a file it shares with others,
\* whatever the interleaving of their read-modify-write cycles: no one loses
\* its row or its right to speak to the Manager, nor the user the Manager's
\* plugin entries.  The mutex of LegacyCompat is for this; it does not help
\* against a failed read.
OthersEntriesKept ==
    [][\A c \in Callers :
         /\ "read" \notin env.faults /\ ~env.race
         /\ call[c].at = "write"
         /\ call'[c] = Idle
         => LET mine == IF call[c].op.kind = "put" THEN {} ELSE {call[c].op.id}
            IN /\ conf'.allow \ mine = conf.allow \ mine
               /\ conf.custom => conf'.custom
               /\ \A f \in Registries : rows'[f] \ mine = rows[f] \ mine]_vars

\* Every port the gateway routes for the worker is recorded in its status, so
\* that a later pass or the deletion closes it, whenever the spec was edited:
\* provided that each pass so far read the ports that were recorded, did not
\* fail and had its status patch accepted.  PortsFollowSpec shows what a late
\* read does.
PortsTracked ==
    /\ faults = 0 /\ recorded
    /\ pc = "idle"
    /\ Live
    => \A p \in Ports : <<CRName, p>> \in gateway => p \in api.status.exposed

\* A deleted worker leaves nothing: no object in storage, no row, no right to
\* speak to the Manager, however late its passes read it; and no port, if its
\* ports were recorded throughout.  (The agent's directory on the controller's
\* file system is not removed.  DeprovisionWorker and reconcileDelete use one
\* name where the passes used the other: a renamed worker is not covered.)
DeletedLeavesNothing ==
    /\ faults = 0
    /\ ~env.renamed
    /\ ~api.exists
    => /\ store = NoFiles
       /\ recorded => gateway = {}
       /\ "cr" \notin rows["workers"]
       /\ "cr" \notin conf.allow

\* Once the user is done editing, the deployed files, the gateway and the
\* Manager's lists are what the spec asks for: the inline texts win over the
\* package's, every agent has its coordination context, the ports are those of
\* the spec, the worker may speak to the Manager.  (A first SOUL.md whose push
\* fails is logged, the pass succeeds, and no later pass writes the default.)
Applied ==
    /\ store.openclaw.here
    /\ api.spec.soul # "none" /\ ~Leader => store.soul = api.spec.soul
    /\ store.soul # "absent" \/ "write" \in env.faults
    /\ api.spec.agents # "none" => store.agents.user = api.spec.agents
    /\ store.agents.builtin /\ store.agents.context
    /\ \/ Leader
       \/ ~recorded \/ env.faults \cap {"fatal", "write", "expose"} # {}
       \/ {n[2] : n \in gateway} = api.spec.expose
    /\ RuntimeName \in conf.allow
    /\ RuntimeName \in rows["workers"]

\* Whatever failed on the way, unless a crash tore the package's archive, which
\* every later pass takes for a cache hit.  The ports need every pass to succeed
\* and to have read what was recorded.
Deployed == <>~Live \/ <>[](archive = "partial") \/ []<>Applied

\* Once the user is done editing, the gateway routes the ports of the spec
\* ("removes resources for deleted ports", provisioner_expose.go:24).
PortsFollowSpec ==
    <>~Live \/ []<>({n[2] : n \in gateway} = api.spec.expose)
=============================================================================
