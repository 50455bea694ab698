--------------------------- MODULE TeamController ---------------------------
(***************************************************************************)
(* One Team CR, the containers, configuration and registry rows of its     *)
(* members, and the TeamReconciler (team_controller.go), which drives the  *)
(* member phases of member_reconcile.go for the leader and every worker.   *)
(*                                                                         *)
(* A member's source spec is a version number; hashMemberSourceSpec is     *)
(* that number, 0 the empty hash.  Every member's desired state is Running *)
(* and its runtime name is its name: the other desired states are those of *)
(* WorkerController, where the same function is modelled.  All calls for   *)
(* one member are one step: only this reconciler touches the member's      *)
(* resources, so a stop between two of them looks like the second failing. *)
(***************************************************************************)
EXTENDS Backend, KubeApi, FiniteSets

CONSTANTS
    Names,         \* the member names that appear in the Team, over time
    Leader,        \* the name of spec.leader
    PeerMentions,  \* spec.peerMentions
    Envs,          \* what the environment may do: see Env
    MaxVer,        \* bound on the versions of a member's spec
    MaxGen,        \* bound on metadata.generation: MaxGen - 1 spec edits
    MaxFaults      \* bound on injected failures

FaultKinds == {"api",     \* a request to the API server fails
               "infra",   \* a room, provisioning or config call fails
               "create",  \* a container call of a member fails
              "detect",  \* docker does not answer the ping: no backend
              "status",  \* a status of the summary cannot be read, or none
               "start",   \* docker creates a container and cannot start it
               "delete",  \* the cleanup of a member fails or finds no backend
               "exit",    \* a container stops by itself
               "crash"}   \* the controller process restarts

\* The assumptions a behaviour is run under: which failures happen, how far
\* the informer may be behind when a reconcile starts ("none": it has caught
\* up, "patches": it has received the first status patch, "any"), whether an
\* edit may bring back an earlier version of a member's spec, and which
\* members' containers can never be created.
Env == [faults : SUBSET FaultKinds, lag : {"none", "patches", "any"},
        reverts : BOOLEAN, broken : SUBSET Names]

ASSUME TeamAssumption ==
    /\ Leader \in Names
    /\ PeerMentions \in BOOLEAN
    /\ Envs \subseteq Env
    /\ MaxVer \in Nat \ {0} /\ MaxGen \in Nat \ {0} /\ MaxFaults \in Nat

VARIABLES
    env,     \* the environment, chosen once
    ctr,     \* the members' containers
    cfg,     \* the channel policy in each member's deployed config
    rows,    \* the members in workers-registry.json
    pc,      \* where the reconciler is
    w,       \* its working copy of the Team
    base,    \* the copy its status patch is computed against
    todo,    \* the desired members it has not reconciled yet
    errs,    \* perMemberErrors
    faults   \* failures injected so far

world == <<ctr, cfg, rows>>
local == <<pc, w, base, todo, errs>>
vars == <<api, cache, watch, env, ctr, cfg, rows, pc, w, base, todo, errs, faults>>

Phases == {"", "Pending", "Active", "Degraded", "Failed"}

MemberStatus == [listed : BOOLEAN, obs : BOOLEAN, hash : 0 .. MaxVer, ready : BOOLEAN]

NoMember == [listed |-> FALSE, obs |-> FALSE, hash |-> 0, ready |-> FALSE]

Team == [exists : BOOLEAN, rv : Nat, gen : Nat, fin : BOOLEAN, deleting : BOOLEAN,
         ver : [Names -> 0 .. MaxVer],          \* 0: not in the spec
         members : [Names -> MemberStatus], phase : Phases]

PCs == {"idle", "finalizer", "pending", "rooms", "stale", "members", "summary",
        "patch", "cleanup", "unfinalize"}

NewTeam(v) == [exists |-> TRUE, rv |-> 1, gen |-> 1, fin |-> FALSE, deleting |-> FALSE,
               ver |-> v, members |-> [m \in Names |-> NoMember], phase |-> ""]

Nil == [NewTeam([m \in Names |-> 0]) EXCEPT !.exists = FALSE, !.rv = 0, !.gen = 0]

Desired(t) == {m \in Names : t.ver[m] > 0}

Listed(t) == {m \in Names : t.members[m].listed}

\* leaderWorkerSpec and teamWorkerSpecToWorkerSpec: whom a member may answer
\* in a group.  Derived from the whole Team, and not part of the hash.
Policy(t, m) ==
    IF m = Leader \/ PeerMentions THEN Desired(t) \ {m} ELSE {Leader}

TypeOK ==
    /\ api \in Team /\ cache \in Team /\ watch \subseteq Team
    /\ env \in Envs
    /\ ctr \in [Names -> Container]
    /\ cfg \in [Names -> SUBSET Names] /\ rows \subseteq Names
    /\ pc \in PCs /\ w \in Team /\ base \in Team
    /\ todo \subseteq Names /\ errs \subseteq Names
    /\ faults \in 0 .. MaxFaults

Init ==
    /\ env \in Envs
    /\ \E ms \in SUBSET (Names \ {Leader}) :
          api = NewTeam([m \in Names |-> IF m = Leader \/ m \in ms THEN 1 ELSE 0])
    /\ cache = api /\ watch = {}
    /\ ctr = [m \in Names |-> NoContainer]
    /\ cfg = [m \in Names |-> {}] /\ rows = {}
    /\ pc = "idle" /\ w = Nil /\ base = Nil /\ todo = {} /\ errs = {}
    /\ faults = 0

-----------------------------------------------------------------------------
(***************************************************************************)
(* The environment: failures, users, the informer, the containers.         *)
(***************************************************************************)
Fault(k) ==
    /\ k \in env.faults
    /\ faults < MaxFaults
    /\ faults' = faults + 1

Deliver ==
    /\ Receive
    /\ UNCHANGED <<env, world, local, faults>>

\* PUT /teams/{name}, hiclaw apply or kubectl: one member is edited, added
\* or removed; the leader is always there.
Edit ==
    /\ api.exists /\ ~api.deleting /\ api.gen < MaxGen
    /\ \E m \in Names, v \in 0 .. MaxVer :
          /\ v # api.ver[m] /\ (m = Leader => v > 0)
          /\ env.reverts \/ v \in {0, api.gen + 1}
          /\ Write([api EXCEPT !.ver[m] = v, !.gen = @ + 1])
    /\ UNCHANGED <<cache, env, world, local, faults>>

DeleteCR ==
    /\ api.exists /\ ~api.deleting
    /\ Write(Deleted(api))
    /\ UNCHANGED <<cache, env, world, local, faults>>

ContainerExits ==
    /\ \E m \in Names : /\ ctr[m].st = "running"
                        /\ ctr' = [ctr EXCEPT ![m].st = "exited"]
    /\ Fault("exit")
    /\ UNCHANGED <<kube, env, cfg, rows, local>>

-----------------------------------------------------------------------------
(***************************************************************************)
(* TeamReconciler.Reconcile.                                               *)
(***************************************************************************)
Finish == pc' = "idle" /\ w' = Nil /\ base' = Nil /\ todo' = {} /\ errs' = {}

Begin ==
    /\ pc = "idle" /\ cache.exists
    /\ cache.deleting => cache.fin
    /\ env.lag = "none" => watch = {}
    /\ env.lag = "patches" => (cache.phase # "" \/ api.phase = "")
    /\ w' = cache /\ base' = cache /\ todo' = {} /\ errs' = {}
    /\ pc' = CASE cache.deleting -> "cleanup"
               [] ~cache.deleting /\ cache.fin -> "pending"
               [] OTHER -> "finalizer"
    /\ UNCHANGED <<kube, env, world, faults>>

\* r.Update carries the resourceVersion that was read: a stale copy is refused.
AddFinalizer ==
    /\ pc = "finalizer"
    /\ \/ /\ UpdateAccepted(w)
          /\ Write([api EXCEPT !.fin = TRUE])
          /\ w' = api' /\ base' = api' /\ pc' = "pending"
          /\ UNCHANGED <<todo, errs, faults>>
       \/ ~UpdateAccepted(w) /\ Finish /\ UNCHANGED <<api, watch, faults>>
       \/ Fault("api") /\ Finish /\ UNCHANGED <<api, watch>>
    /\ UNCHANGED <<cache, env, world>>

\* The first status patch: it also refreshes the working copy and the base.
\* The finalizer is there, so the object still exists.
MarkPending ==
    /\ pc = "pending"
    /\ \/ w.phase # "" /\ pc' = "rooms"
          /\ UNCHANGED <<api, watch, w, base, todo, errs, faults>>
       \/ /\ w.phase = ""
          /\ Write([api EXCEPT !.phase = "Pending"])
          /\ w' = api' /\ base' = api' /\ pc' = "rooms"
          /\ UNCHANGED <<todo, errs, faults>>
       \/ w.phase = "" /\ Fault("api") /\ Finish /\ UNCHANGED <<api, watch>>
    /\ UNCHANGED <<cache, env, world>>

\* Name checks, the team admin's login, the team's rooms, inline configs and
\* the model providers: the first failure ends in failTeam.
TeamInfra ==
    /\ pc = "rooms"
    /\ \/ pc' = "stale" /\ UNCHANGED <<w, faults>>
       \/ Fault("infra") /\ pc' = "patch" /\ w' = [w EXCEPT !.phase = "Failed"]
    /\ UNCHANGED <<kube, env, world, base, todo, errs>>

\* ReconcileMemberDelete and removeLegacyMember for every member of ms; a
\* failure is logged and nothing of that member is retried.
DeleteMembers(ms) ==
    \E failed \in SUBSET ms :
       /\ IF failed = {} THEN UNCHANGED faults ELSE Fault("delete")
       /\ ctr'  = [m \in Names |-> IF m \in ms \ failed THEN Delete(ctr[m]) ELSE ctr[m]]
       /\ cfg'  = [m \in Names |-> IF m \in ms \ failed THEN {} ELSE cfg[m]]
       /\ rows' = rows \ (ms \ failed)

\* Mutant: the entries are pruned from the status and nothing is deleted.
CleanStaleStatusOnly ==
    /\ pc = "stale"
    /\ w' = [w EXCEPT !.members = [m \in Names |->
                IF m \in Desired(w) THEN w.members[m] ELSE NoMember]]
    /\ todo' = Desired(w) /\ pc' = "members"
    /\ UNCHANGED <<kube, env, world, base, errs, faults>>

\* Members in the status that the spec no longer names are deleted, and then
\* pruned from the status whether or not that worked.
CleanStale ==
    /\ pc = "stale"
    /\ DeleteMembers(Listed(w) \ Desired(w))
    /\ w' = [w EXCEPT !.members = [m \in Names |->
                IF m \in Desired(w) THEN w.members[m] ELSE NoMember]]
    /\ todo' = Desired(w) /\ pc' = "members"
    /\ UNCHANGED <<kube, env, base, errs>>

\* Mutant: one hash for the whole Team.
memberSpecChangedTeamWide(t, m) ==
    \E n \in Desired(t) : t.members[n].hash # 0 /\ t.members[n].hash # t.ver[n]

\* memberSpecChanged: a missing hash never counts as changed.
memberSpecChanged(t, m) ==
    t.members[m].hash # 0 /\ t.members[m].hash # t.ver[m]

\* The container a member's working copy asks for; atObs is the stored hash.
Requested(m) == [st |-> "created", gen |-> w.ver[m],
                 atObs |-> w.members[m].hash, term |-> FALSE]

\* ensureMemberContainerPresent: what it does about the container it finds.
Decision(m) ==
    LET s == Status(ctr[m])
        changed == memberSpecChanged(w, m) IN
    CASE s \in {"running", "starting"} /\ ~changed -> "keep"
      [] s = "stopped" /\ ~changed /\ BackendKind = "docker" -> "start"
      [] OTHER -> "replace"

\* The container afterwards, without and with a failing call.
ContainerPresent(m) ==
    CASE Decision(m) = "keep"  -> {ctr[m]}
      [] Decision(m) = "start" -> {Start(ctr[m])}
      [] OTHER -> {o.ctr : o \in Create(Delete(ctr[m]), Requested(m))}

ContainerFails(m, k) ==
    LET broken == {o.ctr : o \in CreateFailure(Delete(ctr[m]), Requested(m))} IN
    {ctr[m]} \cup IF Decision(m) = "replace"
                  THEN {c \in broken : (c.st = "created") = (k = "start")}
                  ELSE {}

\* Mutant: the config is deployed only when the member's own spec changed.
ConfigIfChanged(m) == IF memberSpecChanged(w, m) \/ ~w.members[m].obs
                      THEN Policy(w, m) ELSE cfg[m]

\* ReconcileMemberConfig deploys the whole config on every pass.
Config(m) == Policy(w, m)

\* Mutant: the hash is recorded although the container phase failed.
RecordedHashEarly(m, ok) == w.ver[m]

RecordedHash(m, ok) == IF ok THEN w.ver[m] ELSE w.members[m].hash

\* reconcileMember, the hash and the registry row for one desired member.
\* The entry is created first, Observed set once the infrastructure is
\* there, the hash and the row recorded only when everything succeeded.
ReconcileMember(m) ==
    /\ pc = "members" /\ m \in todo
    /\ Leader \in todo => m = Leader
    /\ todo' = todo \ {m}
    /\ \/ /\ Fault("infra")                         \* provision or refresh
          /\ w' = [w EXCEPT !.members[m].listed = TRUE]
          /\ errs' = errs \cup {m}
          /\ UNCHANGED world
       \/ /\ Fault("infra")                         \* ServiceAccount, config
          /\ w' = [w EXCEPT !.members[m].listed = TRUE, !.members[m].obs = TRUE]
          /\ errs' = errs \cup {m}
          /\ UNCHANGED world
       \/ /\ \E k \in {"create", "start"} :
                /\ IF m \in env.broken THEN k = "create" /\ UNCHANGED faults ELSE Fault(k)
                /\ \E c \in ContainerFails(m, k) : ctr' = [ctr EXCEPT ![m] = c]
          /\ w' = [w EXCEPT !.members[m].listed = TRUE, !.members[m].obs = TRUE,
                            !.members[m].hash = RecordedHash(m, FALSE)]
          /\ errs' = errs \cup {m}
          /\ cfg' = [cfg EXCEPT ![m] = Config(m)]
          /\ UNCHANGED rows
       \/ /\ m \notin env.broken
          /\ w' = [w EXCEPT !.members[m].listed = TRUE, !.members[m].obs = TRUE,
                            !.members[m].hash = RecordedHash(m, TRUE)]
          /\ cfg' = [cfg EXCEPT ![m] = Config(m)]
          /\ \E c \in ContainerPresent(m) : ctr' = [ctr EXCEPT ![m] = c]
          /\ rows' = rows \cup {m}
          /\ UNCHANGED <<errs, faults>>
       \/ /\ BackendKind = "docker" /\ Fault("detect") \* no error, no container call
          /\ w' = [w EXCEPT !.members[m].listed = TRUE, !.members[m].obs = TRUE,
                            !.members[m].hash = RecordedHash(m, TRUE)]
          /\ cfg' = [cfg EXCEPT ![m] = Config(m)]
          /\ rows' = rows \cup {m}
          /\ UNCHANGED <<ctr, errs>>
    /\ pc' = "members"
    /\ UNCHANGED <<kube, env, base>>

\* Mutant: the backend's word for a member that is up.
TeamPhaseOfBackend(up) == IF errs # {} THEN "Degraded"
                          ELSE IF up = Desired(w) THEN "Running" ELSE "Pending"

TeamPhase(up) == IF errs # {} THEN "Degraded"
                 ELSE IF up = Desired(w) THEN "Active" ELSE "Pending"

\* summarizeBackendReadiness and the phase.  A member whose status cannot be
\* read keeps its recorded readiness and does not count as ready.
Summarise ==
    /\ pc = "members" /\ todo = {}
    /\ \E seen \in SUBSET Desired(w) :
          LET up == {m \in seen : Status(ctr[m]) = "running"} IN
          /\ IF seen = Desired(w) THEN UNCHANGED faults ELSE Fault("status")
          /\ w' = [w EXCEPT
                     !.members = [m \in Names |->
                        IF m \in seen THEN [w.members[m] EXCEPT !.ready = m \in up]
                                     ELSE w.members[m]],
                     !.phase = TeamPhase(up)]
    /\ pc' = "patch"
    /\ UNCHANGED <<kube, env, world, base, todo, errs>>

\* A merge patch replaces the whole members array when it differs at all.
Merge(o, b, n) ==
    [o EXCEPT !.members = Merged(@, b.members, n.members),
              !.phase   = Merged(@, b.phase, n.phase)]

\* The status patch; it carries no resourceVersion and its failure is logged.
PatchStatus ==
    /\ pc = "patch"
    /\ \/ Write(Merge(api, base, w)) /\ UNCHANGED faults
       \/ Fault("api") /\ UNCHANGED <<api, watch>>
    /\ Finish
    /\ UNCHANGED <<cache, env, world>>

\* Mutant: only the members of the spec are cleaned up.
CleanupSpecOnly ==
    /\ pc = "cleanup"
    /\ DeleteMembers(Desired(w))
    /\ pc' = "unfinalize"
    /\ UNCHANGED <<kube, env, w, base, todo, errs>>

\* handleDelete: the union of the members in the status and in the spec.
HandleDelete ==
    /\ pc = "cleanup"
    /\ DeleteMembers(Listed(w) \cup Desired(w))
    /\ pc' = "unfinalize"
    /\ UNCHANGED <<kube, env, w, base, todo, errs>>

RemoveFinalizer ==
    /\ pc = "unfinalize"
    /\ \/ UpdateAccepted(w) /\ Write(Unfinalized(api)) /\ UNCHANGED faults
       \/ ~UpdateAccepted(w) /\ UNCHANGED <<api, watch, faults>>
       \/ Fault("api") /\ UNCHANGED <<api, watch>>
    /\ Finish
    /\ UNCHANGED <<cache, env, world>>

Crash ==
    /\ Fault("crash")
    /\ Finish /\ Relist
    /\ UNCHANGED <<env, world>>

Reconcile ==
    \/ Begin \/ AddFinalizer \/ MarkPending \/ TeamInfra \/ CleanStale
    \/ \E m \in Names : ReconcileMember(m)
    \/ Summarise \/ PatchStatus \/ HandleDelete \/ RemoveFinalizer

Next ==
    \/ Reconcile
    \/ Deliver \/ Edit \/ DeleteCR \/ ContainerExits \/ Crash

Spec == Init /\ [][Next]_vars

\* Every pass asks for another one, and the watch delivers what was written.
FairSpec == Spec /\ WF_vars(Reconcile) /\ WF_vars(Deliver)

-----------------------------------------------------------------------------
(***************************************************************************)
(* Properties.                                                             *)
(***************************************************************************)

\* No pass loses its status patch or its cleanup, misses the backend, or
\* starts from a copy older than its predecessor's patch; and no container is
\* left created and never started, which WorkerController's run worker_created
\* is about.
Calm == /\ env.lag = "none"
        /\ env.faults \cap {"api", "delete", "detect", "crash", "start"} = {}

\* status.members[].specHash is the version the member's container was built
\* from whenever it equals the spec's: the SpecHash of types.go, "at the last
\* successful full-phase reconcile".  A container created while no hash was
\* stored is excepted: memberSpecChanged ignores an empty hash.
HashAlwaysCurrent ==
    \A m \in Names :
       (/\ api.exists /\ api.ver[m] > 0 /\ api.members[m].hash = api.ver[m]
        /\ Live(ctr[m]) /\ ctr[m].atObs > 0) => ctr[m].gen = api.ver[m]

\* A pass starts from the Team as it is; no edit restores an earlier version,
\* whose hash a lost patch may have left behind; no cleanup of a removed member
\* fails, which leaves a container to be found by its successor; and no pass
\* misses the backend, which counts as a success and records the hash over
\* whatever container there is.
Recorded == /\ env.lag = "none" /\ ~env.reverts
            /\ env.faults \cap {"delete", "detect"} = {}

\* The same where passes may fail anywhere else: patches, creations and the
\* process may be lost in any order.
HashMeansCurrent == Recorded => HashAlwaysCurrent

\* What the Team still records of a member: the CR itself, or the pass that
\* is running.
Tracked(m) ==
    \/ m \in Desired(api) \cup Listed(api)
    \/ pc # "idle" /\ m \in Desired(w) \cup Listed(w)

\* A member's container is reachable from the Team CR: the spec or the
\* status names it until it has been deleted, and the finalizer keeps the CR.
\* It needs every status patch to arrive; MembersNeverOrphaned does not.
MembersTracked ==
    Calm => \A m \in Names : Kept(ctr[m]) => api.exists /\ api.fin /\ Tracked(m)

\* The same in any environment.  handleDelete says its union of status and
\* spec is there "to guarantee cleanup even when reconcile failed before
\* writing Status.Members".
MembersNeverOrphaned ==
    \A m \in Names : Kept(ctr[m]) => api.exists /\ api.fin /\ Tracked(m)

\* A Team that is up stays Active: the comment of summarizeBackendReadiness
\* wants no "transient backend outage" to "flap Phase=Active back to Pending".
ActiveDoesNotFlap ==
    [][(/\ Summarise /\ w.phase = "Active" /\ errs = {}
        /\ \A m \in Desired(w) : ctr[m].st = "running" /\ w.members[m].ready)
          => w'.phase = "Active"]_vars

\* Editing, adding or removing one member recreates no other: a running
\* container of the version being reconciled is never replaced.
PeersUndisturbed ==
    [][Calm => \A m \in Names :
          ReconcileMember(m) /\ ctr[m].st = "running" /\ ctr[m].gen = w.ver[m]
             => ctr'[m] = ctr[m] \/ m \in errs']_vars

\* A member is up in its current version, with a config for the current
\* team and a registry row; a member that was removed has nothing left.
MemberConverged(m) ==
    IF api.exists /\ ~api.deleting /\ m \in Desired(api)
    THEN /\ ctr[m].st = "running" /\ ctr[m].gen = api.ver[m]
         /\ cfg[m] = Policy(api, m) /\ m \in rows
         /\ api.members[m].hash = api.ver[m] /\ api.members[m].ready
    ELSE ctr[m] = NoContainer /\ cfg[m] = {} /\ m \notin rows

\* Once edits and failures stop, every member that can be created converges,
\* although members in env.broken fail on every pass; removed members leave
\* nothing behind, and a deleted Team goes away with all of its members.
Converges ==
    Calm => <>[](/\ \A m \in Names \ env.broken : MemberConverged(m)
                 /\ api.deleting => ~api.exists
                 /\ api.exists => api.phase = IF env.broken \cap Desired(api) # {}
                                              THEN "Degraded" ELSE "Active")
=============================================================================
