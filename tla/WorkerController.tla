-------------------------- MODULE WorkerController --------------------------
(***************************************************************************)
(* One standalone Worker CR, its container, the WorkerReconciler           *)
(* (worker_controller.go, member_reconcile.go) and the imperative          *)
(* lifecycle handlers (server/lifecycle_handler.go).                       *)
(*                                                                         *)
(* The reconciler reads the CR from the informer cache, which may lag the  *)
(* API server; it is interrupted by spec edits, by the handlers, by the    *)
(* container's own life and by crashes between any two of its calls.       *)
(***************************************************************************)
EXTENDS Backend, KubeApi

CONSTANTS
    Specs,          \* the worker specs a user may ask for
    Handlers,       \* concurrent requests to the lifecycle API
    Faults,         \* the kinds of failure the environment may inject
    MaxGen,         \* bound on metadata.generation: MaxGen - 1 spec edits
    MaxFaults,      \* bound on injected failures
    ReadsFinalizer  \* TRUE: the finalizer write reaches the informer cache
                    \* before the next reconcile of the CR starts

FaultKinds == {"api",      \* a request to the API server fails
               "infra",    \* a provisioning or config call fails
               "backend",  \* a status, delete, stop or start call fails
               "create",   \* a create call fails, perhaps half way
               "delete",   \* the finalizer's container delete fails
               "detect",   \* the Docker ping fails: no backend is available
               "exit",     \* the container stops by itself
               "crash"}    \* the controller process restarts

WorkerSpec == [state : {"", "Running", "Sleeping", "Stopped"}, managed : BOOLEAN]

ASSUME WorkerAssumption ==
    /\ Specs \subseteq WorkerSpec
    /\ Faults \subseteq FaultKinds
    /\ MaxGen \in Nat \ {0}
    /\ MaxFaults \in Nat
    /\ ReadsFinalizer \in BOOLEAN

VARIABLES
    ctr,      \* the member's container
    pc,       \* where the reconciler is
    w,        \* the reconciler's working copy of the CR
    base,     \* the copy its deferred status patch is computed against
    changed,  \* MemberContext.SpecChanged
    err,      \* reterr # nil
    hs,       \* the lifecycle requests in progress
    faults    \* failures injected so far

vars == <<api, cache, watch, ctr, pc, w, base, changed, err, hs, faults>>

Phases == {"", "Pending", "Failed", "Running", "Sleeping", "Stopped"}

Worker == [exists : BOOLEAN, rv : Nat, gen : Nat, spec : WorkerSpec,
           fin : BOOLEAN, deleting : BOOLEAN,
           obs : Nat, phase : Phases, mxid : BOOLEAN]

PCs == {"idle", "finalizer", "infra", "container", "start", "kill", "create",
        "patch", "cleanup", "unfinalize"}

Requests == [pc : {"idle", "update", "backend", "get", "status"},
             op : {"Running", "Sleeping"}, o : Worker]

\* The CR as POST /workers (or kubectl) leaves it.
NewWorker(s) == [exists |-> TRUE, rv |-> 1, gen |-> 1, spec |-> s,
                 fin |-> FALSE, deleting |-> FALSE,
                 obs |-> 0, phase |-> "", mxid |-> FALSE]

\* What an idle process holds: nothing.
Nil == [NewWorker([state |-> "", managed |-> TRUE]) EXCEPT !.exists = FALSE, !.rv = 0]

NoRequest == [pc |-> "idle", op |-> "Running", o |-> Nil]

DesiredState(s) == IF s.state = "" THEN "Running" ELSE s.state

Wants(s) == s.managed /\ DesiredState(s) = "Running"

TypeOK ==
    /\ api \in Worker /\ cache \in Worker /\ watch \subseteq Worker
    /\ ctr \in Container
    /\ pc \in PCs /\ w \in Worker /\ base \in Worker
    /\ changed \in BOOLEAN /\ err \in BOOLEAN
    /\ hs \in [Handlers -> Requests]
    /\ faults \in 0 .. MaxFaults

Init ==
    /\ \E s \in Specs : api = NewWorker(s)
    /\ cache = api /\ watch = {}
    /\ ctr = NoContainer
    /\ pc = "idle" /\ w = Nil /\ base = Nil /\ changed = FALSE /\ err = FALSE
    /\ hs = [h \in Handlers |-> NoRequest]
    /\ faults = 0

-----------------------------------------------------------------------------
(***************************************************************************)
(* The environment: failures, users, and the informer.                     *)
(***************************************************************************)
Fault(k) ==
    /\ k \in Faults
    /\ faults < MaxFaults
    /\ faults' = faults + 1

Deliver ==
    /\ Receive
    /\ UNCHANGED <<ctr, pc, w, base, changed, err, hs, faults>>

\* PUT /workers/{name}, hiclaw apply or kubectl: a spec edit bumps generation.
Edit ==
    /\ api.exists /\ ~api.deleting /\ api.gen < MaxGen
    /\ \E s \in Specs \ {api.spec} :
          Write([api EXCEPT !.spec = s, !.gen = @ + 1])
    /\ UNCHANGED <<cache, ctr, pc, w, base, changed, err, hs, faults>>

DeleteCR ==
    /\ api.exists /\ ~api.deleting
    /\ Write(Deleted(api))
    /\ UNCHANGED <<cache, ctr, pc, w, base, changed, err, hs, faults>>

-----------------------------------------------------------------------------
(***************************************************************************)
(* WorkerReconciler.Reconcile.                                             *)
(***************************************************************************)
Finish == /\ pc' = "idle" /\ w' = Nil /\ base' = Nil
          /\ changed' = FALSE /\ err' = FALSE

Goto(l) == pc' = l /\ UNCHANGED <<w, base, changed, err>>

\* An error ends the phases; only the deferred status patch is left.
Fail == pc' = "patch" /\ err' = TRUE /\ UNCHANGED <<w, base, changed>>

\* r.Get from the cache; a CR being deleted without our finalizer is left.
Begin ==
    /\ pc = "idle" /\ cache.exists
    /\ cache.deleting => cache.fin
    /\ ReadsFinalizer => (cache.fin \/ ~api.fin)
    /\ w' = cache /\ base' = cache
    /\ changed' = FALSE /\ err' = FALSE
    /\ pc' = CASE cache.deleting -> "cleanup"
               [] ~cache.deleting /\ cache.fin -> "infra"
               [] OTHER -> "finalizer"
    /\ UNCHANGED <<api, cache, watch, ctr, hs, faults>>

\* Mutant: the error of the finalizer patch is ignored.
AddFinalizerUnchecked ==
    /\ pc = "finalizer"
    /\ IF api.exists
       THEN Write([api EXCEPT !.fin = TRUE]) /\ w' = api'
       ELSE UNCHANGED <<api, watch, w>>
    /\ pc' = "infra"
    /\ UNCHANGED <<cache, ctr, base, changed, err, hs, faults>>

\* r.Patch adds the finalizer and refreshes the working copy from the reply.
\* When the CR is gone both this patch and the deferred one fail.
AddFinalizer ==
    /\ pc = "finalizer"
    /\ \/ /\ api.exists
          /\ Write([api EXCEPT !.fin = TRUE])
          /\ w' = api' /\ pc' = "infra"
          /\ UNCHANGED <<base, changed, err, faults>>
       \/ ~api.exists /\ Finish /\ UNCHANGED <<api, watch, faults>>
       \/ Fault("api") /\ Fail /\ UNCHANGED <<api, watch>>
    /\ UNCHANGED <<cache, ctr, hs>>

\* Mutant: without the ObservedGeneration > 0 gate.
SpecChangedUngated(o) == o.gen # o.obs

\* workerMemberContext's SpecChanged.
SpecChanged(o) == o.obs > 0 /\ o.gen # o.obs

\* ReconcileMemberInfra, EnsureModelProviderAuth, EnsureMemberServiceAccount
\* and ReconcileMemberConfig.  A failure after the first of them still
\* records the MatrixUserID in the working copy.
Infra ==
    /\ pc = "infra"
    /\ changed' = SpecChanged(w)
    /\ \/ /\ w' = [w EXCEPT !.mxid = TRUE] /\ pc' = "container"
          /\ UNCHANGED <<err, faults>>
       \/ /\ Fault("infra")
          /\ \E m \in {w.mxid, TRUE} : w' = [w EXCEPT !.mxid = m]
          /\ pc' = "patch" /\ err' = TRUE
    /\ UNCHANGED <<api, cache, watch, ctr, base, hs>>

\* Mutant: a container that is up is left alone whatever its spec.
DecisionKeepsLive(s) ==
    CASE s \in {"running", "starting"} -> "patch"
      [] s = "not_found" -> "create"
      [] OTHER           -> "kill"

\* Mutant: a stopped container is left alone.
DecisionKeepsStopped(s) ==
    CASE s \in {"running", "starting"} -> IF changed THEN "kill" ELSE "patch"
      [] s = "stopped"   -> "patch"
      [] s = "not_found" -> "create"
      [] OTHER           -> "kill"

\* ensureMemberContainerPresent: what the status read leads to.
Decision(s) ==
    CASE s \in {"running", "starting"} -> IF changed THEN "kill" ELSE "patch"
      [] s = "stopped"   -> IF BackendKind = "docker" /\ ~changed
                            THEN "start" ELSE "kill"
      [] s = "not_found" -> "create"
      [] OTHER           -> "kill"

\* ReconcileMemberContainer.  Without an available backend (DockerBackend
\* pings the daemon on every call) there is nothing to do and no error.
ReconcileContainer ==
    /\ pc = "container"
    /\ \/ /\ ~w.spec.managed
          /\ Goto("patch") /\ UNCHANGED <<ctr, faults>>
       \/ /\ w.spec.managed /\ DesiredState(w.spec) = "Running"
          /\ Goto(Decision(Status(ctr))) /\ UNCHANGED <<ctr, faults>>
       \/ /\ w.spec.managed /\ DesiredState(w.spec) = "Stopped"
          /\ ctr' = Delete(ctr) /\ Goto("patch") /\ UNCHANGED faults
       \/ /\ w.spec.managed /\ DesiredState(w.spec) = "Sleeping"
          /\ ctr' = Stop(ctr) /\ Goto("patch") /\ UNCHANGED faults
       \/ /\ w.spec.managed
          /\ Fault("backend") /\ Fail /\ UNCHANGED ctr
       \/ /\ w.spec.managed /\ BackendKind = "docker"
          /\ Fault("detect") /\ Goto("patch") /\ UNCHANGED ctr
    /\ UNCHANGED <<api, cache, watch, hs>>

KillContainer ==
    /\ pc = "kill"
    /\ \/ ctr' = Delete(ctr) /\ Goto("create") /\ UNCHANGED faults
       \/ Fault("backend") /\ Fail /\ UNCHANGED ctr
    /\ UNCHANGED <<api, cache, watch, hs>>

\* Starting a container that has vanished since the status read is an error.
StartContainer ==
    /\ pc = "start"
    /\ \/ ctr.st # "absent" /\ ctr' = Start(ctr) /\ Goto("patch") /\ UNCHANGED faults
       \/ ctr.st = "absent" /\ Fail /\ UNCHANGED <<ctr, faults>>
       \/ Fault("backend") /\ Fail /\ UNCHANGED ctr
    /\ UNCHANGED <<api, cache, watch, hs>>

\* The container the working copy asks for.
Requested == [st |-> "created", gen |-> w.gen, atObs |-> w.obs, term |-> FALSE]

\* createMemberContainer: ErrConflict counts as success.
CreateContainer ==
    /\ pc = "create"
    /\ \/ /\ \E o \in Create(ctr, Requested) : ctr' = o.ctr
          /\ Goto("patch") /\ UNCHANGED faults
       \/ /\ Fault("create")
          /\ \E o \in CreateFailure(ctr, Requested) : ctr' = o.ctr
          /\ Fail
    /\ UNCHANGED <<api, cache, watch, hs>>

\* Mutant: the lifecycle API's Ready is stored as a phase.
computeWorkerPhaseReady(o, e) ==
    IF ~e THEN IF Status(ctr) = "running" THEN "Ready" ELSE DesiredState(o.spec)
    ELSE IF ~o.mxid THEN "Failed" ELSE o.phase

computeWorkerPhase(o, e) ==
    IF ~e THEN DesiredState(o.spec)
    ELSE IF ~o.mxid THEN "Failed"
    ELSE IF o.phase = "" THEN "Pending" ELSE o.phase

\* The status the deferred function leaves in the working copy.
FinalStatus ==
    [w EXCEPT !.phase = computeWorkerPhase(w, err),
              !.obs   = IF err THEN @ ELSE w.gen]

\* Mutant: the whole status is written, not its difference from the base.
MergeWhole(o, b, n) == [o EXCEPT !.obs = n.obs, !.phase = n.phase, !.mxid = n.mxid]

\* The deferred status patch, applied to the CR in the API server.
Merge(o, b, n) ==
    [o EXCEPT !.obs   = Merged(@, b.obs, n.obs),
              !.phase = Merged(@, b.phase, n.phase),
              !.mxid  = Merged(@, b.mxid, n.mxid)]

PatchStatus ==
    /\ pc = "patch"
    /\ \/ w.deleting /\ UNCHANGED <<api, watch, faults>>
       \/ /\ ~w.deleting /\ PatchAccepted(w, base)
          /\ Write(Merge(api, base, FinalStatus)) /\ UNCHANGED faults
       \/ ~w.deleting /\ ~PatchAccepted(w, base) /\ UNCHANGED <<api, watch, faults>>
       \/ ~w.deleting /\ Fault("api") /\ UNCHANGED <<api, watch>>
    /\ Finish
    /\ UNCHANGED <<cache, ctr, hs>>

\* reconcileDelete up to the finalizer: a container delete that fails, or
\* that finds no backend, does not keep the CR.
Cleanup ==
    /\ pc = "cleanup"
    /\ \/ ctr' = Delete(ctr) /\ UNCHANGED faults
       \/ Fault("delete") /\ UNCHANGED ctr
    /\ Goto("unfinalize")
    /\ UNCHANGED <<api, cache, watch, hs>>

RemoveFinalizer ==
    /\ pc = "unfinalize"
    /\ \/ /\ api.exists
          /\ Write(Unfinalized(api))
          /\ UNCHANGED faults
       \/ ~api.exists /\ UNCHANGED <<api, watch, faults>>
       \/ Fault("api") /\ UNCHANGED <<api, watch>>
    /\ Finish
    /\ UNCHANGED <<cache, ctr, hs>>

-----------------------------------------------------------------------------
(***************************************************************************)
(* LifecycleHandler.Wake, Sleep and EnsureReady.  Wake and EnsureReady set *)
(* spec.state to Running, Sleep to Sleeping; each then calls the backend   *)
(* itself and writes status.phase.  Update and Status().Update carry the   *)
(* resourceVersion that was read, so a stale copy is refused.              *)
(***************************************************************************)
Request(h) ==
    /\ hs[h].pc = "idle" /\ cache.exists /\ cache.gen < MaxGen
    /\ \E op \in {"Running", "Sleeping"} :
          hs' = [hs EXCEPT ![h] = [pc |-> "update", op |-> op, o |-> cache]]
    /\ UNCHANGED <<api, cache, watch, ctr, pc, w, base, changed, err, faults>>

HandlerUpdate(h) ==
    /\ hs[h].pc = "update"
    /\ LET s == [api.spec EXCEPT !.state = hs[h].op] IN
       \/ /\ UpdateAccepted(hs[h].o)
          /\ Write([api EXCEPT !.spec = s,
                               !.gen = IF s = api.spec THEN @ ELSE @ + 1])
          /\ hs' = [hs EXCEPT ![h].pc = "backend", ![h].o = Nil]
       \/ /\ ~UpdateAccepted(hs[h].o)
          /\ hs' = [hs EXCEPT ![h] = NoRequest]
          /\ UNCHANGED <<api, watch>>
    /\ UNCHANGED <<cache, ctr, pc, w, base, changed, err, faults>>

\* The handlers drop the errors of Start and Stop.
HandlerBackend(h) ==
    /\ hs[h].pc = "backend"
    /\ \/ /\ ctr' = IF hs[h].op = "Running" THEN Start(ctr) ELSE Stop(ctr)
          /\ UNCHANGED faults
       \/ Fault("backend") /\ UNCHANGED ctr
    /\ hs' = [hs EXCEPT ![h].pc = "get"]
    /\ UNCHANGED <<api, cache, watch, pc, w, base, changed, err>>

HandlerGet(h) ==
    /\ hs[h].pc = "get"
    /\ hs' = [hs EXCEPT ![h].pc = "status", ![h].o = cache]
    /\ UNCHANGED <<api, cache, watch, ctr, pc, w, base, changed, err, faults>>

HandlerStatus(h) ==
    /\ hs[h].pc = "status"
    /\ IF UpdateAccepted(hs[h].o)
       THEN Write([api EXCEPT !.phase = hs[h].op])
       ELSE UNCHANGED <<api, watch>>
    /\ hs' = [hs EXCEPT ![h] = NoRequest]
    /\ UNCHANGED <<cache, ctr, pc, w, base, changed, err, faults>>

Handler(h) == HandlerUpdate(h) \/ HandlerBackend(h) \/ HandlerGet(h) \/ HandlerStatus(h)

-----------------------------------------------------------------------------
(***************************************************************************)
(* The container's own life, and the controller process.                   *)
(***************************************************************************)
PodStarts ==
    /\ BackendKind = "k8s" /\ ctr.st = "created" /\ ~ctr.term
    /\ ctr' = [ctr EXCEPT !.st = "running"]
    /\ UNCHANGED <<api, cache, watch, pc, w, base, changed, err, hs, faults>>

PodGone ==
    /\ ctr.term
    /\ ctr' = NoContainer
    /\ UNCHANGED <<api, cache, watch, pc, w, base, changed, err, hs, faults>>

\* The Pod's controller OwnerReference is the CR.
PodCollected ==
    /\ BackendKind = "k8s" /\ ~api.exists /\ Kept(ctr)
    /\ ctr' = Delete(ctr)
    /\ UNCHANGED <<api, cache, watch, pc, w, base, changed, err, hs, faults>>

ContainerExits ==
    /\ ctr.st = "running" /\ Fault("exit")
    /\ \E s \in {"exited", "unknown"} : ctr' = [ctr EXCEPT !.st = s]
    /\ UNCHANGED <<api, cache, watch, pc, w, base, changed, err, hs>>

\* The process restarts and lists the CR afresh; requests in flight are lost.
Crash ==
    /\ Fault("crash")
    /\ Finish /\ Relist
    /\ hs' = [h \in Handlers |-> NoRequest]
    /\ UNCHANGED ctr

Reconcile ==
    \/ Begin \/ AddFinalizer \/ Infra \/ ReconcileContainer \/ KillContainer
    \/ StartContainer \/ CreateContainer \/ PatchStatus \/ Cleanup \/ RemoveFinalizer

Next ==
    \/ Reconcile
    \/ Deliver \/ Edit \/ DeleteCR
    \/ \E h \in Handlers : Request(h) \/ Handler(h)
    \/ PodStarts \/ PodGone \/ PodCollected \/ ContainerExits \/ Crash

Spec == Init /\ [][Next]_vars

(***************************************************************************)
(* Every reconcile is followed by another (RequeueAfter on success, the    *)
(* rate-limited queue on error), the watch delivers what was written, an   *)
(* HTTP handler runs to its end, and a Pod starts, terminates and is       *)
(* collected.  Nothing is assumed of the users or of the faults.           *)
(***************************************************************************)
FairSpec ==
    /\ Spec
    /\ WF_vars(Reconcile) /\ WF_vars(Deliver)
    /\ \A h \in Handlers : WF_vars(Handler(h))
    /\ WF_vars(PodStarts) /\ WF_vars(PodGone) /\ WF_vars(PodCollected)

-----------------------------------------------------------------------------
(***************************************************************************)
(* Properties.                                                             *)
(***************************************************************************)

\* The finalizer is in place before anything is created and is removed only
\* after the container was deleted: no container outlives its CR, whatever
\* edits, deletions, restarts and stale reads happen in between.
NoOrphanContainer ==
    Kept(ctr) => api.exists /\ api.fin

\* Once status.observedGeneration equals metadata.generation, a container
\* that is up was built from that generation, unless its creator had read
\* observedGeneration 0 (the gate of workerMemberContext then hides every
\* later edit; ObservedMeansCurrent is that case).
ObservedContainerIsCurrent ==
    (/\ api.exists /\ api.obs = api.gen /\ Wants(api.spec)
     /\ Live(ctr) /\ ctr.atObs > 0) => ctr.gen = api.gen

\* MemberContext.SpecChanged is documented as "the desired spec differs from
\* the spec at which its container was last successfully provisioned".  If
\* so, an observed generation would always be the running one.
ObservedMeansCurrent ==
    (/\ api.exists /\ api.obs = api.gen /\ Wants(api.spec)
     /\ Live(ctr)) => ctr.gen = api.gen

\* The other half of the same sentence: a container built from the
\* generation of the copy being reconciled is not recreated.
RecreateMeansDiffers ==
    [][KillContainer /\ Live(ctr) => ctr.gen # w.gen]_vars

\* The purpose of the ObservedGeneration > 0 gate: until the first edit, no
\* reconcile deletes a container that is up, however stale its copy.
FirstContainerSurvives ==
    [][KillContainer /\ api.gen = 1 => ~Live(ctr)]_vars

\* Status patches carry no resourceVersion, yet no stale reconcile moves
\* status.observedGeneration back.
ObservedNeverRegresses ==
    [][api'.obs >= api.obs]_vars

\* The container's state and the status match the current spec, or a CR that
\* is being deleted is gone together with its container.
Converged ==
    IF ~api.exists \/ api.deleting
    THEN ~api.exists /\ ctr = NoContainer
    ELSE /\ api.obs = api.gen
         /\ api.phase = DesiredState(api.spec)
         /\ api.spec.managed =>
              CASE DesiredState(api.spec) = "Running" ->
                     ctr.st = "running" /\ ~ctr.term
                [] DesiredState(api.spec) = "Sleeping" ->
                     ctr.st # "running"
                [] OTHER -> ctr.st = "absent"

\* A worker that is to run runs the current generation of its spec.
RolledOut ==
    (api.exists /\ ~api.deleting /\ Wants(api.spec)) => ctr.gen = api.gen

\* An edit that finds no observed generation: the gate of workerMemberContext
\* hides it (ObservedMeansCurrent is that case).
EditedUnobserved == api.obs = 0 /\ api.gen > 1

\* Once edits and failures stop, the worker converges to its spec for good,
\* and what runs was built from the last edit, unless that edit was made
\* before any generation was observed.
Converges == <>[]Converged /\ (<>EditedUnobserved \/ <>[]RolledOut)
=============================================================================
