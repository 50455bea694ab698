-------------------------- MODULE ManagerController --------------------------
(***************************************************************************)
(* One Manager CR, its container, and the ManagerReconciler                *)
(* (manager_controller.go, manager_reconcile_*.go) with the first-boot     *)
(* welcome message it claims in status.welcomeSent before sending.         *)
(*                                                                         *)
(* The structure is that of WorkerController; the differences are the      *)
(* code's: the finalizer goes through Update and not Patch, the spec-change *)
(* test has no ObservedGeneration > 0 gate, Stopped stops before deleting, *)
(* and a reconcile may write the status twice.                             *)
(***************************************************************************)
EXTENDS Backend, KubeApi

CONSTANTS
    States,      \* the values of spec.state a user may ask for
    Faults,      \* the kinds of failure the environment may inject
    MaxGen,      \* bound on metadata.generation: MaxGen - 1 spec edits
    MaxFaults,   \* bound on injected failures
    MaxSent      \* the counts of the welcome saturate here

FaultKinds == {"api",      \* a request to the API server fails
               "infra",    \* a provisioning or config call fails
               "backend",  \* a status, delete, stop or start call fails
               "create",   \* a create call fails, perhaps half way
               "delete",   \* the finalizer's container delete fails
               "detect",   \* the Docker ping fails: no backend is available
               "send",     \* a Matrix or gateway call of the welcome fails
               "exit",     \* the container stops by itself
               "crash"}    \* the controller process restarts

ASSUME ManagerAssumption ==
    /\ States \subseteq {"Running", "Sleeping", "Stopped"}
    /\ Faults \subseteq FaultKinds
    /\ MaxGen \in Nat \ {0} /\ MaxFaults \in Nat /\ MaxSent \in Nat

VARIABLES
    ctr,      \* the manager's container
    pc,       \* where the reconciler is
    m,        \* the reconciler's working copy of the CR
    base,     \* managerScope.patchBase
    err,      \* reterr # nil
    joined,   \* the manager's Matrix user has joined the Admin DM room
    keyed,    \* the gateway accepts the manager's consumer key
    sent,     \* welcome messages posted to the room
    unseen,   \* reconciles that began before their cache showed the claim
    faults    \* failures injected so far

vars == <<api, cache, watch, ctr, pc, m, base, err, joined, keyed, sent, unseen, faults>>

Phases == {"", "Pending", "Failed", "Running", "Sleeping", "Stopped"}

\* mxid: status.matrixUserID and status.roomID, which are set together.
Manager == [exists : BOOLEAN, rv : Nat, gen : Nat, state : {"Running", "Sleeping", "Stopped"},
            fin : BOOLEAN, deleting : BOOLEAN,
            obs : Nat, phase : Phases, mxid : BOOLEAN, welcome : BOOLEAN]

PCs == {"idle", "finalizer", "infra", "container", "start", "kill", "create",
        "welcome", "claim", "send", "patch", "cleanup", "unfinalize"}

NewManager(s) == [exists |-> TRUE, rv |-> 1, gen |-> 1, state |-> s,
                  fin |-> FALSE, deleting |-> FALSE,
                  obs |-> 0, phase |-> "", mxid |-> FALSE, welcome |-> FALSE]

\* What an idle reconciler holds: nothing.
Nil == [NewManager("Running") EXCEPT !.exists = FALSE, !.rv = 0]

TypeOK ==
    /\ api \in Manager /\ cache \in Manager /\ watch \subseteq Manager
    /\ ctr \in Container
    /\ pc \in PCs /\ m \in Manager /\ base \in Manager /\ err \in BOOLEAN
    /\ joined \in BOOLEAN /\ keyed \in BOOLEAN
    /\ sent \in 0 .. MaxSent /\ unseen \in 0 .. MaxSent /\ faults \in 0 .. MaxFaults

Init ==
    /\ \E s \in States : api = NewManager(s)
    /\ cache = api /\ watch = {}
    /\ ctr = NoContainer
    /\ pc = "idle" /\ m = Nil /\ base = Nil /\ err = FALSE
    /\ joined = FALSE /\ keyed = FALSE /\ sent = 0 /\ unseen = 0 /\ faults = 0

outside == <<joined, keyed, sent, unseen>>

\* Adds one, up to the bound.
Counted(n) == IF n < MaxSent THEN n + 1 ELSE n

-----------------------------------------------------------------------------
(***************************************************************************)
(* The environment: failures, users, the informer, Matrix and the gateway. *)
(***************************************************************************)
Fault(k) ==
    /\ k \in Faults
    /\ faults < MaxFaults
    /\ faults' = faults + 1

Deliver ==
    /\ Receive
    /\ UNCHANGED <<ctr, pc, m, base, err, outside, faults>>

\* A spec edit, of spec.state or of anything else.
Edit ==
    /\ api.exists /\ ~api.deleting /\ api.gen < MaxGen
    /\ \E s \in States : Write([api EXCEPT !.state = s, !.gen = @ + 1])
    /\ UNCHANGED <<cache, ctr, pc, m, base, err, outside, faults>>

DeleteCR ==
    /\ api.exists /\ ~api.deleting
    /\ Write(Deleted(api))
    /\ UNCHANGED <<cache, ctr, pc, m, base, err, outside, faults>>

\* The agent joins the room at its first /sync, once its container runs.
AgentJoins ==
    /\ ctr.st = "running" /\ ~joined /\ joined' = TRUE
    /\ UNCHANGED <<kube, ctr, pc, m, base, err, keyed, sent, unseen, faults>>

\* The gateway's key-auth filter picks up the consumer credential.
KeyPropagates ==
    /\ ~keyed /\ keyed' = TRUE
    /\ UNCHANGED <<kube, ctr, pc, m, base, err, joined, sent, unseen, faults>>

-----------------------------------------------------------------------------
(***************************************************************************)
(* ManagerReconciler.Reconcile.                                            *)
(***************************************************************************)
Finish == pc' = "idle" /\ m' = Nil /\ base' = Nil /\ err' = FALSE

Goto(l) == pc' = l /\ UNCHANGED <<m, base, err>>

\* An error ends the phases; only the deferred status patch is left.
Fail == pc' = "patch" /\ err' = TRUE /\ UNCHANGED <<m, base>>

Begin ==
    /\ pc = "idle" /\ cache.exists
    /\ cache.deleting => cache.fin
    /\ m' = cache /\ base' = cache /\ err' = FALSE
    /\ unseen' = IF api.welcome /\ ~cache.welcome THEN Counted(unseen) ELSE unseen
    /\ pc' = CASE cache.deleting -> "cleanup"
               [] ~cache.deleting /\ cache.fin -> "infra"
               [] OTHER -> "finalizer"
    /\ UNCHANGED <<kube, ctr, joined, keyed, sent, faults>>

\* r.Update: refused for a stale copy, and it refreshes an accepted one.
AddFinalizer ==
    /\ pc = "finalizer"
    /\ \/ /\ UpdateAccepted(m)
          /\ Write([api EXCEPT !.fin = TRUE])
          /\ m' = api' /\ pc' = "infra"
          /\ UNCHANGED <<base, err, faults>>
       \/ ~UpdateAccepted(m) /\ Fail /\ UNCHANGED <<api, watch, faults>>
       \/ Fault("api") /\ Fail /\ UNCHANGED <<api, watch>>
    /\ UNCHANGED <<cache, ctr, outside>>

\* reconcileManagerInfrastructure, the model provider's authorization, the
\* ServiceAccount and reconcileManagerConfig.
Infra ==
    /\ pc = "infra"
    /\ \/ /\ m' = [m EXCEPT !.mxid = TRUE] /\ pc' = "container"
          /\ UNCHANGED <<err, faults>>
       \/ /\ Fault("infra")
          /\ \E b \in {m.mxid, TRUE} : m' = [m EXCEPT !.mxid = b]
          /\ pc' = "patch" /\ err' = TRUE
    /\ UNCHANGED <<kube, ctr, base, outside>>

\* Mutant: with the gate of workerMemberContext.
SpecChangedGated(o) == o.obs > 0 /\ o.gen # o.obs

SpecChanged(o) == o.gen # o.obs

\* Mutant: a container that is up is left alone whatever its spec.
DecisionKeepsLive(s) ==
    CASE s \in {"running", "starting"} -> "welcome"
      [] s = "not_found" -> "create"
      [] OTHER           -> "kill"

\* ensureManagerContainerPresent: what the status read leads to.
Decision(s) ==
    CASE s \in {"running", "starting"} -> IF SpecChanged(m) THEN "kill" ELSE "welcome"
      [] s = "stopped"   -> IF BackendKind = "docker" /\ ~SpecChanged(m)
                            THEN "start" ELSE "kill"
      [] s = "not_found" -> "create"
      [] OTHER           -> "kill"

\* reconcileManagerContainer.  Without an available backend there is nothing
\* to do and no error.
ReconcileContainer ==
    /\ pc = "container"
    /\ \/ /\ m.state = "Running"
          /\ Goto(Decision(Status(ctr))) /\ UNCHANGED <<ctr, faults>>
       \/ /\ m.state = "Stopped"
          /\ ctr' = Delete(Stop(ctr)) /\ Goto("welcome") /\ UNCHANGED faults
       \/ /\ m.state = "Sleeping"
          /\ ctr' = Stop(ctr) /\ Goto("welcome") /\ UNCHANGED faults
       \/ Fault("backend") /\ Fail /\ UNCHANGED ctr
       \/ /\ BackendKind = "docker"
          /\ Fault("detect") /\ Goto("welcome") /\ UNCHANGED ctr
    /\ UNCHANGED <<kube, outside>>

KillContainer ==
    /\ pc = "kill"
    /\ \/ ctr' = Delete(ctr) /\ Goto("create") /\ UNCHANGED faults
       \/ Fault("backend") /\ Fail /\ UNCHANGED ctr
    /\ UNCHANGED <<kube, outside>>

\* Only the reconciler removes the container (the lifecycle API serves
\* workers), so it is still there.
StartContainer ==
    /\ pc = "start"
    /\ \/ ctr.st # "absent" /\ ctr' = Start(ctr) /\ Goto("welcome") /\ UNCHANGED faults
       \/ Fault("backend") /\ Fail /\ UNCHANGED ctr
    /\ UNCHANGED <<kube, outside>>

\* The container the working copy asks for.
Requested == [st |-> "created", gen |-> m.gen, atObs |-> m.obs, term |-> FALSE]

\* createManagerContainer: ErrConflict counts as success.
CreateContainer ==
    /\ pc = "create"
    /\ \/ /\ \E o \in Create(ctr, Requested) : ctr' = o.ctr
          /\ Goto("welcome") /\ UNCHANGED faults
       \/ /\ Fault("create")
          /\ \E o \in CreateFailure(ctr, Requested) : ctr' = o.ctr
          /\ Fail
    /\ UNCHANGED <<kube, outside>>

(***************************************************************************)
(* reconcileManagerWelcome: the gates, the claim, the send.  A gate that   *)
(* is closed, or that cannot be read, leaves the welcome to the next       *)
(* reconcile; a container status that cannot be read, or no backend to     *)
(* read it from, does not close it.                                        *)
(***************************************************************************)
\* Mutant: the welcome is tried only while a new spec is rolled out.
MayWelcomeOnChange == ~m.welcome /\ m.mxid /\ joined /\ keyed /\ SpecChanged(m)

MayWelcome == ~m.welcome /\ m.mxid /\ joined /\ keyed

WelcomeGates ==
    /\ pc = "welcome"
    /\ \/ MayWelcome /\ Status(ctr) = "running" /\ Goto("claim") /\ UNCHANGED faults
       \/ MayWelcome /\ Fault("backend") /\ Goto("claim")
       \/ MayWelcome /\ BackendKind = "docker" /\ Fault("detect") /\ Goto("claim")
       \/ MayWelcome /\ Status(ctr) = "running" /\ Fault("send") /\ Goto("patch")
       \/ /\ ~(MayWelcome /\ Status(ctr) = "running")
          /\ Goto("patch") /\ UNCHANGED faults
    /\ UNCHANGED <<kube, ctr, outside>>

\* Mutant: the claim is left to the deferred status patch.
ClaimDeferred ==
    /\ pc = "claim"
    /\ m' = [m EXCEPT !.welcome = TRUE] /\ pc' = "send"
    /\ UNCHANGED <<kube, ctr, base, err, outside, faults>>

\* Status().Patch of a copy of m that differs from m in welcomeSent only:
\* both carry m's resourceVersion, so the patch asks for no lock.
Claim ==
    /\ pc = "claim"
    /\ \/ /\ PatchAccepted(m, m)
          /\ Write([api EXCEPT !.welcome = TRUE])
          /\ m' = [m EXCEPT !.welcome = TRUE] /\ pc' = "send"
          /\ UNCHANGED <<base, err, faults>>
       \/ ~PatchAccepted(m, m) /\ Goto("patch") /\ UNCHANGED <<api, watch, faults>>
       \/ Fault("api") /\ Goto("patch") /\ UNCHANGED <<api, watch>>
    /\ UNCHANGED <<cache, ctr, outside>>

\* A failed send is logged; the claim is kept.
Send ==
    /\ pc = "send"
    /\ \/ sent' = Counted(sent) /\ UNCHANGED faults
       \/ Fault("send") /\ UNCHANGED sent
    /\ Goto("patch")
    /\ UNCHANGED <<kube, ctr, joined, keyed, unseen>>

\* Mutant: the backend's Ready is stored as a phase.
computeManagerPhaseReady(o, e) ==
    IF ~e THEN IF Status(ctr) = "running" THEN "Ready" ELSE o.state
    ELSE IF ~o.mxid THEN "Failed" ELSE o.phase

computeManagerPhase(o, e) ==
    IF ~e THEN o.state
    ELSE IF ~o.mxid THEN "Failed"
    ELSE IF o.phase = "" THEN "Pending" ELSE o.phase

\* The status the deferred function leaves in the working copy.
FinalStatus ==
    [m EXCEPT !.phase = computeManagerPhase(m, err),
              !.obs   = IF err THEN @ ELSE m.gen]

\* The deferred status patch, applied to the CR in the API server.
Merge(o, b, n) ==
    [o EXCEPT !.obs     = Merged(@, b.obs, n.obs),
              !.phase   = Merged(@, b.phase, n.phase),
              !.mxid    = Merged(@, b.mxid, n.mxid),
              !.welcome = Merged(@, b.welcome, n.welcome)]

PatchStatus ==
    /\ pc = "patch"
    /\ \/ m.deleting /\ UNCHANGED <<api, watch, faults>>
       \/ /\ ~m.deleting /\ PatchAccepted(m, base)
          /\ Write(Merge(api, base, FinalStatus)) /\ UNCHANGED faults
       \/ ~m.deleting /\ ~PatchAccepted(m, base) /\ UNCHANGED <<api, watch, faults>>
       \/ ~m.deleting /\ Fault("api") /\ UNCHANGED <<api, watch>>
    /\ Finish
    /\ UNCHANGED <<cache, ctr, outside>>

\* reconcileManagerDelete up to the finalizer: a container delete that
\* fails, or that finds no backend, does not keep the CR.
Cleanup ==
    /\ pc = "cleanup"
    /\ \/ ctr' = Delete(ctr) /\ UNCHANGED faults
       \/ Fault("delete") /\ UNCHANGED ctr
    /\ Goto("unfinalize")
    /\ UNCHANGED <<kube, outside>>

\* Here the finalizer is removed with Update.
RemoveFinalizer ==
    /\ pc = "unfinalize"
    /\ \/ UpdateAccepted(m) /\ Write(Unfinalized(api)) /\ UNCHANGED faults
       \/ ~UpdateAccepted(m) /\ UNCHANGED <<api, watch, faults>>
       \/ Fault("api") /\ UNCHANGED <<api, watch>>
    /\ Finish
    /\ UNCHANGED <<cache, ctr, outside>>

-----------------------------------------------------------------------------
(***************************************************************************)
(* The container's own life, and the controller process.                   *)
(***************************************************************************)
PodStarts ==
    /\ BackendKind = "k8s" /\ ctr.st = "created" /\ ~ctr.term
    /\ ctr' = [ctr EXCEPT !.st = "running"]
    /\ UNCHANGED <<kube, pc, m, base, err, outside, faults>>

PodGone ==
    /\ ctr.term
    /\ ctr' = NoContainer
    /\ UNCHANGED <<kube, pc, m, base, err, outside, faults>>

\* The Pod's controller OwnerReference is the CR.
PodCollected ==
    /\ BackendKind = "k8s" /\ ~api.exists /\ Kept(ctr)
    /\ ctr' = Delete(ctr)
    /\ UNCHANGED <<kube, pc, m, base, err, outside, faults>>

ContainerExits ==
    /\ ctr.st = "running" /\ Fault("exit")
    /\ \E s \in {"exited", "unknown"} : ctr' = [ctr EXCEPT !.st = s]
    /\ UNCHANGED <<kube, pc, m, base, err, outside>>

Crash ==
    /\ Fault("crash")
    /\ Finish /\ Relist
    /\ UNCHANGED <<ctr, outside>>

Reconcile ==
    \/ Begin \/ AddFinalizer \/ Infra \/ ReconcileContainer \/ KillContainer
    \/ StartContainer \/ CreateContainer \/ WelcomeGates \/ Claim \/ Send
    \/ PatchStatus \/ Cleanup \/ RemoveFinalizer

Next ==
    \/ Reconcile
    \/ Deliver \/ Edit \/ DeleteCR \/ AgentJoins \/ KeyPropagates
    \/ PodStarts \/ PodGone \/ PodCollected \/ ContainerExits \/ Crash

Spec == Init /\ [][Next]_vars

(***************************************************************************)
(* Every reconcile is followed by another (RequeueAfter on success, the    *)
(* rate-limited queue on error), the watch delivers what was written, and  *)
(* a Pod starts and terminates.  The agent joins and the gateway picks the *)
(* key up in the end.  Nothing is assumed of the users or of the faults.   *)
(***************************************************************************)
FairSpec ==
    /\ Spec
    /\ WF_vars(Reconcile) /\ WF_vars(Deliver)
    /\ WF_vars(PodStarts) /\ WF_vars(PodGone) /\ WF_vars(PodCollected)
    /\ SF_vars(AgentJoins) /\ WF_vars(KeyPropagates)

-----------------------------------------------------------------------------
(***************************************************************************)
(* Properties.                                                             *)
(***************************************************************************)

\* reconcileManagerWelcome promises that two reconciles racing on one
\* Manager do not both deliver the prompt, whatever the cache shows.
WelcomeAtMostOnce == sent <= 1

\* What its claim does give: only a reconcile that began before its cache
\* showed the claim sends the prompt again.  Failed calls and patches, edits
\* and restarts at any point never repeat it.
RepeatsNeedUnseenClaim == sent <= 1 + unseen

\* The welcome is not forgotten: a Manager that is to run ends with the slot
\* claimed, through closed gates, failed patches, edits and restarts.
WelcomeClaimed ==
    <>[](api.welcome \/ api.state # "Running" \/ api.deleting \/ ~api.exists)

\* Once status.observedGeneration equals metadata.generation, a container
\* that is up was built from that generation, whatever stale copies the
\* reconciles read.
ObservedMeansCurrent ==
    (/\ api.exists /\ api.obs = api.gen /\ api.state = "Running"
     /\ Live(ctr)) => ctr.gen = api.gen

\* reconcileManagerContainer is "Idempotent: checks actual backend state
\* before acting": while the spec is never edited, no reconcile deletes a
\* container that is up.
FirstContainerSurvives ==
    [][KillContainer /\ api.gen = 1 => ~Live(ctr)]_vars

\* The container and the status match the current spec, and a Manager that is
\* to run runs the current generation; or a CR that is being deleted is gone
\* together with its container.
Converged ==
    IF ~api.exists \/ api.deleting
    THEN ~api.exists /\ ctr = NoContainer
    ELSE /\ api.obs = api.gen /\ api.phase = api.state /\ api.mxid
         /\ CASE api.state = "Running" ->
                   ctr.st = "running" /\ ~ctr.term /\ ctr.gen = api.gen
              [] api.state = "Sleeping" -> ctr.st # "running"
              [] OTHER                  -> ctr.st = "absent"

\* Once edits and failures stop, the Manager converges to its spec for good,
\* and what runs was built from the last edit.
Converges == <>[]Converged
=============================================================================
