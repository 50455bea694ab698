---------------------------- MODULE WorkerProofs ----------------------------
(***************************************************************************)
(* Proofs about WorkerController, for every set of specs and handlers and  *)
(* every bound on edits and faults.                                        *)
(***************************************************************************)
EXTENDS WorkerController, TLAPS

\* Every version of the CR that somebody may still read.
Versions == watch \cup {cache, api}

\* Where the reconciler is working on a CR that must keep its finalizer.
Working == {"infra", "container", "start", "kill", "create"}

-----------------------------------------------------------------------------
(***************************************************************************)
(* Facts about the operators the model is built from.                      *)
(***************************************************************************)

\* The backend calls map containers to containers.
LEMMA BackendTypes ==
    ASSUME NEW c \in Container
    PROVE  /\ NoContainer \in Container
           /\ Delete(c) \in Container
           /\ Stop(c) \in Container
           /\ Start(c) \in Container
  BY DEF Container, NoContainer, RawStates, Delete, Stop, Start

\* No call but Create brings a container up that was not kept, and none
\* changes what a kept container was built from; Delete keeps none.
LEMMA BackendKeeps ==
    ASSUME NEW c \in Container
    PROVE  /\ ~Kept(NoContainer) /\ ~Kept(Delete(c))
           /\ Kept(Stop(c)) => Kept(c)
           /\ Kept(Start(c)) => Kept(c)
           /\ Stop(c).gen <= c.gen /\ Stop(c).atObs <= c.atObs
           /\ Kept(Stop(c)) => Stop(c).gen = c.gen /\ Stop(c).atObs = c.atObs
           /\ Start(c).gen = c.gen /\ Start(c).atObs = c.atObs
           /\ Delete(c).gen <= c.gen /\ Delete(c).atObs <= c.atObs
           /\ Delete(NoContainer) = NoContainer
           /\ Stop(NoContainer) = NoContainer
           /\ Start(NoContainer) = NoContainer
  BY BackendKindAssumption
     DEF Container, NoContainer, RawStates, Delete, Stop, Start, Kept

\* What a create call leaves: the new container, nothing, or, if the name
\* was taken or the call failed, what was there.
LEMMA CreateOutcomes ==
    ASSUME NEW c \in Container, NEW n \in Container, ~n.term,
           NEW o \in Create(c, n) \cup CreateFailure(c, n)
    PROVE  /\ o.ctr \in Container
           /\ \/ o.ctr = c
              \/ o.ctr = NoContainer
              \/ o.ctr.gen = n.gen /\ o.ctr.atObs = n.atObs
  <1> DEFINE up   == [n EXCEPT !.st = "running"]
             made == [n EXCEPT !.st = "created"]
  <1>1. up \in Container /\ made \in Container /\ NoContainer \in Container
    BY DEF Container, RawStates, NoContainer
  <1>2. up.gen = n.gen /\ up.atObs = n.atObs /\ made.gen = n.gen /\ made.atObs = n.atObs
    BY DEF Container
  <1>3. o.ctr \in {c, NoContainer, up, made}
    <2>1. CASE o \in Create(c, n)
      BY <2>1 DEF Create
    <2>2. CASE o \in CreateFailure(c, n)
      BY <2>2 DEF CreateFailure
    <2> QED
      BY <2>1, <2>2
  <1> QED
    BY <1>1, <1>2, <1>3

\* An edited CR is a CR.
LEMMA EditType ==
    ASSUME NEW o \in Worker, NEW s \in WorkerSpec, NEW g \in Nat
    PROVE  [o EXCEPT !.spec = s, !.gen = g] \in Worker
  <1>1. [o EXCEPT !.spec = s] \in Worker
    BY DEF Worker
  <1>2. [[o EXCEPT !.spec = s] EXCEPT !.gen = g] \in Worker
    BY <1>1 DEF Worker
  <1> QED
    BY <1>2

\* A write keeps the types.
LEMMA WriteType ==
    ASSUME NEW o \in Worker, api \in Worker, watch \subseteq Worker, Write(o)
    PROVE  api' \in Worker /\ watch' \subseteq Worker
  <1>1. CASE o = api
    BY <1>1 DEF Write
  <1>2. CASE o # api
    <2>1. api' = [o EXCEPT !.rv = api.rv + 1] /\ watch' = watch \cup {api'}
      BY <1>2 DEF Write
    <2>2. api' \in Worker
      BY <2>1 DEF Worker
    <2> QED
      BY <2>1, <2>2
  <1> QED
    BY <1>1, <1>2

-----------------------------------------------------------------------------
(***************************************************************************)
(* Type correctness.                                                       *)
(***************************************************************************)

\* The initial values are well typed.
LEMMA InitTypes ==
    /\ Nil \in Worker /\ NoRequest \in Requests /\ NoContainer \in Container
    /\ \A s \in WorkerSpec : NewWorker(s) \in Worker
  <1>1. \A s \in WorkerSpec : NewWorker(s) \in Worker
    BY DEF NewWorker, Worker, Phases
  <1>2. [state |-> "", managed |-> TRUE] \in WorkerSpec
    BY DEF WorkerSpec
  <1>3. Nil \in Worker
    BY <1>2 DEF Nil, NewWorker, Worker, Phases
  <1>4. NoRequest \in Requests
    BY <1>3 DEF NoRequest, Requests
  <1> QED
    BY <1>1, <1>3, <1>4 DEF NoContainer, Container, RawStates

\* A failure counts one fault.
LEMMA FaultType ==
    ASSUME TypeOK, NEW k, Fault(k)
    PROVE  faults' \in 0 .. MaxFaults
  BY WorkerAssumption DEF TypeOK, Fault

\* A status patch is applied field by field and leaves a CR.
LEMMA MergeType ==
    ASSUME TypeOK
    PROVE  Merge(api, base, FinalStatus) \in Worker
  <1> USE DEF TypeOK
  <1>1. /\ computeWorkerPhase(w, err) \in Phases
        /\ w.obs \in Nat /\ w.gen \in Nat /\ w.mxid \in BOOLEAN
    BY DEF computeWorkerPhase, DesiredState, Worker, WorkerSpec, Phases
  <1>2. FinalStatus.obs \in Nat /\ FinalStatus.phase \in Phases /\ FinalStatus.mxid \in BOOLEAN
    BY <1>1 DEF FinalStatus, Worker
  <1> QED
    BY <1>2 DEF Merge, Merged, Worker

\* A step of the reconciler keeps the types.
LEMMA ReconcileType ==
    ASSUME TypeOK, Reconcile
    PROVE  TypeOK'
  <1> USE DEF TypeOK
  <1>0. /\ pc' \in PCs /\ w' \in Worker /\ base' \in Worker
        /\ changed' \in BOOLEAN /\ err' \in BOOLEAN
        /\ ctr' \in Container /\ faults' \in 0 .. MaxFaults
        /\ cache' \in Worker /\ hs' \in [Handlers -> Requests]
        /\ api' \in Worker /\ watch' \subseteq Worker
    <2>1. CASE Begin
      BY <2>1 DEF Begin, PCs
    <2>2. CASE AddFinalizer
      <3>1. CASE api.exists /\ Write([api EXCEPT !.fin = TRUE]) /\ w' = api' /\ pc' = "infra"
                 /\ UNCHANGED <<base, changed, err, faults>>
        <4>1. [api EXCEPT !.fin = TRUE] \in Worker
          BY DEF Worker
        <4> QED
          BY <2>2, <3>1, <4>1, WriteType DEF AddFinalizer, PCs
      <3>2. CASE ~api.exists /\ Finish /\ UNCHANGED <<api, watch, faults>>
        BY <2>2, <3>2, InitTypes DEF AddFinalizer, Finish, PCs
      <3>3. CASE Fault("api") /\ Fail /\ UNCHANGED <<api, watch>>
        BY <2>2, <3>3, FaultType DEF AddFinalizer, Fail, PCs
      <3> QED
        BY <2>2, <3>1, <3>2, <3>3 DEF AddFinalizer
    <2>3. CASE Infra
      <3>1. changed' \in BOOLEAN
        BY <2>3 DEF Infra, SpecChanged
      <3>2. \A b \in BOOLEAN : [w EXCEPT !.mxid = b] \in Worker
        BY DEF Worker
      <3>3. w.mxid \in BOOLEAN
        BY DEF Worker
      <3> QED
        BY <2>3, <3>1, <3>2, <3>3, FaultType DEF Infra, PCs
    <2>4. CASE ReconcileContainer
      <3>1. Decision(Status(ctr)) \in PCs
        BY DEF Decision, PCs
      <3> QED
        BY <2>4, <3>1, BackendTypes, FaultType DEF ReconcileContainer, Goto, Fail, PCs
    <2>5. CASE KillContainer
      BY <2>5, BackendTypes, FaultType DEF KillContainer, Goto, Fail, PCs
    <2>6. CASE StartContainer
      BY <2>6, BackendTypes, FaultType DEF StartContainer, Goto, Fail, PCs
    <2>7. CASE CreateContainer
      <3>1. Requested \in Container /\ ~Requested.term
        BY DEF Requested, Container, RawStates, Worker
      <3> QED
        BY <2>7, <3>1, CreateOutcomes, FaultType DEF CreateContainer, Goto, Fail, PCs
    <2>8. CASE PatchStatus
      <3> QED
        BY <2>8, MergeType, WriteType, FaultType, InitTypes DEF PatchStatus, Finish, PCs
    <2>9. CASE Cleanup
      BY <2>9, BackendTypes, FaultType DEF Cleanup, Goto, PCs
    <2>10. CASE RemoveFinalizer
      <3>1. Unfinalized(api) \in Worker
        BY DEF Unfinalized, Worker
      <3> QED
        BY <2>10, <3>1, WriteType, FaultType, InitTypes DEF RemoveFinalizer, Finish, PCs
    <2> QED
      BY <2>1, <2>2, <2>3, <2>4, <2>5, <2>6, <2>7, <2>8, <2>9, <2>10 DEF Reconcile
  <1> QED
    BY <1>0

\* A step of a lifecycle request keeps the types.
LEMMA HandlerType ==
    ASSUME TypeOK, NEW h \in Handlers, Request(h) \/ Handler(h)
    PROVE  TypeOK'
  <1> USE DEF TypeOK
  <1>1. /\ hs[h].pc \in {"idle", "update", "backend", "get", "status"}
        /\ hs[h].op \in {"Running", "Sleeping"} /\ hs[h].o \in Worker
    BY DEF Requests
  <1>2. CASE Request(h)
    <2>1. \A op \in {"Running", "Sleeping"} :
            [pc |-> "update", op |-> op, o |-> cache] \in Requests
      BY DEF Requests
    <2> QED
      BY <1>2, <2>1 DEF Request
  <1>3. CASE HandlerUpdate(h)
    <2>1. PICK s : /\ s = [api.spec EXCEPT !.state = hs[h].op]
                   /\ \/ /\ UpdateAccepted(hs[h].o)
                         /\ Write([api EXCEPT !.spec = s,
                                              !.gen = IF s = api.spec THEN @ ELSE @ + 1])
                         /\ hs' = [hs EXCEPT ![h].pc = "backend", ![h].o = Nil]
                      \/ /\ hs' = [hs EXCEPT ![h] = NoRequest]
                         /\ UNCHANGED <<api, watch>>
      BY <1>3 DEF HandlerUpdate
    <2>2. s \in WorkerSpec
      BY <1>1, <2>1 DEF Worker, WorkerSpec
    <2>3. [api EXCEPT !.spec = s, !.gen = IF s = api.spec THEN @ ELSE @ + 1] \in Worker
      <3>1. api.gen \in Nat
        BY DEF Worker
      <3>2. (IF s = api.spec THEN api.gen ELSE api.gen + 1) \in Nat
        BY <3>1
      <3> QED
        BY <2>2, <3>2, EditType
    <2>4. api' \in Worker /\ watch' \subseteq Worker
      BY <2>1, <2>3, WriteType
    <2>5. hs' \in [Handlers -> Requests]
      <3>1. NoRequest \in Requests /\ Nil \in Worker
        BY InitTypes
      <3>2. CASE hs' = [hs EXCEPT ![h].pc = "backend", ![h].o = Nil]
        <4>1. [hs[h] EXCEPT !.pc = "backend", !.o = Nil] \in Requests
          BY <3>1 DEF Requests
        <4>2. hs' = [hs EXCEPT ![h] = [hs[h] EXCEPT !.pc = "backend", !.o = Nil]]
          BY <3>2
        <4> QED
          BY <4>1, <4>2
      <3> QED
        BY <2>1, <3>1, <3>2
    <2> QED
      BY <1>3, <2>4, <2>5 DEF HandlerUpdate
  <1>4. CASE HandlerBackend(h)
    <2>1. hs' \in [Handlers -> Requests]
      BY <1>1, <1>4 DEF HandlerBackend, Requests
    <2> QED
      BY <1>4, <2>1, BackendTypes, FaultType DEF HandlerBackend
  <1>5. CASE HandlerGet(h)
    <2>1. hs' \in [Handlers -> Requests]
      BY <1>1, <1>5 DEF HandlerGet, Requests
    <2> QED
      BY <1>5, <2>1 DEF HandlerGet
  <1>6. CASE HandlerStatus(h)
    <2>1. [api EXCEPT !.phase = hs[h].op] \in Worker
      BY <1>1 DEF Worker, Phases
    <2>2. hs' \in [Handlers -> Requests]
      BY <1>6, InitTypes DEF HandlerStatus
    <2> QED
      BY <1>6, <2>1, <2>2, WriteType DEF HandlerStatus
  <1> QED
    BY <1>2, <1>3, <1>4, <1>5, <1>6 DEF Handler

\* A step of the environment keeps the types.
LEMMA EnvironmentType ==
    ASSUME TypeOK,
           Deliver \/ Edit \/ DeleteCR \/ PodStarts \/ PodGone \/ PodCollected
             \/ ContainerExits \/ Crash
    PROVE  TypeOK'
  <1> USE DEF TypeOK
  <1>1. CASE Deliver
    BY <1>1 DEF Deliver, Receive
  <1>2. CASE Edit
    <2>1. PICK s \in Specs : Write([api EXCEPT !.spec = s, !.gen = @ + 1])
      BY <1>2 DEF Edit
    <2>2. s \in WorkerSpec
      BY WorkerAssumption
    <2>3. [api EXCEPT !.spec = s, !.gen = @ + 1] \in Worker
      <3>1. api.gen + 1 \in Nat
        BY DEF Worker
      <3> QED
        BY <2>2, <3>1, EditType
    <2>4. api' \in Worker /\ watch' \subseteq Worker
      BY <2>1, <2>3, WriteType
    <2> QED
      BY <1>2, <2>4 DEF Edit
  <1>3. CASE DeleteCR
    <2>1. Deleted(api) \in Worker
      BY DEF Deleted, Worker
    <2> QED
      BY <1>3, <2>1, WriteType DEF DeleteCR
  <1>4. CASE PodStarts
    BY <1>4 DEF PodStarts, Container, RawStates
  <1>5. CASE PodGone
    BY <1>5, InitTypes DEF PodGone
  <1>6. CASE PodCollected
    BY <1>6, BackendTypes DEF PodCollected
  <1>7. CASE ContainerExits
    BY <1>7, FaultType DEF ContainerExits, Container, RawStates
  <1>8. CASE Crash
    BY <1>8, FaultType, InitTypes DEF Crash, Finish, Relist, PCs
  <1> QED
    BY <1>1, <1>2, <1>3, <1>4, <1>5, <1>6, <1>7, <1>8

\* Every step keeps the types.
LEMMA NextType ==
    ASSUME TypeOK, [Next]_vars
    PROVE  TypeOK'
  <1>1. CASE UNCHANGED vars
    BY <1>1 DEF vars, TypeOK
  <1>2. CASE Next
    BY <1>2, ReconcileType, HandlerType, EnvironmentType DEF Next
  <1> QED
    BY <1>1, <1>2

\* Initially everything has its type.
LEMMA InitType ==
    ASSUME Init
    PROVE  TypeOK
  <1>1. api \in Worker
    BY InitTypes, WorkerAssumption DEF Init
  <1>2. hs \in [Handlers -> Requests]
    BY InitTypes DEF Init
  <1>3. faults \in 0 .. MaxFaults
    BY WorkerAssumption DEF Init
  <1>4. pc \in PCs /\ changed \in BOOLEAN /\ err \in BOOLEAN
    BY DEF Init, PCs
  <1> QED
    BY <1>1, <1>2, <1>3, <1>4, InitTypes DEF Init, TypeOK

\* The Worker CR, the reconciler's copies of it, the container and the
\* requests in flight always have their types.
THEOREM TypeCorrect == Spec => []TypeOK
  BY InitType, NextType, PTL DEF Spec

-----------------------------------------------------------------------------
(***************************************************************************)
(* Part 1: the life of the finalizer.                                      *)
(***************************************************************************)

\* What a later version may not take back from an earlier one.
Older(u, v) ==
    /\ u.gen <= v.gen
    /\ u.gen = v.gen => u.spec = v.spec
    /\ u.deleting => v.deleting
    /\ u.fin /\ ~v.deleting => v.fin

VersionInv ==
    /\ \A v \in Versions : cache.rv <= v.rv /\ v.rv <= api.rv
    /\ \A u, v \in Versions : u.rv <= v.rv => Older(u, v)
    /\ api.exists /\ api.deleting => api.fin
    /\ ~api.exists => api.deleting /\ ~api.fin /\ \A v \in Versions : v.fin => v.deleting

FinalizerInv ==
    /\ pc \in Working \/ (pc = "patch" /\ ~err) => api.exists /\ api.fin
    /\ pc \in {"cleanup", "unfinalize"} => cache.deleting
    /\ api.exists /\ ~api.fin => ctr = NoContainer

OrphanInv == TypeOK /\ VersionInv /\ FinalizerInv

\* With a container delete that does not fail.
DeleteInv ==
    /\ pc = "unfinalize" => ~Kept(ctr)
    /\ NoOrphanContainer


\* Being older is transitive.
LEMMA OlderTransitive ==
    ASSUME NEW u \in Worker, NEW v \in Worker, NEW x \in Worker,
           Older(u, v), Older(v, x)
    PROVE  Older(u, x)
  <1>1. u.gen \in Nat /\ v.gen \in Nat /\ x.gen \in Nat
    BY DEF Worker
  <1> QED
    BY <1>1 DEF Older

\* A version is not older than itself in any way that matters, and the
\* resourceVersion does not count.
LEMMA OlderBump ==
    ASSUME NEW u \in Worker, NEW v \in Worker, NEW r \in Nat, Older(u, v)
    PROVE  Older(u, [v EXCEPT !.rv = r]) /\ Older([v EXCEPT !.rv = r], [v EXCEPT !.rv = r])
  BY DEF Older, Worker

\* What a write must respect to keep the order of the versions.
LEMMA WriteVersions ==
    ASSUME TypeOK, VersionInv, NEW o \in Worker, Write(o), cache' = cache,
           Older(api, o),
           o.exists /\ o.deleting => o.fin,
           ~o.exists => o.deleting /\ ~o.fin /\ \A v \in Versions : v.fin => v.deleting
    PROVE  VersionInv'
  <1>1. CASE o = api
    BY <1>1 DEF Write, VersionInv, Versions
  <1>2. CASE o # api
    <2>1. api' = [o EXCEPT !.rv = api.rv + 1] /\ watch' = watch \cup {api'}
      BY <1>2 DEF Write
    <2>2. Versions' \subseteq Versions \cup {api'} /\ Versions \subseteq Worker
      BY <2>1 DEF Versions, TypeOK
    <2>3. /\ api'.rv = api.rv + 1 /\ api'.exists = o.exists
          /\ api'.deleting = o.deleting /\ api'.fin = o.fin
          /\ api.rv \in Nat /\ api.rv + 1 \in Nat /\ api \in Worker /\ cache \in Versions
      BY <2>1 DEF Worker, TypeOK, Versions
    <2>4. \A u \in Versions : u.rv \in Nat /\ u.rv <= api.rv /\ cache.rv <= u.rv /\ Older(u, api)
      BY <2>2 DEF VersionInv, Versions, Worker
    <2>5. \A u \in Versions : Older(u, api')
      BY <2>1, <2>2, <2>3, <2>4, OlderTransitive, OlderBump
    <2>6. Older(api', api')
      BY <2>1, <2>3, OlderBump
    <2>7. (\A v \in Versions : cache.rv <= v.rv /\ v.rv <= api.rv)'
      BY <2>2, <2>3, <2>4
    <2>8. (\A u, v \in Versions : u.rv <= v.rv => Older(u, v))'
      <3> SUFFICES ASSUME NEW u \in Versions', NEW v \in Versions', u.rv <= v.rv
                   PROVE  Older(u, v)
        BY DEF Older
      <3>1. CASE v = api'
        BY <3>1, <2>2, <2>5, <2>6
      <3>2. CASE v # api' /\ u # api'
        BY <3>2, <2>2 DEF VersionInv
      <3>3. CASE v # api' /\ u = api'
        BY <3>3, <2>2, <2>3, <2>4
      <3> QED
        BY <3>1, <3>2, <3>3
    <2> QED
      BY <2>2, <2>3, <2>7, <2>8 DEF VersionInv
  <1> QED
    BY <1>1, <1>2

\* A delivery drops versions and never takes a deletion back.
LEMMA ReceiveVersions ==
    ASSUME TypeOK, VersionInv, Receive
    PROVE  /\ VersionInv' /\ api' = api /\ Versions' \subseteq Versions
           /\ cache' \in Versions /\ (cache.deleting => cache'.deleting)
  <1>1. PICK v \in watch : cache' = v /\ watch' = {u \in watch : u.rv > v.rv} /\ api' = api
    BY DEF Receive
  <1>2. Versions' \subseteq Versions /\ cache \in Versions /\ v \in Versions
    BY <1>1 DEF Versions
  <1>3. \A u \in Versions : u.rv \in Nat
    BY DEF Versions, TypeOK, Worker
  <1>4. \A u \in Versions' : cache'.rv <= u.rv
    BY <1>1, <1>2, <1>3 DEF Versions, VersionInv
  <1>5. cache.deleting => cache'.deleting
    BY <1>1, <1>2 DEF VersionInv, Older
  <1> QED
    BY <1>1, <1>2, <1>4, <1>5 DEF VersionInv, Older

\* What nobody writes stays in order.
LEMMA SameVersions ==
    ASSUME VersionInv, UNCHANGED kube
    PROVE  VersionInv'
  BY DEF VersionInv, Versions, Older, kube

\* Each write of the model respects the order of the versions: no step but
\* the reconciler's own clears the finalizer, and only once the CR is being
\* deleted in every version that can still be read.
LEMMA StepVersions ==
    ASSUME OrphanInv, [Next]_vars
    PROVE  VersionInv'
  <1> USE DEF OrphanInv
  <1>0. /\ api \in Worker /\ api \in Versions /\ cache \in Versions
        /\ api.gen \in Nat /\ api.fin \in BOOLEAN /\ api.deleting \in BOOLEAN
    BY DEF TypeOK, Versions, Worker
  <1>1. CASE AddFinalizer
    <2>1. CASE api.exists /\ Write([api EXCEPT !.fin = TRUE])
      <3> DEFINE o == [api EXCEPT !.fin = TRUE]
      <3>1. /\ o \in Worker /\ o.gen = api.gen /\ o.spec = api.spec /\ o.fin
            /\ o.deleting = api.deleting /\ o.exists = api.exists
        BY <1>0 DEF Worker
      <3>2. Older(api, o) /\ o.exists
        BY <1>0, <2>1, <3>1 DEF Older
      <3> HIDE DEF o
      <3> QED
        BY <1>1, <2>1, <3>1, <3>2, WriteVersions DEF AddFinalizer, o
    <2>2. CASE UNCHANGED <<api, watch>>
      BY <1>1, <2>2, SameVersions DEF AddFinalizer, kube
    <2> QED
      BY <1>1, <2>1, <2>2 DEF AddFinalizer
  <1>2. CASE PatchStatus
    <2>1. CASE PatchAccepted(w, base) /\ Write(Merge(api, base, FinalStatus))
      <3> DEFINE o == Merge(api, base, FinalStatus)
      <3>1. o \in Worker
        BY MergeType
      <3>2. /\ o.gen = api.gen /\ o.spec = api.spec /\ o.fin = api.fin
            /\ o.deleting = api.deleting /\ o.exists = api.exists
        BY <1>0 DEF Merge, Worker
      <3>3. Older(api, o) /\ o.exists
        BY <1>0, <2>1, <3>2 DEF Older, PatchAccepted
      <3>4. o.exists /\ o.deleting => o.fin
        BY <3>2 DEF VersionInv
      <3> HIDE DEF o
      <3>5. VersionInv'
        BY <1>2, <2>1, <3>1, <3>3, <3>4, WriteVersions DEF PatchStatus, o
      <3> QED
        BY <3>5
    <2>2. CASE UNCHANGED <<api, watch>>
      BY <1>2, <2>2, SameVersions DEF PatchStatus, kube
    <2> QED
      BY <1>2, <2>1, <2>2 DEF PatchStatus
  <1>3. CASE RemoveFinalizer
    <2>1. CASE api.exists /\ Write(Unfinalized(api))
      <3> DEFINE o == Unfinalized(api)
      <3>1. \A v \in Versions : v.deleting
        BY <1>0, <1>3 DEF FinalizerInv, VersionInv, Older, RemoveFinalizer
      <3>2. o \in Worker /\ o.gen = api.gen /\ o.spec = api.spec /\ o.deleting /\ ~o.fin /\ ~o.exists
        BY <1>0, <3>1 DEF Unfinalized, Worker
      <3>3. Older(api, o)
        BY <1>0, <3>2 DEF Older
      <3> HIDE DEF o
      <3>4. VersionInv'
        BY <1>3, <2>1, <3>1, <3>2, <3>3, WriteVersions DEF RemoveFinalizer, o
      <3> QED
        BY <3>4
    <2>2. CASE UNCHANGED <<api, watch>>
      BY <1>3, <2>2, SameVersions DEF RemoveFinalizer, kube
    <2> QED
      BY <1>3, <2>1, <2>2 DEF RemoveFinalizer
  <1>4. CASE Edit
    <2>1. PICK s \in Specs : Write([api EXCEPT !.spec = s, !.gen = @ + 1])
      BY <1>4 DEF Edit
    <2> DEFINE o == [api EXCEPT !.spec = s, !.gen = @ + 1]
    <2>2. s \in WorkerSpec /\ api.gen + 1 \in Nat
      BY <1>0, WorkerAssumption
    <2>3. o \in Worker
      BY <1>0, <2>2, EditType
    <2>4. o.gen = api.gen + 1 /\ o.fin = api.fin /\ o.deleting = api.deleting /\ o.exists = api.exists
      BY <1>0 DEF Worker
    <2>5. Older(api, o) /\ o.exists /\ ~o.deleting
      BY <1>0, <1>4, <2>4 DEF Older, Edit
    <2> HIDE DEF o
    <2>6. VersionInv'
      BY <1>4, <2>1, <2>3, <2>5, WriteVersions DEF Edit, o
    <2> QED
      BY <2>6
  <1>5. CASE DeleteCR
    <2> DEFINE o == Deleted(api)
    <2>1. /\ o \in Worker /\ o.gen = api.gen /\ o.spec = api.spec /\ o.fin = api.fin
          /\ o.deleting /\ o.exists = api.fin
      BY <1>0 DEF Deleted, Worker
    <2>2. Older(api, o)
      BY <1>0, <2>1 DEF Older
    <2>3. ~api.fin => \A v \in Versions : ~v.fin
      BY <1>0, <1>5 DEF VersionInv, Older, DeleteCR
    <2> HIDE DEF o
    <2>4. VersionInv'
      BY <1>5, <2>1, <2>2, <2>3, WriteVersions DEF DeleteCR, o
    <2> QED
      BY <2>4
  <1>6. ASSUME NEW h \in Handlers, HandlerUpdate(h)
        PROVE  VersionInv'
    <2>0. hs[h].op \in {"Running", "Sleeping"} /\ hs[h].o \in Worker
      BY DEF TypeOK, Requests
    <2>1. CASE UNCHANGED <<api, watch>>
      BY <1>6, <2>1, SameVersions DEF HandlerUpdate, kube
    <2>2. CASE UpdateAccepted(hs[h].o) /\ ~UNCHANGED <<api, watch>>
      <3> DEFINE s == [api.spec EXCEPT !.state = hs[h].op]
                 g == IF s = api.spec THEN api.gen ELSE api.gen + 1
                 o == [api EXCEPT !.spec = s, !.gen = g]
      <3>1. Write(o)
        BY <1>6, <2>2 DEF HandlerUpdate
      <3>2. s \in WorkerSpec
        BY <1>0, <2>0 DEF Worker, WorkerSpec
      <3>3. g \in Nat /\ api.gen <= g /\ (api.gen = g => s = api.spec)
        BY <1>0
      <3> HIDE DEF s, g
      <3>4. o \in Worker
        BY <1>0, <3>2, <3>3, EditType
      <3>5. /\ o.gen = g /\ o.spec = s /\ o.fin = api.fin /\ o.deleting = api.deleting
            /\ o.exists = api.exists
        BY <1>0 DEF Worker
      <3>6. Older(api, o) /\ o.exists /\ (o.deleting => o.fin)
        BY <1>0, <2>2, <3>3, <3>5 DEF Older, UpdateAccepted, VersionInv
      <3> HIDE DEF o
      <3> QED
        BY <1>6, <3>1, <3>4, <3>6, WriteVersions DEF HandlerUpdate
    <2> QED
      BY <1>6, <2>1, <2>2 DEF HandlerUpdate
  <1>7. ASSUME NEW h \in Handlers, HandlerStatus(h)
        PROVE  VersionInv'
    <2>0. hs[h].op \in Phases /\ hs[h].o \in Worker
      BY DEF TypeOK, Requests, Phases
    <2>1. CASE UNCHANGED <<api, watch>>
      BY <1>7, <2>1, SameVersions DEF HandlerStatus, kube
    <2>2. CASE UpdateAccepted(hs[h].o)
      <3> DEFINE o == [api EXCEPT !.phase = hs[h].op]
      <3>1. Write(o)
        BY <1>7, <2>2 DEF HandlerStatus
      <3>2. /\ o \in Worker /\ o.gen = api.gen /\ o.spec = api.spec /\ o.fin = api.fin
            /\ o.deleting = api.deleting /\ o.exists = api.exists
        BY <1>0, <2>0 DEF Worker
      <3>3. Older(api, o) /\ o.exists /\ (o.deleting => o.fin)
        BY <1>0, <2>2, <3>2 DEF Older, UpdateAccepted, VersionInv
      <3> HIDE DEF o
      <3> QED
        BY <1>7, <3>1, <3>2, <3>3, WriteVersions DEF HandlerStatus
    <2> QED
      BY <1>7, <2>1, <2>2 DEF HandlerStatus
  <1>8. CASE Deliver
    BY <1>8, ReceiveVersions DEF Deliver
  <1>9. CASE Crash
    <2>1. Versions' = {api} /\ api' = api /\ cache' = api
      BY <1>9 DEF Crash, Relist, Versions
    <2>2. api.rv \in Nat /\ Older(api, api)
      BY <1>0 DEF Worker, Older
    <2> QED
      BY <1>0, <2>1, <2>2 DEF VersionInv
  <1>10. CASE UNCHANGED kube
    BY <1>10, SameVersions
  <1>11. \/ AddFinalizer \/ PatchStatus \/ RemoveFinalizer \/ Edit \/ DeleteCR
         \/ \E h \in Handlers : HandlerUpdate(h) \/ HandlerStatus(h)
         \/ Deliver \/ Crash \/ UNCHANGED kube
    BY DEF Next, Reconcile, Handler, Begin, Infra, ReconcileContainer, KillContainer,
           StartContainer, CreateContainer, Cleanup, Request, HandlerBackend, HandlerGet,
           PodStarts, PodGone, PodCollected, ContainerExits, vars, kube
  <1> QED
    BY <1>1, <1>2, <1>3, <1>4, <1>5, <1>6, <1>7, <1>8, <1>9, <1>10, <1>11

\* A step that neither adds the finalizer nor touches the observed
\* generation; a new spec has a new generation.
Advances ==
    /\ api'.fin => api.fin
    /\ api'.exists => api.exists /\ (api.fin => api'.fin)
    /\ api'.obs = api.obs
    /\ api.gen <= api'.gen /\ api.rv <= api'.rv
    /\ api.gen = api'.gen => api'.spec = api.spec
    /\ Versions' \subseteq Versions \cup {api'}

\* A step of a user or of a handler also leaves the CR where it is.
UserStep ==
    /\ Advances
    /\ api'.exists = api.exists /\ api'.fin = api.fin /\ cache' = cache

\* A write that respects UserStep is one.
LEMMA UserWrite ==
    ASSUME TypeOK, NEW o \in Worker, Write(o), cache' = cache,
           o.exists = api.exists, o.fin = api.fin, o.obs = api.obs,
           api.gen <= o.gen, api.gen = o.gen => o.spec = api.spec
    PROVE  UserStep
  <1>0. api \in Worker /\ api.gen \in Nat /\ api.rv \in Nat /\ o.gen \in Nat
    BY DEF TypeOK, Worker
  <1>1. CASE o = api
    BY <1>0, <1>1 DEF Write, UserStep, Advances, Versions
  <1>2. CASE o # api
    <2>1. api' = [o EXCEPT !.rv = api.rv + 1] /\ watch' = watch \cup {api'}
      BY <1>2 DEF Write
    <2>2. /\ api'.rv = api.rv + 1 /\ api'.exists = o.exists /\ api'.fin = o.fin
          /\ api'.obs = o.obs /\ api'.gen = o.gen /\ api'.spec = o.spec
      BY <1>0, <2>1 DEF Worker
    <2>3. Versions' \subseteq Versions \cup {api'}
      BY <2>1 DEF Versions
    <2> QED
      BY <1>0, <2>2, <2>3 DEF UserStep, Advances
  <1> QED
    BY <1>1, <1>2

\* A step that writes nothing is one too.
LEMMA UserIdle ==
    ASSUME TypeOK, UNCHANGED <<api, cache, watch>>
    PROVE  UserStep
  <1>1. api.gen \in Nat /\ api.rv \in Nat
    BY DEF TypeOK, Worker
  <1> QED
    BY <1>1 DEF UserStep, Advances, Versions

\* Edits and handlers take such steps.
LEMMA UserSteps ==
    ASSUME TypeOK, Edit \/ \E h \in Handlers : Request(h) \/ Handler(h)
    PROVE  UserStep
  <1>1. api \in Worker /\ api.gen \in Nat
    BY DEF TypeOK, Worker
  <1>2. CASE Edit
    <2>1. PICK s \in Specs : Write([api EXCEPT !.spec = s, !.gen = @ + 1])
      BY <1>2 DEF Edit
    <2>2. s \in WorkerSpec /\ api.gen + 1 \in Nat
      BY <1>1, WorkerAssumption
    <2> DEFINE o == [api EXCEPT !.spec = s, !.gen = @ + 1]
    <2>3. o \in Worker
      BY <1>1, <2>2, EditType
    <2>4. o.exists = api.exists /\ o.fin = api.fin /\ o.obs = api.obs /\ o.gen = api.gen + 1
      BY <1>1 DEF Worker
    <2>5. Write(o)
      BY <2>1
    <2>6. cache' = cache
      BY <1>2 DEF Edit
    <2> HIDE DEF o
    <2>7. api.gen <= o.gen /\ api.gen # o.gen
      BY <1>1, <2>4
    <2> QED
      BY <2>3, <2>4, <2>5, <2>6, <2>7, UserWrite
  <1>3. ASSUME NEW h \in Handlers, HandlerUpdate(h)
        PROVE  UserStep
    <2> DEFINE s == [api.spec EXCEPT !.state = hs[h].op]
               g == IF s = api.spec THEN api.gen ELSE api.gen + 1
               o == [api EXCEPT !.spec = s, !.gen = g]
    <2>0. hs[h].op \in {"Running", "Sleeping"}
      BY DEF TypeOK, Requests
    <2>1. CASE UNCHANGED <<api, watch>>
      BY <1>3, <2>1, UserIdle DEF HandlerUpdate
    <2>2. CASE Write(o)
      <3>1. s \in WorkerSpec
        BY <1>1, <2>0 DEF Worker, WorkerSpec
      <3>2. g \in Nat /\ api.gen <= g /\ (api.gen = g => s = api.spec)
        BY <1>1
      <3> HIDE DEF s, g
      <3>3. o \in Worker
        BY <1>1, <3>1, <3>2, EditType
      <3>4. /\ o.exists = api.exists /\ o.fin = api.fin /\ o.obs = api.obs
            /\ o.gen = g /\ o.spec = s
        BY <1>1 DEF Worker
      <3> HIDE DEF o
      <3> QED
        BY <1>3, <2>2, <3>2, <3>3, <3>4, UserWrite DEF HandlerUpdate
    <2> QED
      BY <1>3, <2>1, <2>2 DEF HandlerUpdate
  <1>4. ASSUME NEW h \in Handlers, HandlerStatus(h)
        PROVE  UserStep
    <2> DEFINE o == [api EXCEPT !.phase = hs[h].op]
    <2>1. CASE UNCHANGED <<api, watch>>
      BY <1>4, <2>1, UserIdle DEF HandlerStatus
    <2>2. CASE Write(o)
      <3>1. hs[h].op \in Phases
        BY DEF TypeOK, Requests, Phases
      <3>2. /\ o \in Worker /\ o.exists = api.exists /\ o.fin = api.fin
            /\ o.obs = api.obs /\ o.gen = api.gen /\ o.spec = api.spec
        BY <1>1, <3>1 DEF Worker
      <3> HIDE DEF o
      <3> QED
        BY <1>1, <1>4, <2>2, <3>2, UserWrite DEF HandlerStatus
    <2> QED
      BY <1>4, <2>1, <2>2 DEF HandlerStatus
  <1>5. ASSUME NEW h \in Handlers, Request(h) \/ HandlerBackend(h) \/ HandlerGet(h)
        PROVE  UserStep
    BY <1>5, UserIdle DEF Request, HandlerBackend, HandlerGet
  <1> QED
    BY <1>2, <1>3, <1>4, <1>5 DEF Handler

\* The deferred patch changes nothing of the CR but its status, and the
\* observed generation only to the generation of the copy.
LEMMA PatchStep ==
    ASSUME TypeOK, PatchStatus
    PROVE  /\ api'.exists = api.exists /\ api'.fin = api.fin
           /\ api'.gen = api.gen /\ api'.spec = api.spec
           /\ \/ api'.obs = api.obs
              \/ ~err /\ base.obs # w.gen /\ api'.obs = w.gen
              \/ err /\ base.obs # w.obs /\ api'.obs = w.obs
           /\ api' = api \/ api.rv < api'.rv
           /\ Versions' \subseteq Versions \cup {api'}
  <1>0. api \in Worker /\ w \in Worker /\ err \in BOOLEAN
    BY DEF TypeOK
  <1>1. CASE UNCHANGED <<api, watch>>
    BY <1>0, <1>1 DEF PatchStatus, Versions, Worker
  <1>2. CASE Write(Merge(api, base, FinalStatus))
    <2> DEFINE o == Merge(api, base, FinalStatus)
    <2>1. /\ o \in Worker /\ o.exists = api.exists /\ o.fin = api.fin
          /\ o.gen = api.gen /\ o.spec = api.spec
          /\ o.obs = Merged(api.obs, base.obs, FinalStatus.obs)
      BY <1>0, MergeType DEF Merge, Worker
    <2>2. FinalStatus.obs = IF err THEN w.obs ELSE w.gen
      BY <1>0 DEF FinalStatus, Worker
    <2>3. \/ o.obs = api.obs
          \/ ~err /\ base.obs # w.gen /\ o.obs = w.gen
          \/ err /\ base.obs # w.obs /\ o.obs = w.obs
      BY <1>0, <2>1, <2>2 DEF Merged
    <2>4. Write(o)
      BY <1>2
    <2> HIDE DEF o
    <2>5. CASE o = api
      BY <1>0, <2>1, <2>3, <2>4, <2>5, <1>2 DEF Write, Versions, PatchStatus, Worker
    <2>6. CASE o # api
      <3>1. api' = [o EXCEPT !.rv = api.rv + 1] /\ watch' = watch \cup {api'}
        BY <2>4, <2>6 DEF Write
      <3>2. /\ api'.rv = api.rv + 1 /\ api'.exists = o.exists /\ api'.fin = o.fin
            /\ api'.obs = o.obs /\ api'.gen = o.gen /\ api'.spec = o.spec
            /\ api.rv \in Nat
        BY <1>0, <2>1, <3>1 DEF Worker
      <3>3. Versions' \subseteq Versions \cup {api'}
        BY <3>1 DEF PatchStatus, Versions
      <3> QED
        BY <2>1, <2>3, <3>2, <3>3
    <2> QED
      BY <2>5, <2>6
  <1> QED
    BY <1>1, <1>2 DEF PatchStatus

\* The finalizer is there while the reconciler works on a CR, and goes only
\* with a CR that the cache, too, shows as being deleted.
LEMMA StepFinalizer ==
    ASSUME OrphanInv, [Next]_vars
    PROVE  FinalizerInv'
  <1> USE DEF OrphanInv
  <1>0. /\ api \in Worker /\ cache \in Worker /\ api \in Versions /\ cache \in Versions
        /\ api.fin \in BOOLEAN /\ api.deleting \in BOOLEAN /\ api.exists \in BOOLEAN
        /\ ctr \in Container /\ w \in Worker
    BY DEF TypeOK, Versions, Worker
  <1>1. Older(cache, api) /\ (cache.deleting => api.deleting)
    BY <1>0 DEF VersionInv, Older
  <1>2. CASE Begin
    <2>1. cache.fin /\ ~cache.deleting => api.exists /\ api.fin
      BY <1>0, <1>1 DEF VersionInv, Older
    <2> QED
      BY <1>2, <2>1 DEF Begin, FinalizerInv, Working
  <1>3. CASE AddFinalizer
    <2>1. CASE api.exists /\ Write([api EXCEPT !.fin = TRUE]) /\ pc' = "infra"
      <3>1. api'.exists /\ api'.fin
        BY <1>0, <2>1 DEF Write, Worker
      <3> QED
        BY <1>3, <2>1, <3>1 DEF AddFinalizer, FinalizerInv, Working
    <2>2. CASE UNCHANGED <<api, watch>> /\ (Finish \/ Fail)
      BY <1>3, <2>2 DEF AddFinalizer, FinalizerInv, Working, Finish, Fail
    <2> QED
      BY <1>3, <2>1, <2>2 DEF AddFinalizer
  <1>4. CASE Infra
    BY <1>4 DEF Infra, FinalizerInv, Working
  <1>5. CASE ReconcileContainer
    <2>1. api.exists /\ api.fin
      BY <1>5 DEF ReconcileContainer, FinalizerInv, Working
    <2>2. pc' \in Working \cup {"patch"}
      BY <1>5 DEF ReconcileContainer, Goto, Fail, Decision, Working
    <2> QED
      BY <1>5, <2>1, <2>2 DEF ReconcileContainer, FinalizerInv, Working
  <1>6. CASE KillContainer \/ StartContainer \/ CreateContainer
    <2>1. api.exists /\ api.fin
      BY <1>6 DEF KillContainer, StartContainer, CreateContainer, FinalizerInv, Working
    <2>2. pc' \in {"create", "patch"} /\ UNCHANGED <<api, cache, watch>>
      BY <1>6 DEF KillContainer, StartContainer, CreateContainer, Goto, Fail
    <2> QED
      BY <2>1, <2>2 DEF FinalizerInv, Working
  <1>7. CASE PatchStatus
    BY <1>7, PatchStep DEF PatchStatus, Finish, FinalizerInv, Working
  <1>8. CASE Cleanup
    <2>1. ctr = NoContainer => ctr' = NoContainer
      BY <1>0, <1>8, BackendKeeps DEF Cleanup
    <2> QED
      BY <1>8, <2>1 DEF Cleanup, Goto, FinalizerInv, Working
  <1>9. CASE RemoveFinalizer
    <2>1. CASE UNCHANGED api
      BY <1>9, <2>1 DEF RemoveFinalizer, Finish, FinalizerInv, Working
    <2>2. CASE Write(Unfinalized(api)) /\ ~UNCHANGED api
      <3>1. api.deleting
        BY <1>1, <1>9 DEF RemoveFinalizer, FinalizerInv
      <3>2. ~api'.exists
        BY <1>0, <2>2, <3>1 DEF Write, Unfinalized, Worker
      <3> QED
        BY <1>9, <3>2 DEF RemoveFinalizer, Finish, FinalizerInv, Working
    <2> QED
      BY <1>9, <2>1, <2>2 DEF RemoveFinalizer
  <1>10. CASE Deliver
    BY <1>10, ReceiveVersions DEF Deliver, FinalizerInv, Working
  <1>11. CASE Edit
    BY <1>11, UserSteps DEF UserStep, Edit, FinalizerInv, Working
  <1>12. CASE DeleteCR
    <2>1. api'.fin = api.fin /\ api'.exists = api.fin
      BY <1>0, <1>12 DEF DeleteCR, Write, Deleted, Worker
    <2> QED
      BY <1>12, <2>1 DEF DeleteCR, FinalizerInv, Working
  <1>13. ASSUME NEW h \in Handlers, Request(h) \/ Handler(h)
         PROVE  FinalizerInv'
    <2>1. UserStep
      BY <1>13, UserSteps
    <2>2. UNCHANGED <<pc, err>> /\ (ctr = NoContainer => ctr' = NoContainer)
      BY <1>0, <1>13, BackendKeeps
         DEF Request, Handler, HandlerUpdate, HandlerBackend, HandlerGet, HandlerStatus
    <2> QED
      BY <2>1, <2>2 DEF UserStep, FinalizerInv, Working
  <1>14. CASE PodStarts \/ PodGone \/ PodCollected \/ ContainerExits
    <2>1. ctr = NoContainer => ctr' = NoContainer
      BY <1>0, <1>14, BackendKeeps
         DEF PodStarts, PodGone, PodCollected, ContainerExits, NoContainer
    <2> QED
      BY <1>14, <2>1
         DEF PodStarts, PodGone, PodCollected, ContainerExits, FinalizerInv, Working
  <1>15. CASE Crash
    BY <1>15 DEF Crash, Finish, Relist, FinalizerInv, Working
  <1>16. CASE UNCHANGED vars
    BY <1>16 DEF vars, FinalizerInv, Working
  <1> QED
    BY <1>2, <1>3, <1>4, <1>5, <1>6, <1>7, <1>8, <1>9, <1>10, <1>11, <1>12, <1>13,
       <1>14, <1>15, <1>16 DEF Next, Reconcile

\* The first part of the inductive invariant.
LEMMA OrphanInvariant == Spec => []OrphanInv
  <1>1. Init => OrphanInv
    <2> SUFFICES ASSUME Init PROVE OrphanInv
      OBVIOUS
    <2>1. TypeOK
      BY InitType
    <2>2. Versions = {api} /\ api \in Worker
      BY <2>1 DEF Init, Versions, TypeOK
    <2>3. api.rv \in Nat /\ api.gen \in Nat /\ Older(api, api)
      BY <2>2 DEF Older, Worker
    <2>4. api.exists /\ ~api.deleting
      <3>1. PICK s \in Specs : api = NewWorker(s)
        BY DEF Init
      <3> QED
        BY <3>1 DEF NewWorker
    <2>5. VersionInv
      BY <2>2, <2>3, <2>4 DEF VersionInv, Init
    <2>6. FinalizerInv
      BY DEF FinalizerInv, Init, Working
    <2> QED
      BY <2>1, <2>5, <2>6 DEF OrphanInv
  <1>2. OrphanInv /\ [Next]_vars => OrphanInv'
    BY NextType, StepVersions, StepFinalizer DEF OrphanInv
  <1> QED
    BY <1>1, <1>2, PTL DEF Spec

\* No container outlives its CR: for every sequence of edits, deletions,
\* lifecycle requests, restarts, stale reads and failures other than that of
\* the finalizer's own container delete.
THEOREM NoOrphan ==
    ASSUME "delete" \notin Faults
    PROVE  Spec => []NoOrphanContainer
  <1>1. Init => DeleteInv
    BY BackendKeeps, InitTypes DEF Init, DeleteInv, NoOrphanContainer
  <1>2. OrphanInv /\ DeleteInv /\ [Next]_vars => DeleteInv'
    <2> SUFFICES ASSUME OrphanInv, DeleteInv, [Next]_vars
                 PROVE  DeleteInv'
      OBVIOUS
    <2> USE DEF OrphanInv, DeleteInv, NoOrphanContainer
    <2>0. api \in Worker /\ ctr \in Container /\ api.fin \in BOOLEAN /\ api.exists \in BOOLEAN
      BY DEF TypeOK, Worker
    <2>1. CASE Reconcile /\ ~CreateContainer /\ ~PatchStatus /\ ~RemoveFinalizer /\ ~AddFinalizer
      <3>1. Kept(ctr') => Kept(ctr)
        BY <2>0, <2>1, BackendKeeps
           DEF Reconcile, Begin, Infra, ReconcileContainer, KillContainer, StartContainer, Cleanup
      <3>2. pc' = "unfinalize" => ~Kept(ctr')
        BY <2>0, <2>1, BackendKeeps
           DEF Reconcile, Begin, Infra, ReconcileContainer, KillContainer, StartContainer,
               Cleanup, Goto, Fail, Fault, Decision
      <3>3. UNCHANGED api
        BY <2>1 DEF Reconcile, Begin, Infra, ReconcileContainer, KillContainer,
                    StartContainer, Cleanup
      <3> QED
        BY <3>1, <3>2, <3>3 DEF Kept
    <2>2. CASE CreateContainer
      <3>1. api.exists /\ api.fin /\ UNCHANGED api /\ pc' = "patch"
        BY <2>2 DEF CreateContainer, FinalizerInv, Working, Goto, Fail
      <3> QED
        BY <3>1
    <2>3. CASE PatchStatus
      BY <2>3, PatchStep DEF PatchStatus, Finish, Kept
    <2>4. CASE RemoveFinalizer
      BY <2>4 DEF RemoveFinalizer, Finish, Kept
    <2>5. CASE AddFinalizer
      <3>1. api.exists /\ Write([api EXCEPT !.fin = TRUE]) => api'.exists /\ api'.fin
        BY <2>0 DEF Write, Worker
      <3> QED
        BY <2>5, <3>1 DEF AddFinalizer, Finish, Fail, Kept
    <2>6. CASE Deliver \/ Crash
      BY <2>6 DEF Deliver, Receive, Crash, Relist, Finish, Kept
    <2>7. CASE Edit
      BY <2>7, UserSteps DEF UserStep, Edit, Kept
    <2>8. CASE DeleteCR
      <3>1. api'.fin = api.fin /\ api'.exists = api.fin
        BY <2>0, <2>8 DEF DeleteCR, Write, Deleted, Worker
      <3> QED
        BY <2>8, <3>1 DEF DeleteCR, Kept
    <2>9. ASSUME NEW h \in Handlers, Request(h) \/ Handler(h)
          PROVE  DeleteInv'
      <3>1. UserStep
        BY <2>9, UserSteps
      <3>2. pc' = pc /\ (Kept(ctr') => Kept(ctr))
        BY <2>0, <2>9, BackendKeeps
           DEF Request, Handler, HandlerUpdate, HandlerBackend, HandlerGet, HandlerStatus
      <3> QED
        BY <3>1, <3>2 DEF UserStep, Kept
    <2>10. CASE PodStarts \/ PodGone \/ PodCollected \/ ContainerExits
      <3>1. Kept(ctr') => Kept(ctr)
        BY <2>0, <2>10, BackendKeeps
           DEF PodStarts, PodGone, PodCollected, ContainerExits, Kept, Container
      <3> QED
        BY <2>10, <3>1 DEF PodStarts, PodGone, PodCollected, ContainerExits, Kept
    <2>11. CASE UNCHANGED vars
      BY <2>11 DEF vars, Kept
    <2> QED
      BY <2>1, <2>2, <2>3, <2>4, <2>5, <2>6, <2>7, <2>8, <2>9, <2>10, <2>11 DEF Next
  <1>3. DeleteInv => NoOrphanContainer
    BY DEF DeleteInv
  <1> QED
    BY <1>1, <1>2, <1>3, OrphanInvariant, PTL DEF Spec

-----------------------------------------------------------------------------
(***************************************************************************)
(* Part 2: what observedGeneration says about the container.               *)
(***************************************************************************)
Reconciling == Working \cup {"patch"}

\* Every version with the finalizer, hence every copy that a later reconcile
\* works on, is at least as new as what was observed and as the copy from
\* which the container was created.
ObservedInv ==
    /\ \A v \in Versions : v.obs <= v.gen
    /\ \A u, v \in Versions : u.rv <= v.rv => u.obs <= v.obs
    /\ \A v \in Versions : v.fin => api.obs <= v.gen /\ ctr.atObs <= v.obs
    /\ api.exists /\ ~api.fin => api.obs = 0

\* The working copy is no newer than the CR, than any copy still to be read,
\* and no older than what was observed.
CopyInv ==
    /\ pc \in Reconciling \cup {"finalizer"} =>
          /\ base.obs = w.obs
          /\ w.gen <= api.gen
          /\ w.gen = api.gen => w.spec = api.spec
          /\ \A v \in Versions : v.fin => w.gen <= v.gen /\ w.obs <= v.obs
    /\ pc = "finalizer" => ~api.fin /\ w.obs <= api.obs
    /\ pc \in Working \/ (pc = "patch" /\ ~err) =>
          api.obs <= w.gen /\ ctr.atObs <= w.obs
    /\ pc \in Working \ {"infra"} => changed = SpecChanged(w)

ContainerInv ==
    /\ pc = "start" => ~changed
    /\ pc = "create" => ~Kept(ctr)
    /\ (pc = "patch" /\ ~err /\ Wants(w.spec) /\ Kept(ctr) /\ ctr.atObs > 0)
          => ctr.gen = w.gen \/ w.obs = w.gen

BuiltInv ==
    /\ ctr.gen <= api.gen
    /\ (api.exists /\ api.obs = api.gen /\ Wants(api.spec) /\ Kept(ctr) /\ ctr.atObs > 0)
          => ctr.gen = api.gen

CurrentInv == ObservedInv /\ CopyInv /\ ContainerInv /\ BuiltInv

\* What every change of the container but its creation respects.
Survives ==
    /\ ctr'.gen <= ctr.gen /\ ctr'.atObs <= ctr.atObs
    /\ Kept(ctr') => Kept(ctr) /\ ctr'.gen = ctr.gen /\ ctr'.atObs = ctr.atObs

\* The numbers in a state.
LEMMA Numbers ==
    ASSUME TypeOK
    PROVE  /\ api.gen \in Nat /\ api.obs \in Nat /\ api.rv \in Nat
           /\ w.gen \in Nat /\ w.obs \in Nat /\ base.obs \in Nat
           /\ ctr.gen \in Nat /\ ctr.atObs \in Nat
           /\ \A v \in Versions : v.gen \in Nat /\ v.obs \in Nat /\ v.rv \in Nat
           /\ api \in Versions /\ cache \in Versions
  BY DEF TypeOK, Worker, Container, Versions

\* The numbers in the next one.
LEMMA NumbersNext ==
    ASSUME TypeOK'
    PROVE  /\ api'.gen \in Nat /\ api'.obs \in Nat /\ api'.rv \in Nat
           /\ ctr'.gen \in Nat /\ ctr'.atObs \in Nat
           /\ \A v \in Versions' : v.gen \in Nat /\ v.obs \in Nat /\ v.rv \in Nat
           /\ api' \in Versions'
  BY DEF TypeOK, Worker, Container, Versions

\* The backend's calls respect Survives.
LEMMA CallsSurvive ==
    ASSUME TypeOK, ctr' \in {ctr, NoContainer, Delete(ctr), Stop(ctr), Start(ctr)}
    PROVE  Survives
  <1>1. ctr \in Container /\ ctr.gen \in Nat /\ ctr.atObs \in Nat
    BY DEF TypeOK, Container
  <1>2. NoContainer.gen = 0 /\ NoContainer.atObs = 0
    BY DEF NoContainer
  <1> QED
    BY <1>1, <1>2, BackendKeeps DEF Survives

\* A step that advances the CR and keeps or drops the container keeps what
\* is known of the observed generation.
LEMMA AdvanceObserved ==
    ASSUME TypeOK, TypeOK', VersionInv, ObservedInv, BuiltInv, Advances, Survives
    PROVE  ObservedInv' /\ BuiltInv'
  <1>1. \A v \in Versions : v.rv <= api.rv
    BY DEF VersionInv
  <1>2. (\A v \in Versions : v.obs <= v.gen)'
    BY Numbers, NumbersNext DEF ObservedInv, Advances
  <1>3. (\A u, v \in Versions : u.rv <= v.rv => u.obs <= v.obs)'
    <2> SUFFICES ASSUME NEW u \in Versions', NEW v \in Versions', u.rv <= v.rv
                 PROVE  u.obs <= v.obs
      OBVIOUS
    <2>1. CASE u \in Versions /\ v \in Versions
      BY <2>1 DEF ObservedInv
    <2>2. CASE u \in Versions /\ v = api'
      BY <1>1, <2>2, Numbers DEF ObservedInv, Advances
    <2>3. CASE u = api' /\ v \in Versions
      <3>1. api.rv <= v.rv
        BY <2>3, Numbers, NumbersNext DEF Advances
      <3> QED
        BY <2>3, <3>1, Numbers DEF ObservedInv, Advances
    <2>4. CASE u = api' /\ v = api'
      BY <2>4, NumbersNext
    <2> QED
      BY <2>1, <2>2, <2>3, <2>4 DEF Advances
  <1>4. (\A v \in Versions : v.fin => api.obs <= v.gen /\ ctr.atObs <= v.obs)'
    <2> SUFFICES ASSUME NEW v \in Versions', v.fin
                 PROVE  api'.obs <= v.gen /\ ctr'.atObs <= v.obs
      OBVIOUS
    <2>1. CASE v \in Versions
      BY <2>1, Numbers, NumbersNext DEF ObservedInv, Advances, Survives
    <2>2. CASE v = api'
      BY <2>2, Numbers, NumbersNext DEF ObservedInv, Advances, Survives
    <2> QED
      BY <2>1, <2>2 DEF Advances
  <1>5. (api.exists /\ ~api.fin => api.obs = 0)'
    BY DEF ObservedInv, Advances
  <1>6. BuiltInv'
    <2>1. ctr'.gen <= api'.gen
      BY Numbers, NumbersNext DEF BuiltInv, Advances, Survives
    <2>2. api'.obs = api'.gen => api.gen = api'.gen
      <3>1. api.obs <= api.gen
        BY Numbers DEF ObservedInv
      <3>2. api'.obs = api.obs /\ api.gen <= api'.gen
        BY DEF Advances
      <3> QED
        BY <3>1, <3>2, Numbers, NumbersNext
    <2> QED
      BY <2>1, <2>2 DEF BuiltInv, Advances, Survives
  <1> QED
    BY <1>2, <1>3, <1>4, <1>5, <1>6 DEF ObservedInv

\* The same for what is known of a reconcile in progress.
LEMMA AdvanceCopy ==
    ASSUME TypeOK, TypeOK', CopyInv, ContainerInv, Advances, Survives,
           UNCHANGED <<pc, w, base, changed, err>>
    PROVE  CopyInv' /\ ContainerInv'
  <1>1. (pc \in Reconciling \cup {"finalizer"} =>
          \A v \in Versions : v.fin => w.gen <= v.gen /\ w.obs <= v.obs)'
    <2> SUFFICES ASSUME pc \in Reconciling \cup {"finalizer"}, NEW v \in Versions', v.fin
                 PROVE  w.gen <= v.gen /\ w.obs <= v.obs
      BY DEF Reconciling, Working
    <2>1. CASE v \in Versions
      BY <2>1 DEF CopyInv
    <2>2. CASE v = api'
      BY <2>2, Numbers, NumbersNext DEF CopyInv, Advances
    <2> QED
      BY <2>1, <2>2 DEF Advances
  <1>2. (pc \in Reconciling \cup {"finalizer"} =>
          base.obs = w.obs /\ w.gen <= api.gen /\ (w.gen = api.gen => w.spec = api.spec))'
    BY Numbers, NumbersNext DEF CopyInv, Advances, Reconciling, Working
  <1>3. (pc = "finalizer" => ~api.fin /\ w.obs <= api.obs)'
    BY DEF CopyInv, Advances
  <1>4. (pc \in Working \/ (pc = "patch" /\ ~err) => api.obs <= w.gen /\ ctr.atObs <= w.obs)'
    BY Numbers, NumbersNext DEF CopyInv, Advances, Survives, Working
  <1>5. (pc \in Working \ {"infra"} => changed = SpecChanged(w))'
    BY DEF CopyInv, Working, SpecChanged
  <1>6. CopyInv'
    BY <1>1, <1>2, <1>3, <1>4, <1>5 DEF CopyInv
  <1>7. ContainerInv'
    BY DEF ContainerInv, Survives, Wants, DesiredState
  <1> QED
    BY <1>6, <1>7

\* Nothing the reconciler does not do itself disturbs the invariant.
LEMMA OutsideCurrent ==
    ASSUME OrphanInv, CurrentInv, TypeOK',
           \/ Deliver \/ Edit \/ DeleteCR
           \/ \E h \in Handlers : Request(h) \/ Handler(h)
           \/ PodStarts \/ PodGone \/ PodCollected \/ ContainerExits \/ UNCHANGED vars
    PROVE  CurrentInv'
  <1> USE DEF OrphanInv
  <1>0. api \in Worker /\ ctr \in Container
    BY DEF TypeOK
  <1>1. UNCHANGED <<pc, w, base, changed, err>>
    BY DEF Deliver, Edit, DeleteCR, Request, Handler, HandlerUpdate, HandlerBackend,
           HandlerGet, HandlerStatus, PodStarts, PodGone, PodCollected, ContainerExits, vars
  <1>2. Advances
    <2>1. CASE Deliver
      BY <2>1, ReceiveVersions, Numbers DEF Deliver, Advances
    <2>2. CASE Edit \/ \E h \in Handlers : Request(h) \/ Handler(h)
      BY <2>2, UserSteps DEF UserStep
    <2>3. CASE DeleteCR
      <3>1. Deleted(api) \in Worker /\ api.exists /\ ~api.deleting /\ Deleted(api) # api
        BY <1>0, <2>3 DEF Deleted, DeleteCR, Worker
      <3>2. api' = [Deleted(api) EXCEPT !.rv = api.rv + 1] /\ watch' = watch \cup {api'}
        BY <2>3, <3>1 DEF DeleteCR, Write
      <3>3. /\ api'.fin = api.fin /\ api'.exists = api.fin /\ api'.obs = api.obs
            /\ api'.gen = api.gen /\ api'.spec = api.spec /\ api'.rv = api.rv + 1
        BY <1>0, <3>2 DEF Deleted, Worker
      <3>4. Versions' \subseteq Versions \cup {api'}
        BY <2>3, <3>2 DEF DeleteCR, Versions
      <3> QED
        BY <3>1, <3>3, <3>4, Numbers DEF Advances
    <2>4. CASE UNCHANGED <<api, cache, watch>>
      BY <2>4, UserIdle DEF UserStep
    <2> QED
      BY <2>1, <2>2, <2>3, <2>4
         DEF PodStarts, PodGone, PodCollected, ContainerExits, vars
  <1>3. Survives
    <2>1. CASE PodStarts \/ ContainerExits
      <3>1. PICK st \in RawStates : ctr' = [ctr EXCEPT !.st = st] /\ ctr.st # "absent"
        BY <2>1 DEF PodStarts, ContainerExits, RawStates
      <3> QED
        BY <1>0, <3>1 DEF Survives, Kept, Container
    <2>2. CASE ~(PodStarts \/ ContainerExits)
      BY <2>2, CallsSurvive
         DEF Deliver, Edit, DeleteCR, Request, Handler, HandlerUpdate, HandlerBackend,
             HandlerGet, HandlerStatus, PodGone, PodCollected, vars
    <2> QED
      BY <2>1, <2>2
  <1> QED
    BY <1>1, <1>2, <1>3, AdvanceObserved, AdvanceCopy DEF CurrentInv

\* A step after which the reconciler holds no copy needs no more.
LEMMA IdleCurrent ==
    ASSUME OrphanInv, CurrentInv, TypeOK', Advances, Survives,
           pc' \in {"idle", "cleanup", "unfinalize"}
    PROVE  CurrentInv'
  <1>1. ObservedInv' /\ BuiltInv'
    BY AdvanceObserved DEF OrphanInv, CurrentInv
  <1> QED
    BY <1>1 DEF CurrentInv, CopyInv, ContainerInv, Reconciling, Working

\* The finalizer is added while nothing was observed and nothing runs.
LEMMA AddFinalizerCurrent ==
    ASSUME OrphanInv, CurrentInv, TypeOK', AddFinalizer
    PROVE  CurrentInv'
  <1> USE DEF OrphanInv
  <1>0. api \in Worker /\ w \in Worker /\ api.fin \in BOOLEAN
    BY DEF TypeOK, Worker
  <1>1. CASE /\ api.exists /\ Write([api EXCEPT !.fin = TRUE])
             /\ w' = api' /\ pc' = "infra" /\ UNCHANGED <<base, changed, err>>
    <2>1. ~api.fin /\ w.obs <= api.obs /\ base.obs = w.obs
      BY <1>0 DEF CurrentInv, CopyInv, AddFinalizer
    <2>2. api.obs = 0 /\ base.obs = 0 /\ ctr = NoContainer /\ ~api.deleting
      BY <1>1, <2>1, Numbers DEF CurrentInv, ObservedInv, FinalizerInv, VersionInv
    <2>3. \A v \in Versions : ~v.fin /\ v.rv <= api.rv /\ v.obs <= api.obs
      BY <2>1, <2>2, Numbers DEF VersionInv, Older, CurrentInv, ObservedInv
    <2>4. api' = [[api EXCEPT !.fin = TRUE] EXCEPT !.rv = api.rv + 1] /\ watch' = watch \cup {api'}
      BY <1>0, <1>1, <2>1 DEF Write, Worker
    <2>5. /\ api'.obs = 0 /\ api'.gen = api.gen /\ api'.spec = api.spec /\ api'.fin
          /\ api'.exists /\ api'.rv = api.rv + 1
      BY <1>0, <1>1, <2>2, <2>4 DEF Worker
    <2>6. Versions' \subseteq Versions \cup {api'} /\ ctr' = ctr /\ ctr.atObs = 0 /\ ctr.gen = 0
          /\ ~Kept(ctr)
      BY <2>2, <2>4 DEF AddFinalizer, Versions, NoContainer, Kept
    <2>7. \A v \in Versions' : v.obs = 0 /\ (v.fin => v = api')
      BY <2>2, <2>3, <2>5, <2>6, Numbers
    <2>8. ObservedInv'
      BY <2>5, <2>6, <2>7, NumbersNext DEF ObservedInv
    <2>9. CopyInv'
      BY <1>1, <2>2, <2>5, <2>6, <2>7, NumbersNext DEF CopyInv, Working, Reconciling
    <2>10. ContainerInv' /\ BuiltInv'
      BY <1>1, <2>5, <2>6, NumbersNext DEF ContainerInv, BuiltInv
    <2> QED
      BY <2>8, <2>9, <2>10 DEF CurrentInv
  <1>2. CASE UNCHANGED <<api, watch>> /\ (Finish \/ Fail)
    <2>1. Advances /\ Survives
      BY <1>2, UserIdle, CallsSurvive DEF AddFinalizer, UserStep
    <2>2. CASE Finish
      BY <2>1, <2>2, IdleCurrent DEF Finish
    <2>3. CASE Fail
      <3>1. ObservedInv' /\ BuiltInv'
        BY <2>1, AdvanceObserved DEF CurrentInv
      <3>2. Versions' = Versions
        BY <1>2 DEF AddFinalizer, Versions
      <3> QED
        BY <1>2, <2>3, <3>1, <3>2
           DEF Fail, AddFinalizer, CurrentInv, CopyInv, ContainerInv, Reconciling, Working
    <2> QED
      BY <1>2, <2>2, <2>3
  <1> QED
    BY <1>1, <1>2 DEF AddFinalizer

\* The deferred patch observes a generation no older than the one observed,
\* and only for a container built from it.
LEMMA PatchCurrent ==
    ASSUME OrphanInv, CurrentInv, TypeOK', PatchStatus
    PROVE  CurrentInv'
  <1> USE DEF OrphanInv
  <1>1. /\ pc = "patch" /\ pc' = "idle" /\ ctr' = ctr /\ base.obs = w.obs
        /\ w.gen <= api.gen /\ (w.gen = api.gen => w.spec = api.spec)
        /\ \A v \in Versions : v.fin => w.gen <= v.gen
        /\ ~err => api.obs <= w.gen
    BY DEF PatchStatus, Finish, CurrentInv, CopyInv, Reconciling
  <1>2. CASE api'.obs = api.obs
    <2>1. Survives
      BY <1>1, CallsSurvive
    <2>2. api.rv <= api'.rv
      BY PatchStep, Numbers, NumbersNext
    <2>3. api.gen <= api'.gen
      BY PatchStep, Numbers
    <2>4. Advances
      BY <1>2, <2>2, <2>3, PatchStep DEF Advances
    <2> QED
      BY <1>1, <2>1, <2>4, IdleCurrent
  <1>3. CASE ~err /\ w.obs # w.gen /\ api'.obs = w.gen /\ api' # api
    <2>1. /\ api'.exists = api.exists /\ api'.fin = api.fin /\ api'.gen = api.gen
          /\ api'.spec = api.spec /\ api.rv < api'.rv
          /\ Versions' \subseteq Versions \cup {api'}
      BY <1>3, PatchStep
    <2>2. api.exists /\ api.fin
      BY <1>1, <1>3 DEF FinalizerInv
    <2>3. \A v \in Versions : v.rv <= api.rv /\ v.obs <= api.obs
      BY Numbers DEF VersionInv, CurrentInv, ObservedInv
    <2>4. (\A v \in Versions : v.obs <= v.gen)'
      BY <1>1, <1>3, <2>1, Numbers DEF CurrentInv, ObservedInv
    <2>5. (\A u, v \in Versions : u.rv <= v.rv => u.obs <= v.obs)'
      <3> SUFFICES ASSUME NEW u \in Versions', NEW v \in Versions', u.rv <= v.rv
                   PROVE  u.obs <= v.obs
        OBVIOUS
      <3>1. CASE u \in Versions /\ v \in Versions
        BY <3>1 DEF CurrentInv, ObservedInv
      <3>2. CASE u \in Versions /\ v = api'
        BY <1>1, <1>3, <2>3, <3>2, Numbers
      <3>3. CASE u = api' /\ v \in Versions
        BY <2>1, <2>3, <3>3, Numbers, NumbersNext
      <3>4. CASE u = api' /\ v = api'
        BY <3>4, NumbersNext
      <3> QED
        BY <2>1, <3>1, <3>2, <3>3, <3>4
    <2>6. (\A v \in Versions : v.fin => api.obs <= v.gen /\ ctr.atObs <= v.obs)'
      <3> SUFFICES ASSUME NEW v \in Versions', v.fin
                   PROVE  api'.obs <= v.gen /\ ctr'.atObs <= v.obs
        OBVIOUS
      <3>1. CASE v \in Versions
        BY <1>1, <1>3, <3>1 DEF CurrentInv, ObservedInv
      <3>2. CASE v = api'
        <4>1. ctr.atObs <= api.obs
          BY <2>2, Numbers DEF CurrentInv, ObservedInv
        <4> QED
          BY <1>1, <1>3, <2>1, <3>2, <4>1, Numbers
      <3> QED
        BY <2>1, <3>1, <3>2
    <2>7. ObservedInv'
      BY <2>1, <2>2, <2>4, <2>5, <2>6 DEF ObservedInv
    <2>8. BuiltInv'
      <3>1. ctr'.gen <= api'.gen
        BY <1>1, <2>1 DEF CurrentInv, BuiltInv
      <3>2. ASSUME api'.obs = api'.gen, Wants(api'.spec), Kept(ctr'), ctr'.atObs > 0
            PROVE  ctr'.gen = api'.gen
        <4>1. w.gen = api.gen /\ Wants(w.spec) /\ Kept(ctr) /\ ctr.atObs > 0
          BY <1>1, <1>3, <2>1, <3>2
        <4>2. ctr.gen = w.gen
          BY <1>1, <1>3, <4>1 DEF CurrentInv, ContainerInv
        <4> QED
          BY <1>1, <2>1, <4>1, <4>2
      <3> QED
        BY <3>1, <3>2 DEF BuiltInv
    <2> QED
      BY <1>1, <2>7, <2>8 DEF CurrentInv, CopyInv, ContainerInv, Reconciling, Working
  <1> QED
    BY <1>1, <1>2, <1>3, PatchStep

\* The steps of the reconciler that write nothing to the API server.
LEMMA LocalCurrent ==
    ASSUME "detect" \notin Faults, ReadsFinalizer, OrphanInv, CurrentInv, TypeOK',
           \/ Begin \/ Infra \/ ReconcileContainer \/ KillContainer
           \/ StartContainer \/ CreateContainer \/ Cleanup
    PROVE  CurrentInv'
  <1> USE DEF OrphanInv
  <1>0. /\ UNCHANGED <<api, cache, watch>> /\ Versions' = Versions
        /\ w \in Worker /\ cache \in Worker /\ ctr \in Container
        /\ w.obs \in Nat /\ w.gen \in Nat /\ ctr.atObs \in Nat
    BY DEF Begin, Infra, ReconcileContainer, KillContainer, StartContainer,
           CreateContainer, Cleanup, Versions, TypeOK, Worker, Container
  <1>1. Advances
    BY <1>0, UserIdle DEF UserStep
  <1>2. ASSUME Survives
        PROVE  ObservedInv' /\ BuiltInv'
    BY <1>1, <1>2, AdvanceObserved DEF CurrentInv
  <1>3. CASE Begin
    <2>1. Survives /\ ctr' = ctr /\ w' = cache /\ base' = cache
      BY <1>3, CallsSurvive DEF Begin
    <2>2. CASE cache.deleting
      <3>1. pc' = "cleanup"
        BY <1>3, <2>2 DEF Begin
      <3> QED
        BY <1>1, <2>1, <3>1, IdleCurrent
    <2>3. CASE ~cache.deleting
      <3>1. pc' \in {"infra", "finalizer"} /\ (pc' = "infra" => cache.fin)
            /\ (pc' = "finalizer" => ~cache.fin)
        BY <1>3, <2>3 DEF Begin
      <3>2. /\ cache.gen <= api.gen
            /\ cache.gen = api.gen => cache.spec = api.spec
            /\ \A v \in Versions : cache.gen <= v.gen /\ cache.obs <= v.obs
        BY Numbers DEF VersionInv, Older, CurrentInv, ObservedInv
      <3>3. ~cache.fin => ~api.fin
        BY <1>3 DEF Begin
      <3>4. cache.fin => api.obs <= cache.gen /\ ctr.atObs <= cache.obs
        BY Numbers DEF CurrentInv, ObservedInv
      <3>5. CopyInv'
        BY <1>0, <2>1, <3>1, <3>2, <3>3, <3>4, Numbers DEF CopyInv, Working, Reconciling
      <3>6. ContainerInv'
        BY <3>1 DEF ContainerInv
      <3> QED
        BY <1>2, <2>1, <3>5, <3>6 DEF CurrentInv
    <2> QED
      BY <2>2, <2>3
  <1>4. CASE Cleanup
    BY <1>1, <1>4, CallsSurvive, IdleCurrent DEF Cleanup, Goto
  <1>5. CASE Infra
    <2>1. Survives /\ ctr' = ctr
      BY <1>5, CallsSurvive DEF Infra
    <2>2. /\ pc = "infra" /\ pc' \in {"container", "patch"} /\ base' = base
          /\ changed' = SpecChanged(w) /\ (pc' = "patch" => err')
      BY <1>5 DEF Infra
    <2>3. w'.obs = w.obs /\ w'.gen = w.gen /\ w'.spec = w.spec
      BY <1>0, <1>5 DEF Infra, Worker
    <2>4. CopyInv'
      BY <1>0, <2>1, <2>2, <2>3
         DEF CurrentInv, CopyInv, Working, Reconciling, SpecChanged
    <2>5. ContainerInv'
      BY <2>2 DEF ContainerInv
    <2> QED
      BY <1>2, <2>1, <2>4, <2>5 DEF CurrentInv
  <1>6. ASSUME pc \in {"container", "kill", "start", "create"},
               UNCHANGED <<w, base, changed>>, ctr'.atObs <= w.obs,
               pc' \in Reconciling \ {"infra"}
        PROVE  CopyInv'
    BY <1>0, <1>6 DEF CurrentInv, CopyInv, Working, Reconciling, SpecChanged
  <1>7. ASSUME pc \in {"container", "kill", "start", "create"}
        PROVE  /\ ctr.atObs <= w.obs /\ api.obs <= w.gen /\ w.gen <= api.gen
               /\ changed = SpecChanged(w)
               /\ \A v \in Versions : v.fin => w.obs <= v.obs
    BY <1>7 DEF CurrentInv, CopyInv, Working, Reconciling
  <1>8. ASSUME pc \in {"container", "kill", "start", "create"}, Survives
        PROVE  ctr'.atObs <= w.obs
    BY <1>0, <1>7, <1>8, NumbersNext DEF Survives
  <1>9. ASSUME pc \in {"container", "start"}, ~changed, ctr.atObs > 0
        PROVE  w.obs = w.gen
    <2>1. ctr.atObs <= w.obs /\ changed = SpecChanged(w)
      BY <1>7, <1>9
    <2>2. w.obs > 0
      BY <1>0, <1>9, <2>1
    <2> QED
      BY <1>9, <2>1, <2>2 DEF SpecChanged
  <1>10. CASE ReconcileContainer
    <2>1. Survives
      BY <1>10, CallsSurvive DEF ReconcileContainer
    <2>2. pc = "container" /\ UNCHANGED <<w, base, changed>>
      BY <1>10 DEF ReconcileContainer, Goto, Fail
    <2>3. \/ pc' = "patch" /\ ~Wants(w.spec)
          \/ pc' = Decision(Status(ctr)) /\ ctr' = ctr
          \/ pc' = "patch" /\ err'
      BY <1>10 DEF ReconcileContainer, Goto, Fail, Fault, Wants
    <2>4. /\ Decision(Status(ctr)) \in {"patch", "kill", "start", "create"}
          /\ Decision(Status(ctr)) \in {"patch", "start"} => ~changed
          /\ Decision(Status(ctr)) = "create" => ~Kept(ctr)
      BY <1>0 DEF Decision, Status, Kept, Container, RawStates
    <2>5. CopyInv'
      BY <1>6, <1>8, <2>1, <2>2, <2>3, <2>4 DEF Reconciling, Working
    <2>6. ContainerInv'
      <3>1. (pc = "start" => ~changed)'
        BY <2>2, <2>3, <2>4
      <3>2. (pc = "create" => ~Kept(ctr))'
        BY <2>3, <2>4 DEF Kept
      <3>3. ASSUME pc' = "patch", ~err', Wants(w'.spec), Kept(ctr'), ctr'.atObs > 0
            PROVE  w'.obs = w'.gen
        <4>1. ctr' = ctr /\ ~changed
          BY <2>2, <2>3, <2>4, <3>3
        <4> QED
          BY <1>9, <2>2, <3>3, <4>1
      <3> QED
        BY <3>1, <3>2, <3>3 DEF ContainerInv
    <2> QED
      BY <1>2, <2>1, <2>5, <2>6 DEF CurrentInv
  <1>11. CASE KillContainer
    <2>1. Survives
      BY <1>11, CallsSurvive DEF KillContainer
    <2>2. /\ pc = "kill" /\ UNCHANGED <<w, base, changed>>
          /\ \/ pc' = "create" /\ ~Kept(ctr')
             \/ pc' = "patch" /\ err'
      BY <1>0, <1>11, BackendKeeps DEF KillContainer, Goto, Fail
    <2>3. CopyInv'
      BY <1>6, <1>8, <2>1, <2>2 DEF Reconciling, Working
    <2>4. ContainerInv'
      BY <2>2 DEF ContainerInv, Kept
    <2> QED
      BY <1>2, <2>1, <2>3, <2>4 DEF CurrentInv
  <1>12. CASE StartContainer
    <2>1. Survives
      BY <1>12, CallsSurvive DEF StartContainer
    <2>2. pc = "start" /\ pc' = "patch" /\ UNCHANGED <<w, base, changed>> /\ ~changed
      BY <1>12 DEF StartContainer, Goto, Fail, CurrentInv, ContainerInv
    <2>3. CopyInv'
      BY <1>6, <1>8, <2>1, <2>2 DEF Reconciling, Working
    <2>4. Kept(ctr') /\ ctr'.atObs > 0 => w.obs = w.gen
      BY <1>9, <2>1, <2>2 DEF Survives
    <2>5. ContainerInv'
      BY <2>2, <2>4 DEF ContainerInv
    <2> QED
      BY <1>2, <2>1, <2>3, <2>5 DEF CurrentInv
  <1>13. CASE CreateContainer
    <2>1. pc = "create" /\ pc' = "patch" /\ UNCHANGED <<w, base, changed>> /\ ~Kept(ctr)
      BY <1>13 DEF CreateContainer, Goto, Fail, CurrentInv, ContainerInv
    <2>2. /\ Requested \in Container /\ ~Requested.term
          /\ Requested.gen = w.gen /\ Requested.atObs = w.obs
      BY <1>0 DEF Requested, Container, RawStates
    <2>3. \/ ctr' = ctr \/ ctr' = NoContainer
          \/ ctr'.gen = w.gen /\ ctr'.atObs = w.obs
      BY <1>0, <1>13, <2>2, CreateOutcomes DEF CreateContainer
    <2>4. CASE ctr' = ctr \/ ctr' = NoContainer
      <3>1. Survives /\ ~Kept(ctr')
        BY <1>0, <2>1, <2>4, CallsSurvive, BackendKeeps
      <3>2. CopyInv'
        BY <1>6, <1>8, <2>1, <3>1 DEF Reconciling, Working
      <3>3. ContainerInv'
        BY <2>1, <3>1 DEF ContainerInv, Kept
      <3> QED
        BY <1>2, <3>1, <3>2, <3>3 DEF CurrentInv
    <2>5. CASE ctr'.gen = w.gen /\ ctr'.atObs = w.obs
      <3>1. CopyInv'
        BY <1>0, <1>6, <2>1, <2>5 DEF Reconciling, Working
      <3>2. ContainerInv'
        BY <2>1, <2>5 DEF ContainerInv
      <3>3. BuiltInv'
        <4>1. w.gen <= api.gen /\ api.obs <= w.gen
          BY <1>7, <2>1
        <4>2. api.obs = api.gen => w.gen = api.gen
          BY <4>1, Numbers
        <4> QED
          BY <1>0, <2>5, <4>1, <4>2 DEF BuiltInv
      <3>4. \A v \in Versions : v.fin => w.obs <= v.obs
        BY <1>7, <2>1
      <3>5. ObservedInv'
        BY <1>0, <2>5, <3>4 DEF CurrentInv, ObservedInv
      <3> QED
        BY <3>1, <3>2, <3>3, <3>5 DEF CurrentInv
    <2> QED
      BY <2>3, <2>4, <2>5
  <1> QED
    BY <1>3, <1>4, <1>5, <1>10, <1>11, <1>12, <1>13

\* Every step keeps the second part of the invariant.
LEMMA StepCurrent ==
    ASSUME "detect" \notin Faults, ReadsFinalizer, OrphanInv, CurrentInv, [Next]_vars
    PROVE  CurrentInv'
  <1>0. TypeOK' /\ TypeOK
    BY NextType DEF OrphanInv
  <1>1. CASE RemoveFinalizer
    <2>0. api \in Worker
      BY <1>0 DEF TypeOK
    <2>1. Survives /\ pc' = "idle"
      BY <1>0, <1>1, CallsSurvive DEF RemoveFinalizer, Finish
    <2>2. Advances
      <3>1. CASE UNCHANGED <<api, watch>>
        BY <1>0, <1>1, <3>1, UserIdle DEF RemoveFinalizer, UserStep
      <3>2. CASE api.exists /\ Write(Unfinalized(api))
        <4>1. api.deleting
          BY <1>1, Numbers, <1>0 DEF RemoveFinalizer, OrphanInv, FinalizerInv, VersionInv, Older
        <4>2. Unfinalized(api) # api /\ Unfinalized(api) \in Worker
          BY <2>0, <3>2, <4>1 DEF Unfinalized, Worker
        <4>3. api' = [Unfinalized(api) EXCEPT !.rv = api.rv + 1] /\ watch' = watch \cup {api'}
          BY <3>2, <4>2 DEF Write
        <4>4. /\ ~api'.fin /\ ~api'.exists /\ api'.obs = api.obs /\ api'.gen = api.gen
              /\ api'.spec = api.spec /\ api'.rv = api.rv + 1
          BY <2>0, <4>1, <4>3 DEF Unfinalized, Worker
        <4>5. Versions' \subseteq Versions \cup {api'}
          BY <1>1, <4>3 DEF RemoveFinalizer, Versions
        <4> QED
          BY <1>0, <4>4, <4>5, Numbers DEF Advances
      <3> QED
        BY <1>1, <3>1, <3>2 DEF RemoveFinalizer
    <2> QED
      BY <1>0, <2>1, <2>2, IdleCurrent
  <1>2. CASE Crash
    <2>1. Survives /\ pc' = "idle"
      BY <1>0, <1>2, CallsSurvive DEF Crash, Finish
    <2>2. Versions' \subseteq Versions /\ api' = api
      BY <1>2 DEF Crash, Relist, Versions
    <2>3. Advances
      BY <1>0, <2>2, Numbers DEF Advances
    <2> QED
      BY <1>0, <2>1, <2>3, IdleCurrent
  <1>3. CASE AddFinalizer
    BY <1>0, <1>3, AddFinalizerCurrent
  <1>4. CASE PatchStatus
    BY <1>0, <1>4, PatchCurrent
  <1>5. CASE \/ Begin \/ Infra \/ ReconcileContainer \/ KillContainer
             \/ StartContainer \/ CreateContainer \/ Cleanup
    BY <1>0, <1>5, LocalCurrent
  <1> QED
    BY <1>0, <1>1, <1>2, <1>3, <1>4, <1>5, OutsideCurrent DEF Next, Reconcile

\* The second part of the invariant, where a backend is always found and the
\* finalizer write is visible to the next reconcile.
LEMMA CurrentInvariant ==
    ASSUME "detect" \notin Faults, ReadsFinalizer
    PROVE  Spec => []CurrentInv
  <1>1. Init => CurrentInv
    <2> SUFFICES ASSUME Init PROVE CurrentInv
      OBVIOUS
    <2>1. PICK s \in Specs : api = NewWorker(s)
      BY DEF Init
    <2>2. api.obs = 0 /\ api.gen = 1 /\ ~api.fin /\ api.rv = 1
      BY <2>1 DEF NewWorker
    <2>3. Versions = {api} /\ ctr.gen = 0 /\ ctr.atObs = 0 /\ pc = "idle"
      BY DEF Init, Versions, NoContainer
    <2>4. ObservedInv /\ BuiltInv
      BY <2>2, <2>3 DEF ObservedInv, BuiltInv
    <2> QED
      BY <2>3, <2>4 DEF CurrentInv, CopyInv, ContainerInv, Reconciling, Working
  <1>2. OrphanInv /\ CurrentInv /\ [Next]_vars => CurrentInv'
    BY StepCurrent
  <1> QED
    BY <1>1, <1>2, OrphanInvariant, PTL DEF Spec

\* When the CR reports its generation as observed, the container that is up
\* was built from it: for every interleaving of edits, lifecycle requests,
\* stale reads, restarts and failures, as long as the finalizer write is
\* visible to the next reconcile and a backend is always found.
THEOREM ObservedIsCurrent ==
    ASSUME "detect" \notin Faults, ReadsFinalizer
    PROVE  Spec => []ObservedContainerIsCurrent
  <1>1. CurrentInv => ObservedContainerIsCurrent
    BY DEF CurrentInv, BuiltInv, ObservedContainerIsCurrent, Live
  <1> QED
    BY <1>1, CurrentInvariant, PTL

\* A write that keeps the observed generation keeps it in the API server.
LEMMA WriteObserved ==
    ASSUME NEW o \in Worker, Write(o)
    PROVE  api'.obs = o.obs
  BY DEF Write, Worker

\* No step moves the observed generation back: the deferred patch, the only
\* one that writes it, writes the generation of a copy that is at least as
\* new as what was observed.
LEMMA StepObserved ==
    ASSUME OrphanInv, CurrentInv, [Next]_vars
    PROVE  api'.obs >= api.obs
  <1>0. TypeOK /\ api \in Worker /\ api.obs \in Nat
    BY Numbers DEF OrphanInv, TypeOK
  <1>1. CASE AddFinalizer
    <2>1. CASE UNCHANGED api
      BY <1>0, <2>1
    <2>2. CASE Write([api EXCEPT !.fin = TRUE])
      <3> DEFINE o == [api EXCEPT !.fin = TRUE]
      <3>1. o \in Worker /\ o.obs = api.obs /\ Write(o)
        BY <1>0, <2>2 DEF Worker
      <3> HIDE DEF o
      <3>2. api'.obs = api.obs
        BY <3>1, WriteObserved
      <3> QED
        BY <1>0, <3>2
    <2> QED
      BY <1>1, <2>1, <2>2 DEF AddFinalizer
  <1>2. CASE RemoveFinalizer \/ DeleteCR
    <2>1. CASE UNCHANGED api
      BY <1>0, <2>1
    <2>2. CASE Write(Unfinalized(api))
      <3>1. Unfinalized(api) \in Worker /\ Unfinalized(api).obs = api.obs
        BY <1>0 DEF Worker, Unfinalized
      <3> QED
        BY <1>0, <2>2, <3>1, WriteObserved
    <2>3. CASE Write(Deleted(api))
      <3>1. Deleted(api) \in Worker /\ Deleted(api).obs = api.obs
        BY <1>0 DEF Worker, Deleted
      <3> QED
        BY <1>0, <2>3, <3>1, WriteObserved
    <2> QED
      BY <1>2, <2>1, <2>2, <2>3 DEF RemoveFinalizer, DeleteCR
  <1>3. CASE PatchStatus
    <2>1. base.obs = w.obs /\ (~err => api.obs <= w.gen)
      BY <1>3 DEF PatchStatus, CurrentInv, CopyInv, Reconciling
    <2>2. w.gen \in Nat
      BY <1>0, Numbers
    <2> QED
      BY <1>0, <1>3, <2>1, <2>2, PatchStep
  <1>4. CASE Edit \/ \E h \in Handlers : Request(h) \/ Handler(h)
    BY <1>0, <1>4, UserSteps DEF UserStep, Advances
  <1>5. CASE UNCHANGED api
    BY <1>0, <1>5
  <1>6. CASE \/ Begin \/ Infra \/ ReconcileContainer \/ KillContainer
             \/ StartContainer \/ CreateContainer \/ Cleanup
    BY <1>5, <1>6 DEF Begin, Infra, ReconcileContainer, KillContainer, StartContainer,
       CreateContainer, Cleanup
  <1>7. CASE \/ Deliver \/ PodStarts \/ PodGone \/ PodCollected
             \/ ContainerExits \/ Crash
    BY <1>5, <1>7 DEF Deliver, Receive, PodStarts, PodGone, PodCollected,
       ContainerExits, Crash, Relist
  <1>8. CASE UNCHANGED vars
    BY <1>5, <1>8 DEF vars
  <1> QED
    BY <1>1, <1>2, <1>3, <1>4, <1>6, <1>7, <1>8 DEF Next, Reconcile

\* The deferred status patch carries no resourceVersion, yet no reconcile,
\* however stale its copy, moves status.observedGeneration back.
THEOREM ObservedGrows ==
    ASSUME "detect" \notin Faults, ReadsFinalizer
    PROVE  Spec => ObservedNeverRegresses
  <1>1. OrphanInv /\ CurrentInv /\ [Next]_vars => [api'.obs >= api.obs]_vars
    BY StepObserved
  <1> QED
    BY <1>1, OrphanInvariant, CurrentInvariant, PTL DEF Spec, ObservedNeverRegresses

-----------------------------------------------------------------------------
(***************************************************************************)
(* Part 3: a container is not killed before the first edit.                *)
(***************************************************************************)
\* A copy of the CR is no newer than the CR, and not of another spec.
Within(v) ==
    /\ 1 <= v.gen /\ v.gen <= api.gen /\ v.obs <= api.gen
    /\ v.gen = api.gen => v.spec = api.spec

\* Until the first edit nothing looks changed, a container is about to be
\* killed only if neither it nor a wake call can have it running, and a
\* handler at the backend asks for what the spec says.
Untouched ==
    /\ ~changed
    /\ pc = "kill" => /\ Wants(w.spec) /\ ctr.st \notin {"created", "running"}
                      /\ BackendKind = "docker" => ctr.st # "exited"
    /\ \A h \in Handlers : hs[h].pc = "backend" => hs[h].op = api.spec.state

FirstInv ==
    /\ \A v \in Versions : Within(v)
    /\ pc # "idle" => Within(w)
    /\ api.gen = 1 => Untouched

\* What a step does to the CR, as far as FirstInv is concerned.
Grows ==
    /\ api.gen <= api'.gen
    /\ api.gen = api'.gen => api'.spec = api.spec
    /\ Versions' \subseteq Versions \cup {api'}
    /\ api'.obs = api.obs \/ (pc = "patch" /\ api'.obs \in {w.gen, w.obs})

LEMMA GrowsWrite ==
    ASSUME TypeOK, NEW o \in Worker, Write(o), cache' = cache,
           o.gen = api.gen, o.spec = api.spec, o.obs = api.obs
    PROVE  Grows /\ api'.gen = api.gen /\ api'.spec = api.spec
  <1>0. api \in Worker /\ api.gen \in Nat /\ api.rv \in Nat
    BY DEF TypeOK, Worker
  <1>1. CASE o = api
    BY <1>0, <1>1 DEF Write, Grows, Versions
  <1>2. CASE o # api
    <2>1. api' = [o EXCEPT !.rv = api.rv + 1] /\ watch' = watch \cup {api'}
      BY <1>2 DEF Write
    <2>2. api'.gen = api.gen /\ api'.spec = api.spec /\ api'.obs = api.obs
      BY <1>0, <2>1 DEF Worker
    <2> QED BY <1>0, <2>1, <2>2 DEF Grows, Versions
  <1> QED BY <1>1, <1>2

LEMMA StepGrows == ASSUME TypeOK, [Next]_vars PROVE Grows
  <1>0. api \in Worker /\ api.gen \in Nat
    BY DEF TypeOK, Worker
  <1>1. CASE Edit \/ \E h \in Handlers : Request(h) \/ Handler(h)
    BY <1>1, UserSteps DEF UserStep, Advances, Grows
  <1>2. CASE PatchStatus
    BY <1>0, <1>2, PatchStep DEF Grows, PatchStatus
  <1>3. CASE UNCHANGED kube
    BY <1>0, <1>3 DEF Grows, Versions, kube
  <1>4. CASE Deliver \/ Crash
    <2>1. api' = api /\ cache' \in Versions /\ watch' \subseteq watch
      BY <1>4 DEF Deliver, Crash, Receive, Relist, Versions
    <2> QED BY <1>0, <2>1 DEF Grows, Versions
  <1>5. CASE AddFinalizer
    <2> DEFINE o == [api EXCEPT !.fin = TRUE]
    <2>1. o \in Worker /\ o.gen = api.gen /\ o.spec = api.spec /\ o.obs = api.obs
      BY <1>0 DEF Worker
    <2>2. (Write(o) \/ UNCHANGED <<api, watch>>) /\ cache' = cache
      BY <1>5 DEF AddFinalizer
    <2> HIDE DEF o
    <2> QED BY <1>3, <2>1, <2>2, GrowsWrite DEF kube
  <1>6. CASE DeleteCR
    <2> DEFINE o == Deleted(api)
    <2>1. o \in Worker /\ o.gen = api.gen /\ o.spec = api.spec /\ o.obs = api.obs
      BY <1>0 DEF Worker, Deleted
    <2>2. Write(o) /\ cache' = cache
      BY <1>6 DEF DeleteCR
    <2> HIDE DEF o
    <2> QED BY <2>1, <2>2, GrowsWrite
  <1>7. CASE RemoveFinalizer
    <2> DEFINE o == Unfinalized(api)
    <2>1. o \in Worker /\ o.gen = api.gen /\ o.spec = api.spec /\ o.obs = api.obs
      BY <1>0 DEF Worker, Unfinalized
    <2>2. (Write(o) \/ UNCHANGED <<api, watch>>) /\ cache' = cache
      BY <1>7 DEF RemoveFinalizer
    <2> HIDE DEF o
    <2> QED BY <1>3, <2>1, <2>2, GrowsWrite DEF kube
  <1>8. \/ Edit \/ \E h \in Handlers : Request(h) \/ Handler(h)
        \/ PatchStatus \/ UNCHANGED kube \/ Deliver \/ Crash
        \/ AddFinalizer \/ DeleteCR \/ RemoveFinalizer
    BY DEF Next, Reconcile, Begin, Infra, ReconcileContainer, KillContainer,
           StartContainer, CreateContainer, Cleanup,
           PodStarts, PodGone, PodCollected, ContainerExits, vars, kube
  <1> QED BY <1>1, <1>2, <1>3, <1>4, <1>5, <1>6, <1>7, <1>8

\* The copies stay behind the CR.
LEMMA WithinKept ==
    ASSUME TypeOK, FirstInv, [Next]_vars
    PROVE  (\A v \in Versions : Within(v))' /\ (pc' # "idle" => Within(w)')
  <1>1. Grows
    BY StepGrows
  <1>2. /\ api \in Worker /\ api' \in Worker /\ w \in Worker /\ Versions \subseteq Worker
        /\ api \in Versions /\ cache \in Versions
    BY NextType DEF TypeOK, Versions
  <1>3. \A v \in Worker : v.gen \in Nat /\ v.obs \in Nat
    BY DEF Worker
  <1> DEFINE Still(v) == /\ 1 <= v.gen /\ v.gen <= api'.gen /\ v.obs <= api'.gen
                         /\ v.gen = api'.gen => v.spec = api'.spec
  <1>4. \A v \in Worker : Within(v) => Still(v)
    BY <1>1, <1>2, <1>3 DEF Within, Grows
  <1>5. Still(api')
    <2>1. api'.obs <= api'.gen
      BY <1>1, <1>2, <1>3 DEF FirstInv, Within, Grows
    <2> QED BY <1>1, <1>2, <1>3, <2>1 DEF FirstInv, Within, Grows
  <1>6. \A v \in Versions' : Still(v)
    BY <1>1, <1>2, <1>4, <1>5 DEF FirstInv, Grows
  <1>7. ASSUME pc' # "idle" PROVE Still(w')
    <2>1. CASE Begin
      BY <1>2, <1>4, <2>1 DEF Begin, FirstInv
    <2>2. CASE AddFinalizer
      <3>1. w' = api' \/ (w' = w /\ pc # "idle")
        BY <1>7, <2>2 DEF AddFinalizer, Fail, Finish
      <3> QED BY <1>2, <1>4, <1>5, <3>1 DEF FirstInv
    <2>3. CASE Infra
      <3>1. /\ w'.gen = w.gen /\ w'.obs = w.obs /\ w'.spec = w.spec /\ pc # "idle"
        BY <1>2, <2>3 DEF Infra, Worker
      <3>2. Still(w)
        BY <1>2, <1>4, <3>1 DEF FirstInv
      <3> QED BY <3>1, <3>2
    <2>4. CASE w' = w /\ pc # "idle"
      BY <1>2, <1>4, <2>4 DEF FirstInv
    <2>5. \/ Begin \/ AddFinalizer \/ Infra \/ (w' = w /\ pc # "idle")
      BY <1>7 DEF Next, Reconcile, ReconcileContainer, KillContainer, StartContainer,
             CreateContainer, PatchStatus, Cleanup, RemoveFinalizer, Goto, Fail, Finish,
             Deliver, Edit, DeleteCR, Request, Handler, HandlerUpdate, HandlerBackend,
             HandlerGet, HandlerStatus, PodStarts, PodGone, PodCollected, ContainerExits,
             Crash, vars
    <2> QED BY <2>1, <2>2, <2>3, <2>4, <2>5
  <1> QED BY <1>6, <1>7 DEF Within

\* An edit gives the CR a generation it did not have.
LEMMA BeforeEdit ==
    ASSUME TypeOK, FirstInv, [Next]_vars, api'.gen = 1
    PROVE  api.gen = 1 /\ Untouched /\ api'.spec = api.spec
  <1>1. api.gen \in Nat /\ 1 <= api.gen /\ api.gen <= api'.gen
    BY StepGrows DEF TypeOK, Worker, FirstInv, Within, Versions, Grows
  <1>2. api.gen = 1
    BY <1>1
  <1> QED BY <1>2, StepGrows DEF FirstInv, Grows

\* A handler that reaches the backend has changed nothing in the spec.
LEMMA RequestsKept ==
    ASSUME TypeOK, FirstInv, [Next]_vars, api'.gen = 1, NEW h \in Handlers,
           hs'[h].pc = "backend"
    PROVE  hs'[h].op = api'.spec.state
  <1>1. /\ api.gen = 1 /\ Untouched /\ api'.spec = api.spec /\ api \in Worker
        /\ hs \in [Handlers -> Requests]
    BY BeforeEdit DEF TypeOK
  <1>2. CASE hs'[h] = hs[h]
    BY <1>1, <1>2 DEF Untouched
  <1>3. CASE HandlerUpdate(h)
    <2> DEFINE s == [api.spec EXCEPT !.state = hs[h].op]
               g == IF s = api.spec THEN api.gen ELSE api.gen + 1
               o == [api EXCEPT !.spec = s, !.gen = g]
    <2>1. /\ hs' = [hs EXCEPT ![h].pc = "backend", ![h].o = Nil] /\ Write(o)
      BY <1>1, <1>3 DEF HandlerUpdate, NoRequest, Requests
    <2>2. hs'[h].op = hs[h].op
      BY <1>1, <2>1 DEF Requests
    <2>3. o.gen = g /\ (o = api \/ api'.gen = o.gen)
      <3>1. o.gen = g
        BY <1>1 DEF Worker
      <3>2. o = api \/ api' = [o EXCEPT !.rv = api.rv + 1]
        BY <2>1 DEF Write
      <3>3. [o EXCEPT !.rv = api.rv + 1].gen = g
        BY <1>1 DEF Worker
      <3> QED BY <3>1, <3>2, <3>3
    <2>4. g = 1
      BY <1>1, <2>3
    <2>5. s = api.spec
      BY <1>1, <2>4
    <2>6. s.state = hs[h].op
      BY <1>1 DEF Worker, WorkerSpec
    <2> QED BY <1>1, <2>2, <2>5, <2>6
  <1>4. hs'[h] = hs[h] \/ HandlerUpdate(h)
    <2>1. CASE \E g \in Handlers : Request(g) \/ Handler(g)
      <3>1. PICK g \in Handlers : Request(g) \/ Handler(g)
        BY <2>1
      <3>2. CASE g # h
        BY <1>1, <3>1, <3>2 DEF Request, Handler, HandlerUpdate, HandlerBackend, HandlerGet,
           HandlerStatus
      <3>3. CASE g = h
        BY <1>1, <3>1, <3>3 DEF Request, Handler, HandlerBackend, HandlerGet,
           HandlerStatus, Requests, NoRequest
      <3> QED BY <3>2, <3>3
    <2>2. CASE Crash
      BY <2>2 DEF Crash, NoRequest
    <2> QED BY <2>1, <2>2 DEF Next, Reconcile, Begin, AddFinalizer, Infra, ReconcileContainer,
           KillContainer, StartContainer, CreateContainer, PatchStatus, Cleanup, RemoveFinalizer,
           Deliver, Edit, DeleteCR, PodStarts, PodGone, PodCollected, ContainerExits, vars
  <1> QED BY <1>2, <1>3, <1>4

\* The decision to kill, and what may happen until the kill.
LEMMA KillKept ==
    ASSUME TypeOK, FirstInv, [Next]_vars, api'.gen = 1
    PROVE  /\ ~changed'
           /\ pc' = "kill" => /\ Wants(w'.spec) /\ ctr'.st \notin {"created", "running"}
                              /\ BackendKind = "docker" => ctr'.st # "exited"
  <1>1. /\ api.gen = 1 /\ Untouched /\ api \in Worker /\ w \in Worker /\ ctr \in Container
        /\ w.gen \in Nat /\ w.obs \in Nat
    BY BeforeEdit DEF TypeOK, Worker
  <1>2. ~changed'
    <2>1. CASE Infra
      <3>1. w.gen = 1 /\ w.obs \in {0, 1}
        BY <1>1, <2>1 DEF FirstInv, Within, Infra
      <3>2. ~SpecChanged(w)
        BY <3>1, SMT DEF SpecChanged
      <3>3. changed' = SpecChanged(w)
        BY <2>1 DEF Infra
      <3> QED BY <3>2, <3>3
    <2> QED BY <1>1, <2>1 DEF Untouched, Next, Reconcile, Begin, AddFinalizer, ReconcileContainer,
           KillContainer, StartContainer, CreateContainer, PatchStatus, Cleanup, RemoveFinalizer,
           Goto, Fail, Finish, Deliver, Edit, DeleteCR, Request, Handler, HandlerUpdate,
           HandlerBackend, HandlerGet, HandlerStatus, PodStarts, PodGone, PodCollected,
           ContainerExits, Crash, vars
  <1>3. ASSUME pc' = "kill"
        PROVE  /\ Wants(w'.spec) /\ ctr'.st \notin {"created", "running"}
               /\ BackendKind = "docker" => ctr'.st # "exited"
    <2>1. CASE ReconcileContainer
      <3>1. /\ w.spec.managed /\ DesiredState(w.spec) = "Running" /\ w' = w /\ ctr' = ctr
            /\ Decision(Status(ctr)) = "kill"
        BY <1>3, <2>1 DEF ReconcileContainer, Goto, Fail
      <3> QED BY <1>1, <3>1 DEF Wants, Untouched, Decision, Status
    <2>2. CASE pc = "kill" /\ w' = w /\ (ctr' = ctr \/ ctr'.st = "absent" \/ ctr'.st = ctr.st)
      BY <1>1, <2>2 DEF Untouched
    <2>3. ASSUME NEW h \in Handlers, HandlerBackend(h), pc = "kill"
          PROVE  w' = w /\ ctr'.st = ctr.st
      <3>1. Wants(w.spec) /\ w.gen = 1 /\ w.spec = api.spec
        BY <1>1, <2>3 DEF Untouched, FirstInv, Within
      <3>2. hs[h].pc = "backend" /\ hs[h].op \in {"Running", "Sleeping"}
        BY <2>3 DEF HandlerBackend, TypeOK, Requests
      <3>3. hs[h].op = "Running"
        BY <1>1, <3>1, <3>2 DEF Untouched, Wants, DesiredState
      <3>4. ctr' = Start(ctr) \/ ctr' = ctr
        BY <2>3, <3>3 DEF HandlerBackend
      <3>5. Start(ctr).st = ctr.st
        BY <1>1, <2>3 DEF Untouched, Start, Container
      <3> QED BY <2>3, <3>4, <3>5 DEF HandlerBackend
    <2>4. CASE PodStarts \/ PodGone \/ PodCollected \/ ContainerExits
      <3>1. pc = "kill" /\ w' = w
        BY <1>3, <2>4 DEF PodStarts, PodGone, PodCollected, ContainerExits
      <3>2. Delete(ctr).st \in {"absent", ctr.st} /\ NoContainer.st = "absent"
        BY <1>1 DEF Delete, NoContainer, Container
      <3>3. ctr'.st \in {"absent", ctr.st}
        BY <1>1, <2>4, <3>1, <3>2 DEF Untouched, PodStarts, PodGone, PodCollected, ContainerExits
      <3> QED BY <2>2, <3>1, <3>3
    <2>5. \/ ReconcileContainer \/ PodStarts \/ PodGone \/ PodCollected \/ ContainerExits
          \/ \E h \in Handlers : HandlerBackend(h) /\ pc = "kill"
          \/ pc = "kill" /\ w' = w /\ ctr' = ctr
      BY <1>3 DEF Next, Reconcile, Begin, AddFinalizer, Infra, KillContainer, StartContainer,
             CreateContainer, PatchStatus, Cleanup, RemoveFinalizer, Goto, Fail, Finish,
             Deliver, Edit, DeleteCR, Request, Handler, HandlerUpdate, HandlerBackend,
             HandlerGet, HandlerStatus, Crash, vars
    <2> QED BY <2>1, <2>2, <2>3, <2>4, <2>5
  <1> QED BY <1>2, <1>3

\* Before the first edit no reconcile deletes a container that is up: for every
\* staleness of the cache, every failure and whatever the lifecycle handlers do
\* between the status read and the delete (ensureMemberContainerPresent with
\* the gate observedGeneration > 0).
THEOREM FirstContainerKept == Spec => FirstContainerSurvives
  <1>1. Init => TypeOK /\ FirstInv
    <2> SUFFICES ASSUME Init PROVE FirstInv
      BY InitType
    <2>1. PICK s \in Specs : api = NewWorker(s)
      BY DEF Init
    <2>2. api.gen = 1 /\ api.obs = 0
      BY <2>1 DEF NewWorker
    <2>3. Versions = {api} /\ pc = "idle" /\ ~changed /\ hs = [h \in Handlers |-> NoRequest]
      BY DEF Init, Versions
    <2> QED BY <2>2, <2>3 DEF FirstInv, Within, Untouched, NoRequest
  <1>2. TypeOK /\ FirstInv /\ [Next]_vars => TypeOK' /\ FirstInv'
    <2> SUFFICES ASSUME TypeOK, FirstInv, [Next]_vars PROVE FirstInv'
      BY NextType
    <2>1. api'.gen = 1 => Untouched'
      BY KillKept, RequestsKept DEF Untouched
    <2> QED BY <2>1, WithinKept DEF FirstInv
  <1>3. TypeOK /\ FirstInv /\ [Next]_vars =>
           [KillContainer /\ api.gen = 1 => ~Live(ctr)]_vars
    BY DEF KillContainer, FirstInv, Untouched, Live
  <1> QED BY <1>1, <1>2, <1>3, PTL DEF Spec, FirstContainerSurvives
=============================================================================
