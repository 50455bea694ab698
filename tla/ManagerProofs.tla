--------------------------- MODULE ManagerProofs ---------------------------
(***************************************************************************)
(* Proofs about ManagerController, for both backends and for every set of  *)
(* states and faults and every bound on edits and failures.                *)
(***************************************************************************)
EXTENDS ManagerController, TLAPS

\* Nobody has seen a claim that the CR does not have: neither the versions
\* still to be read nor the reconcile under way, and its deferred patch, which
\* writes what differs from the base, never clears the flag.
ClaimInv ==
    /\ \A v \in watch \cup {cache} : v.welcome => api.welcome
    /\ pc # "idle" => (m.welcome => api.welcome) /\ (base.welcome => m.welcome)
    /\ pc = "claim" => ~m.welcome
    /\ pc = "send" => m.welcome

\* A reconcile that may still send, and one that will follow on an unclaimed
\* slot, has a message to its credit.
MaySend == ~api.welcome \/ pc = "send" \/ (pc # "idle" /\ ~m.welcome)

CountInv == sent <= 1 + unseen /\ (MaySend => sent <= unseen)

WelcomeInv == ClaimInv /\ CountInv

-----------------------------------------------------------------------------
(***************************************************************************)
(* Types.                                                                  *)
(***************************************************************************)
LEMMA ContainerTypes ==
    ASSUME NEW c \in Container
    PROVE  /\ NoContainer \in Container /\ Delete(c) \in Container
           /\ Stop(c) \in Container /\ Start(c) \in Container
  BY DEF Container, NoContainer, RawStates, Delete, Stop, Start

LEMMA CreateTypes ==
    ASSUME NEW c \in Container, NEW n \in Container, NEW o \in Create(c, n) \cup CreateFailure(c, n)
    PROVE  o.ctr \in Container
  <1>1. /\ [n EXCEPT !.st = "running"] \in Container
        /\ [n EXCEPT !.st = "created"] \in Container
        /\ NoContainer \in Container
    BY DEF Container, NoContainer, RawStates
  <1>2. o.ctr \in {c, NoContainer, [n EXCEPT !.st = "running"], [n EXCEPT !.st = "created"]}
    BY DEF Create, CreateFailure
  <1> QED BY <1>1, <1>2

\* A write of a well-typed object.
LEMMA WriteType ==
    ASSUME api \in Manager, watch \subseteq Manager, NEW o \in Manager, Write(o)
    PROVE  /\ api' \in Manager /\ watch' \subseteq Manager
           /\ api'.welcome = o.welcome
  <1>1. [o EXCEPT !.rv = api.rv + 1] \in Manager
        /\ [o EXCEPT !.rv = api.rv + 1].welcome = o.welcome
    BY DEF Manager
  <1> QED BY <1>1 DEF Write

LEMMA NewTypes ==
    /\ \A s \in States : NewManager(s) \in Manager /\ ~NewManager(s).welcome
    /\ Nil \in Manager
  BY ManagerAssumption DEF NewManager, Nil, Manager, Phases

LEMMA FaultType ==
    ASSUME NEW k, Fault(k), faults \in 0 .. MaxFaults PROVE faults' \in 0 .. MaxFaults
  BY ManagerAssumption DEF Fault

\* An edit changes the spec alone.
LEMMA EditType ==
    ASSUME api \in Manager, NEW s \in States
    PROVE  /\ [api EXCEPT !.state = s, !.gen = @ + 1] \in Manager
           /\ [api EXCEPT !.state = s, !.gen = @ + 1].welcome = api.welcome
  <1>1. s \in {"Running", "Sleeping", "Stopped"}
    BY ManagerAssumption
  <1>2. api.gen + 1 \in Nat
    BY DEF Manager
  <1> QED BY <1>1, <1>2 DEF Manager

LEMMA InitType == Init => TypeOK
  <1> SUFFICES ASSUME Init PROVE TypeOK
    OBVIOUS
  <1>1. api \in Manager /\ cache \in Manager /\ watch \subseteq Manager
    BY NewTypes DEF Init
  <1>2. ctr \in Container
    BY DEF Init, NoContainer, Container, RawStates
  <1>3. faults \in 0 .. MaxFaults /\ sent \in 0 .. MaxSent /\ unseen \in 0 .. MaxSent
    BY ManagerAssumption DEF Init
  <1> QED BY <1>1, <1>2, <1>3, NewTypes DEF Init, TypeOK, PCs

\* What users, the watch, Matrix, the gateway, the container and the process
\* do.
LEMMA EnvironmentType ==
    ASSUME TypeOK,
           \/ Deliver \/ Edit \/ DeleteCR \/ AgentJoins \/ KeyPropagates
           \/ PodStarts \/ PodGone \/ PodCollected \/ ContainerExits \/ Crash
    PROVE  TypeOK'
  <1>1. CASE Deliver
    BY <1>1 DEF TypeOK, Deliver, Receive, outside
  <1>2. CASE Edit
    <2>1. PICK s \in States : Write([api EXCEPT !.state = s, !.gen = @ + 1])
      BY <1>2 DEF Edit
    <2>2. [api EXCEPT !.state = s, !.gen = @ + 1] \in Manager
      BY EditType DEF TypeOK
    <2> QED BY <1>2, <2>1, <2>2, WriteType DEF TypeOK, Edit, outside
  <1>3. CASE DeleteCR
    <2>1. Deleted(api) \in Manager
      BY DEF TypeOK, Manager, Deleted
    <2> QED BY <1>3, <2>1, WriteType DEF TypeOK, DeleteCR, outside
  <1>4. CASE AgentJoins \/ KeyPropagates
    BY <1>4 DEF TypeOK, AgentJoins, KeyPropagates, kube
  <1>5. CASE PodStarts \/ PodGone \/ PodCollected
    <2>1. ctr' \in Container
      BY <1>5, ContainerTypes
         DEF TypeOK, PodStarts, PodGone, PodCollected, Container, RawStates
    <2> QED BY <1>5, <2>1 DEF TypeOK, PodStarts, PodGone, PodCollected, kube, outside
  <1>6. CASE ContainerExits
    <2>1. ctr' \in Container
      BY <1>6 DEF TypeOK, ContainerExits, Container, RawStates
    <2> QED BY <1>6, <2>1, FaultType DEF TypeOK, ContainerExits, kube, outside
  <1>7. CASE Crash
    BY <1>7, FaultType, NewTypes DEF TypeOK, Crash, Finish, Relist, outside, PCs
  <1> QED BY <1>1, <1>2, <1>3, <1>4, <1>5, <1>6, <1>7

\* What the reconciler writes into its copies and into the CR.
LEMMA CopyTypes ==
    ASSUME TypeOK
    PROVE  /\ [m EXCEPT !.mxid = TRUE] \in Manager
           /\ \A b \in {m.mxid, TRUE} : [m EXCEPT !.mxid = b] \in Manager
           /\ [m EXCEPT !.welcome = TRUE] \in Manager
           /\ [api EXCEPT !.welcome = TRUE] \in Manager
           /\ [api EXCEPT !.fin = TRUE] \in Manager
           /\ Unfinalized(api) \in Manager
           /\ Requested \in Container
  BY DEF TypeOK, Manager, Unfinalized, Requested, Container, RawStates

LEMMA MergeType ==
    ASSUME TypeOK
    PROVE  /\ Merge(api, base, FinalStatus) \in Manager
           /\ Merge(api, base, FinalStatus).welcome
                = IF m.welcome = base.welcome THEN api.welcome ELSE m.welcome
  <1>1. computeManagerPhase(m, err) \in Phases
    BY DEF TypeOK, Manager, Phases, computeManagerPhase
  <1>2. FinalStatus \in Manager /\ FinalStatus.welcome = m.welcome
    BY <1>1 DEF TypeOK, Manager, FinalStatus
  <1>3. ASSUME NEW o \in Nat, NEW p \in Phases, NEW i \in BOOLEAN, NEW v \in BOOLEAN
        PROVE  /\ [api EXCEPT !.obs = o, !.phase = p, !.mxid = i, !.welcome = v] \in Manager
               /\ [api EXCEPT !.obs = o, !.phase = p, !.mxid = i, !.welcome = v].welcome = v
    BY DEF TypeOK, Manager
  <1> DEFINE n == FinalStatus
  <1>4. /\ Merged(api.obs, base.obs, n.obs) \in Nat
        /\ Merged(api.phase, base.phase, n.phase) \in Phases
        /\ Merged(api.mxid, base.mxid, n.mxid) \in BOOLEAN
        /\ Merged(api.welcome, base.welcome, n.welcome) \in BOOLEAN
    <2> HIDE DEF n
    <2> QED BY <1>2 DEF TypeOK, Manager, Merged, n
  <1>5. Merged(api.welcome, base.welcome, n.welcome)
           = IF m.welcome = base.welcome THEN api.welcome ELSE m.welcome
    BY <1>2 DEF Merged
  <1> HIDE DEF n
  <1>6. Merge(api, base, n) \in Manager
        /\ Merge(api, base, n).welcome = Merged(api.welcome, base.welcome, n.welcome)
    <2> DEFINE o == Merged(api.obs, base.obs, n.obs)
               p == Merged(api.phase, base.phase, n.phase)
               i == Merged(api.mxid, base.mxid, n.mxid)
               v == Merged(api.welcome, base.welcome, n.welcome)
    <2>1. Merge(api, base, n) = [api EXCEPT !.obs = o, !.phase = p, !.mxid = i, !.welcome = v]
      BY DEF Merge
    <2>2. o \in Nat /\ p \in Phases /\ i \in BOOLEAN /\ v \in BOOLEAN
      BY <1>4
    <2> HIDE DEF o, p, i, v
    <2>3. /\ [api EXCEPT !.obs = o, !.phase = p, !.mxid = i, !.welcome = v] \in Manager
          /\ [api EXCEPT !.obs = o, !.phase = p, !.mxid = i, !.welcome = v].welcome = v
      BY <1>3, <2>2
    <2> QED BY <2>1, <2>3 DEF v
  <1> QED BY <1>5, <1>6 DEF n

\* The steps of a reconcile that leave the CR alone.
LEMMA PhaseType ==
    ASSUME TypeOK,
           \/ Begin \/ Infra \/ ReconcileContainer \/ KillContainer \/ StartContainer
           \/ CreateContainer \/ WelcomeGates \/ Send \/ Cleanup
    PROVE  TypeOK' /\ UNCHANGED api
  <1>1. ctr \in Container /\ m \in Manager /\ sent \in 0 .. MaxSent
        /\ unseen \in 0 .. MaxSent /\ faults \in 0 .. MaxFaults
    BY DEF TypeOK
  <1>2. CASE Begin
    <2>1. unseen' \in 0 .. MaxSent
      BY <1>1, <1>2, ManagerAssumption DEF Begin, Counted
    <2> QED BY <1>2, <2>1 DEF TypeOK, Begin, kube, PCs
  <1>3. CASE Infra
    BY <1>3, CopyTypes, FaultType DEF TypeOK, Infra, kube, outside, PCs
  <1>4. CASE ReconcileContainer
    <2>1. Decision(Status(ctr)) \in PCs
      BY DEF Decision, PCs
    <2>2. ctr' \in Container
      BY <1>1, <1>4, ContainerTypes DEF ReconcileContainer
    <2> QED BY <1>4, <2>1, <2>2, FaultType
            DEF TypeOK, ReconcileContainer, Goto, Fail, kube, outside, PCs
  <1>5. CASE KillContainer \/ StartContainer
    BY <1>1, <1>5, ContainerTypes, FaultType
       DEF TypeOK, KillContainer, StartContainer, Goto, Fail, kube, outside, PCs
  <1>6. CASE CreateContainer
    <2>1. ctr' \in Container
      BY <1>1, <1>6, CopyTypes, CreateTypes DEF CreateContainer
    <2> QED BY <1>6, <2>1, FaultType DEF TypeOK, CreateContainer, Goto, Fail, kube, outside, PCs
  <1>7. CASE WelcomeGates
    BY <1>7, FaultType DEF TypeOK, WelcomeGates, Goto, kube, outside, PCs
  <1>8. CASE Send
    <2>1. sent' \in 0 .. MaxSent
      BY <1>1, <1>8, ManagerAssumption DEF Send, Counted
    <2> QED BY <1>8, <2>1, FaultType DEF TypeOK, Send, Goto, kube, PCs
  <1>9. CASE Cleanup
    BY <1>1, <1>9, ContainerTypes, FaultType DEF TypeOK, Cleanup, Goto, kube, outside, PCs
  <1> QED BY <1>2, <1>3, <1>4, <1>5, <1>6, <1>7, <1>8, <1>9

\* The steps that write the CR.
LEMMA WriterType ==
    ASSUME TypeOK, AddFinalizer \/ Claim \/ PatchStatus \/ RemoveFinalizer
    PROVE  TypeOK'
  <1>1. CASE AddFinalizer
    BY <1>1, CopyTypes, WriteType, FaultType DEF TypeOK, AddFinalizer, Fail, outside, PCs
  <1>2. CASE Claim
    BY <1>2, CopyTypes, WriteType, FaultType DEF TypeOK, Claim, Goto, outside, PCs
  <1>3. CASE PatchStatus
    BY <1>3, MergeType, WriteType, FaultType, NewTypes
       DEF TypeOK, PatchStatus, Finish, outside, PCs
  <1>4. CASE RemoveFinalizer
    BY <1>4, CopyTypes, WriteType, FaultType, NewTypes
       DEF TypeOK, RemoveFinalizer, Finish, outside, PCs
  <1> QED BY <1>1, <1>2, <1>3, <1>4

LEMMA NextType == TypeOK /\ [Next]_vars => TypeOK'
  <1> SUFFICES ASSUME TypeOK, [Next]_vars PROVE TypeOK'
    OBVIOUS
  <1>1. CASE UNCHANGED vars
    BY <1>1 DEF TypeOK, vars
  <1>2. CASE Reconcile
    BY <1>2, PhaseType, WriterType DEF Reconcile
  <1>3. CASE Next /\ ~Reconcile
    BY <1>3, EnvironmentType DEF Next
  <1> QED BY <1>1, <1>2, <1>3

\* The Manager CR, its copies, its container and the welcome's bookkeeping
\* always have their types.
THEOREM ManagerTypeCorrect == Spec => []TypeOK
  BY InitType, NextType, PTL DEF Spec

-----------------------------------------------------------------------------
(***************************************************************************)
(* The welcome.                                                            *)
(***************************************************************************)
LEMMA InitWelcome == Init => WelcomeInv
  <1> SUFFICES ASSUME Init PROVE WelcomeInv
    OBVIOUS
  <1>1. ClaimInv
    BY NewTypes DEF Init, ClaimInv
  <1>2. CountInv
    BY DEF Init, CountInv
  <1> QED BY <1>1, <1>2 DEF WelcomeInv

\* A write that does not clear the flag, while the reconcile keeps its copies.
LEMMA WriteClaims ==
    ASSUME TypeOK, NEW o \in Manager, Write(o), api.welcome => o.welcome, cache' = cache
    PROVE  /\ api'.welcome = o.welcome
           /\ api.welcome => api'.welcome
           /\ (\A v \in watch \cup {cache} : v.welcome => api.welcome)
                => \A v \in watch' \cup {cache'} : v.welcome => api'.welcome
  <1>1. api'.welcome = o.welcome
    BY WriteType DEF TypeOK
  <1>2. watch' \subseteq watch \cup {api'}
    BY DEF Write
  <1> QED BY <1>1, <1>2

\* The steps of users, the watch, Matrix, the gateway, the container and the
\* process.
LEMMA OthersClaim ==
    ASSUME TypeOK, ClaimInv,
           \/ Deliver \/ Edit \/ DeleteCR \/ AgentJoins \/ KeyPropagates
           \/ PodStarts \/ PodGone \/ PodCollected \/ ContainerExits \/ Crash
    PROVE  /\ ClaimInv' /\ UNCHANGED <<sent, unseen>> /\ (api.welcome => api'.welcome)
           /\ pc' = "idle" \/ UNCHANGED <<pc, m>>
  <1>1. CASE Crash
    BY <1>1 DEF ClaimInv, Crash, Finish, Relist, outside
  <1>2. CASE Edit
    <2>1. PICK s \in States : Write([api EXCEPT !.state = s, !.gen = @ + 1])
      BY <1>2 DEF Edit
    <2>2. [api EXCEPT !.state = s, !.gen = @ + 1] \in Manager
          /\ [api EXCEPT !.state = s, !.gen = @ + 1].welcome = api.welcome
      BY EditType DEF TypeOK
    <2> QED BY <1>2, <2>1, <2>2, WriteClaims DEF ClaimInv, Edit, outside
  <1>3. CASE DeleteCR
    <2>1. Deleted(api) \in Manager /\ Deleted(api).welcome = api.welcome
      BY DEF TypeOK, Manager, Deleted
    <2> QED BY <1>3, <2>1, WriteClaims DEF ClaimInv, DeleteCR, outside
  <1>4. CASE Deliver
    BY <1>4 DEF ClaimInv, Deliver, Receive, outside
  <1>5. CASE \/ AgentJoins \/ KeyPropagates
             \/ PodStarts \/ PodGone \/ PodCollected \/ ContainerExits
    <2>1. UNCHANGED <<api, cache, watch, pc, m, base, sent, unseen>>
      BY <1>5 DEF AgentJoins, KeyPropagates, PodStarts, PodGone,
         PodCollected, ContainerExits, kube, outside
    <2> QED BY <2>1 DEF ClaimInv
  <1> QED BY <1>1, <1>2, <1>3, <1>4, <1>5

\* No step of a reconcile clears the flag.
LEMMA ReconcileClaim ==
    ASSUME TypeOK, ClaimInv, Reconcile
    PROVE  ClaimInv' /\ (api.welcome => api'.welcome)
  <1>0. api \in Manager /\ m \in Manager /\ watch \subseteq Manager
    BY DEF TypeOK
  <1>1. CASE Begin
    <2>1. m' = cache /\ base' = cache /\ pc' \in {"cleanup", "infra", "finalizer"} /\ UNCHANGED kube
      BY <1>1 DEF Begin
    <2> QED BY <2>1 DEF ClaimInv, kube
  <1>2. CASE AddFinalizer
    <2>1. CASE Write([api EXCEPT !.fin = TRUE]) /\ m' = api' /\ pc' = "infra" /\ UNCHANGED base
      <3>1. [api EXCEPT !.fin = TRUE] \in Manager
            /\ [api EXCEPT !.fin = TRUE].welcome = api.welcome
        BY <1>0 DEF Manager
      <3>2. pc = "finalizer" /\ cache' = cache
        BY <1>2 DEF AddFinalizer
      <3> QED BY <2>1, <3>1, <3>2, WriteClaims DEF ClaimInv
    <2>2. CASE Fail /\ UNCHANGED <<api, watch>>
      BY <1>2, <2>2 DEF ClaimInv, AddFinalizer, Fail
    <2> QED BY <1>2, <2>1, <2>2 DEF AddFinalizer
  <1>3. CASE Infra
    <2>1. m'.welcome = m.welcome
      BY <1>0, <1>3 DEF Infra, Manager
    <2>2. pc = "infra" /\ pc' \in {"container", "patch"} /\ UNCHANGED <<api, cache, watch, base>>
      BY <1>3 DEF Infra, kube
    <2> QED BY <2>1, <2>2 DEF ClaimInv
  <1>4. CASE ReconcileContainer \/ KillContainer \/ StartContainer \/ CreateContainer \/ Cleanup
    <2>1. Decision(Status(ctr)) \notin {"idle", "claim", "send"}
      BY DEF Decision
    <2>2. /\ pc # "idle" /\ pc' \notin {"idle", "claim", "send"}
          /\ UNCHANGED <<api, cache, watch, m, base>>
      BY <1>4, <2>1 DEF ReconcileContainer, KillContainer, StartContainer, CreateContainer,
         Cleanup, Goto, Fail, kube
    <2> QED BY <2>2 DEF ClaimInv
  <1>5. CASE WelcomeGates
    <2>1. pc = "welcome" /\ UNCHANGED <<api, cache, watch, m, base>>
      BY <1>5 DEF WelcomeGates, Goto, kube
    <2>2. pc' = "patch" \/ (pc' = "claim" /\ ~m.welcome)
      BY <1>5 DEF WelcomeGates, Goto, MayWelcome
    <2> QED BY <2>1, <2>2 DEF ClaimInv
  <1>6. CASE Claim
    <2>1. pc = "claim" /\ cache' = cache
      BY <1>6 DEF Claim
    <2>2. CASE /\ Write([api EXCEPT !.welcome = TRUE]) /\ m' = [m EXCEPT !.welcome = TRUE]
               /\ pc' = "send" /\ UNCHANGED base
      <3>1. [api EXCEPT !.welcome = TRUE] \in Manager /\ [api EXCEPT !.welcome = TRUE].welcome
            /\ [m EXCEPT !.welcome = TRUE].welcome
        BY <1>0 DEF Manager
      <3> QED BY <2>1, <2>2, <3>1, WriteClaims DEF ClaimInv
    <2>3. CASE Goto("patch") /\ UNCHANGED <<api, watch>>
      BY <2>1, <2>3 DEF ClaimInv, Goto
    <2> QED BY <1>6, <2>2, <2>3 DEF Claim
  <1>7. CASE Send
    <2>1. pc = "send" /\ pc' = "patch" /\ UNCHANGED <<api, cache, watch, m, base>>
      BY <1>7 DEF Send, Goto, kube
    <2> QED BY <2>1 DEF ClaimInv
  <1>8. CASE PatchStatus
    <2>0. pc = "patch" /\ pc' = "idle" /\ cache' = cache
      BY <1>8 DEF PatchStatus, Finish
    <2>1. CASE UNCHANGED <<api, watch>>
      BY <2>0, <2>1 DEF ClaimInv
    <2>2. CASE Write(Merge(api, base, FinalStatus))
      <3>0. /\ base.welcome => m.welcome
            /\ m.welcome \in BOOLEAN /\ base.welcome \in BOOLEAN
        BY <2>0 DEF ClaimInv, TypeOK, Manager
      <3>1. api.welcome => Merge(api, base, FinalStatus).welcome
        <4>1. CASE m.welcome = base.welcome
          BY <4>1, MergeType
        <4>2. CASE m.welcome # base.welcome
          <5>1. m.welcome
            BY <3>0, <4>2
          <5> QED BY <4>2, <5>1, MergeType
        <4> QED BY <4>1, <4>2
      <3> QED BY <2>0, <2>2, <3>1, MergeType, WriteClaims DEF ClaimInv
    <2> QED BY <1>8, <2>1, <2>2 DEF PatchStatus
  <1>9. CASE RemoveFinalizer
    <2>0. pc' = "idle" /\ cache' = cache
      BY <1>9 DEF RemoveFinalizer, Finish
    <2>1. Unfinalized(api) \in Manager /\ Unfinalized(api).welcome = api.welcome
      BY <1>0 DEF Manager, Unfinalized
    <2>2. CASE Write(Unfinalized(api))
      BY <2>0, <2>1, <2>2, WriteClaims DEF ClaimInv
    <2>3. CASE UNCHANGED <<api, watch>>
      BY <2>0, <2>3 DEF ClaimInv
    <2> QED BY <1>9, <2>2, <2>3 DEF RemoveFinalizer
  <1> QED BY <1>1, <1>2, <1>3, <1>4, <1>5, <1>6, <1>7, <1>8, <1>9 DEF Reconcile

\* What lets a reconcile send was there before, except that one begins with an
\* old copy.
LEMMA ReconcileMaySend ==
    ASSUME TypeOK, ClaimInv, Reconcile
    PROVE  MaySend' => MaySend \/ (Begin /\ api.welcome /\ ~cache.welcome)
  <1>0. api \in Manager /\ m \in Manager /\ (api.welcome => api'.welcome)
    BY ReconcileClaim DEF TypeOK
  <1>1. CASE Begin
    BY <1>0, <1>1 DEF MaySend, Begin
  <1>2. CASE AddFinalizer
    <2>1. pc = "finalizer" /\ pc' \in {"infra", "patch"} /\ (m' = api' \/ m' = m)
      BY <1>2 DEF AddFinalizer, Fail
    <2> QED BY <1>0, <2>1 DEF MaySend
  <1>3. CASE Infra
    <2>1. m'.welcome = m.welcome /\ pc = "infra" /\ pc' \in {"container", "patch"}
      BY <1>0, <1>3 DEF Infra, Manager
    <2> QED BY <1>0, <2>1 DEF MaySend
  <1>4. CASE Claim
    <2>1. pc = "claim" /\ ~m.welcome
      BY <1>4 DEF Claim, ClaimInv
    <2> QED BY <2>1 DEF MaySend
  <1>5. CASE \/ ReconcileContainer \/ KillContainer \/ StartContainer \/ CreateContainer
             \/ Cleanup \/ WelcomeGates \/ Send
    <2>1. Decision(Status(ctr)) # "send"
      BY DEF Decision
    <2>2. pc # "idle" /\ pc' # "send" /\ m' = m
      BY <1>5, <2>1 DEF ReconcileContainer, KillContainer, StartContainer, CreateContainer,
         Cleanup, WelcomeGates, Send, Goto, Fail
    <2> QED BY <1>0, <2>2 DEF MaySend
  <1>6. CASE PatchStatus \/ RemoveFinalizer
    <2>1. pc' = "idle"
      BY <1>6 DEF PatchStatus, RemoveFinalizer, Finish
    <2> QED BY <1>0, <2>1 DEF MaySend
  <1> QED BY <1>1, <1>2, <1>3, <1>4, <1>5, <1>6 DEF Reconcile

\* The count of a reconcile's message.
LEMMA ReconcileCount ==
    ASSUME TypeOK, ClaimInv, CountInv, Reconcile
    PROVE  CountInv'
  <1>0. sent \in 0 .. MaxSent /\ unseen \in 0 .. MaxSent /\ MaxSent \in Nat
    BY ManagerAssumption DEF TypeOK
  <1>1. CASE Begin
    <2>1. sent' = sent
      BY <1>1 DEF Begin
    <2>2. CASE api.welcome /\ ~cache.welcome
      <3>1. unseen' = Counted(unseen)
        BY <1>1, <2>2 DEF Begin
      <3>2. sent <= 1 + unseen
        BY DEF CountInv
      <3>3. sent' <= unseen'
        BY <1>0, <2>1, <3>1, <3>2 DEF Counted
      <3>4. sent' <= 1 + unseen'
        BY <1>0, <3>1, <3>3, <2>1 DEF Counted
      <3> QED BY <3>3, <3>4 DEF CountInv
    <2>3. CASE ~(api.welcome /\ ~cache.welcome)
      <3>1. unseen' = unseen
        BY <1>1, <2>3 DEF Begin
      <3>2. MaySend' => MaySend
        BY <1>1, <2>3, ReconcileMaySend
      <3> QED BY <2>1, <3>1, <3>2 DEF CountInv
    <2> QED BY <2>2, <2>3
  <1>2. CASE Send
    <2>1. unseen' = unseen /\ (sent' = Counted(sent) \/ sent' = sent)
      BY <1>2 DEF Send
    <2>2. sent <= unseen
      BY <1>2 DEF Send, CountInv, MaySend
    <2>3. sent' <= 1 + unseen'
      BY <1>0, <2>1, <2>2 DEF Counted
    <2>4. ~MaySend'
      <3>1. pc = "send" /\ pc' = "patch" /\ m' = m /\ api' = api
        BY <1>2 DEF Send, Goto, kube
      <3> QED BY <3>1 DEF MaySend, ClaimInv
    <2> QED BY <2>3, <2>4 DEF CountInv
  <1>3. CASE Reconcile /\ ~Begin /\ ~Send
    <2>1. UNCHANGED <<sent, unseen>>
      BY <1>3 DEF Reconcile, AddFinalizer, Infra, ReconcileContainer, KillContainer,
         StartContainer, CreateContainer, WelcomeGates, Claim, PatchStatus, Cleanup,
         RemoveFinalizer, outside
    <2>2. MaySend' => MaySend
      BY <1>3, ReconcileMaySend
    <2> QED BY <2>1, <2>2 DEF CountInv
  <1> QED BY <1>1, <1>2, <1>3

\* For any staleness of the cache, and whatever fails or is cut off, each
\* repetition of the prompt is due to a reconcile that began before its cache
\* showed the claim in status.welcomeSent (manager_reconcile_welcome.go).
THEOREM WelcomeRepeats == Spec => []RepeatsNeedUnseenClaim
  <1>1. Init => TypeOK /\ WelcomeInv
    BY InitType, InitWelcome
  <1>2. TypeOK /\ WelcomeInv /\ [Next]_vars => (TypeOK /\ WelcomeInv)'
    <2> SUFFICES ASSUME TypeOK, WelcomeInv, [Next]_vars PROVE TypeOK' /\ WelcomeInv'
      OBVIOUS
    <2>0. ClaimInv /\ CountInv
      BY DEF WelcomeInv
    <2>1. TypeOK'
      BY NextType
    <2>2. CASE UNCHANGED vars
      <3>1. ClaimInv' /\ CountInv'
        BY <2>0, <2>2 DEF ClaimInv, CountInv, MaySend, vars
      <3> QED BY <2>1, <3>1 DEF WelcomeInv
    <2>3. CASE Reconcile
      BY <2>0, <2>1, <2>3, ReconcileClaim, ReconcileCount DEF WelcomeInv
    <2>4. CASE Next /\ ~Reconcile
      <3>1. /\ ClaimInv' /\ UNCHANGED <<sent, unseen>> /\ (api.welcome => api'.welcome)
            /\ pc' = "idle" \/ UNCHANGED <<pc, m>>
        BY <2>0, <2>4, OthersClaim DEF Next
      <3>2. MaySend' => MaySend
        BY <3>1 DEF MaySend
      <3>3. CountInv'
        BY <2>0, <3>1, <3>2 DEF CountInv
      <3> QED BY <2>1, <3>1, <3>3 DEF WelcomeInv
    <2> QED BY <2>2, <2>3, <2>4
  <1>3. WelcomeInv => RepeatsNeedUnseenClaim
    BY DEF WelcomeInv, CountInv, RepeatsNeedUnseenClaim
  <1> QED BY <1>1, <1>2, <1>3, PTL DEF Spec
-----------------------------------------------------------------------------
(***************************************************************************)
(* What observedGeneration says about the container.  The cache may lag.   *)
(***************************************************************************)

\* Every version of the CR that somebody may still read.
Versions == watch \cup {cache, api}

\* Where the reconciler works on a CR that keeps its finalizer.
Working == {"infra", "container", "start", "kill", "create", "welcome", "claim", "send"}

\* What a later version may not take back from an earlier one.
Older(u, v) ==
    /\ u.gen <= v.gen /\ u.obs <= v.obs
    /\ u.gen = v.gen => u.state = v.state
    /\ u.deleting => v.deleting
    /\ u.fin /\ ~v.deleting => v.fin

\* The versions are ordered; those with the finalizer, from which a reconcile
\* may touch the container, are at least as new as what was observed.
VersionInv ==
    /\ \A v \in Versions : cache.rv <= v.rv /\ v.rv <= api.rv /\ v.obs <= v.gen
    /\ \A u, v \in Versions : u.rv <= v.rv => Older(u, v)
    /\ \A v \in Versions : v.fin => api.obs <= v.gen
    /\ api.exists /\ api.deleting => api.fin
    /\ api.exists /\ ~api.fin => api.obs = 0
    /\ ~api.exists => \A v \in Versions : v.fin => v.deleting

\* The working copy is no newer than the CR or than any copy still to be read,
\* and the finalizer is added to the version that was read.
CopyInv ==
    /\ pc \in Working \/ (pc = "patch" /\ ~err) => api.exists /\ api.fin /\ api.obs <= m.gen
    /\ pc \in {"cleanup", "unfinalize"} => cache.deleting
    /\ pc \in Working \cup {"finalizer", "patch"} =>
          /\ base.obs = m.obs /\ m.gen <= api.gen
          /\ m.gen = api.gen => m.state = api.state
          /\ \A v \in Versions : v.fin => m.gen <= v.gen
    /\ pc = "finalizer" =>
          m.rv <= api.rv /\ (m.rv = api.rv => ~api.fin /\ ~api.deleting /\ m.obs = api.obs)

\* After the container phase a container that is kept was built from the
\* working copy's generation, or that generation was observed before.
ContainerInv ==
    /\ pc = "create" => ~Kept(ctr)
    /\ pc = "start" => m.obs = m.gen
    /\ (pc \in {"welcome", "claim", "send"} \/ (pc = "patch" /\ ~err))
          /\ m.state = "Running" /\ Kept(ctr) => ctr.gen = m.gen \/ m.obs = m.gen

BuiltInv ==
    /\ ctr.gen <= api.gen
    /\ api.exists /\ ~api.fin => ctr = NoContainer
    /\ (api.exists /\ api.obs = api.gen /\ api.state = "Running" /\ Kept(ctr))
          => ctr.gen = api.gen

LagInv == TypeOK /\ VersionInv /\ CopyInv /\ ContainerInv /\ BuiltInv

\* What a write does to the versions.
Bumps ==
    /\ api' = api \/ api.rv < api'.rv
    /\ Versions' \subseteq Versions \cup {api'}

\* A step that neither adds the finalizer nor touches the observed generation;
\* a new state has a new generation.
Advances ==
    /\ Bumps
    /\ api'.exists => api.exists /\ (api.fin => api'.fin)
    /\ api'.fin => api.fin
    /\ api'.obs = api.obs /\ api.gen <= api'.gen
    /\ api.gen = api'.gen => api'.state = api.state

\* What every change of the container but its creation respects.
Survives ==
    /\ ctr'.gen <= ctr.gen
    /\ Kept(ctr') => Kept(ctr) /\ ctr'.gen = ctr.gen
    /\ ctr = NoContainer => ctr' = NoContainer

\* The numbers in a state.
LEMMA Numbers ==
    ASSUME TypeOK
    PROVE  /\ api.gen \in Nat /\ api.obs \in Nat /\ api.rv \in Nat
           /\ m.gen \in Nat /\ m.obs \in Nat /\ m.rv \in Nat /\ base.obs \in Nat
           /\ ctr.gen \in Nat
           /\ \A v \in Versions : v \in Manager /\ v.gen \in Nat /\ v.obs \in Nat /\ v.rv \in Nat
           /\ api \in Versions /\ cache \in Versions
  BY DEF TypeOK, Manager, Container, Versions

\* The numbers in the next one.
LEMMA NumbersNext ==
    ASSUME TypeOK'
    PROVE  /\ api'.gen \in Nat /\ api'.obs \in Nat /\ api'.rv \in Nat
           /\ m'.gen \in Nat /\ m'.obs \in Nat /\ m'.rv \in Nat /\ ctr'.gen \in Nat
           /\ \A v \in Versions' : v.gen \in Nat /\ v.obs \in Nat /\ v.rv \in Nat
           /\ api' \in Versions'
  BY DEF TypeOK, Manager, Container, Versions

\* A backend call keeps what a container was built from, or removes it.
LEMMA CallKeeps ==
    ASSUME NEW c \in Container, NEW d,
           d \in {c, NoContainer} \/ d = Delete(c) \/ d = Stop(c) \/ d = Start(c)
    PROVE  /\ d \in Container /\ d.gen <= c.gen
           /\ Kept(d) => Kept(c) /\ d.gen = c.gen
           /\ c = NoContainer => d = NoContainer
  <1>1. /\ NoContainer \in Container /\ NoContainer.gen = 0 /\ ~Kept(NoContainer)
        /\ Delete(NoContainer) = NoContainer /\ Stop(NoContainer) = NoContainer
        /\ Start(NoContainer) = NoContainer
    BY BackendKindAssumption
       DEF Container, NoContainer, RawStates, Delete, Stop, Start, Kept
  <1>2. /\ Delete(c) \in Container /\ Delete(c).gen \in {0, c.gen} /\ ~Kept(Delete(c))
        /\ Stop(c) \in Container /\ Stop(c).gen \in {0, c.gen}
        /\ Kept(Stop(c)) => Kept(c) /\ Stop(c).gen = c.gen
        /\ Start(c) \in Container /\ Start(c).gen = c.gen /\ (Kept(Start(c)) => Kept(c))
    BY DEF Container, NoContainer, RawStates, Delete, Stop, Start, Kept
  <1>3. c.gen \in Nat
    BY DEF Container
  <1>4. d.gen \in {0, c.gen}
    BY <1>1, <1>2
  <1>5. d.gen <= c.gen
    BY <1>3, <1>4
  <1> QED BY <1>1, <1>2, <1>5

\* The backend's calls respect Survives.
LEMMA CallsSurvive ==
    ASSUME TypeOK,
           \/ ctr' \in {ctr, NoContainer} \/ ctr' = Delete(ctr) \/ ctr' = Stop(ctr)
           \/ ctr' = Start(ctr) \/ ctr' = Delete(Stop(ctr))
    PROVE  Survives
  <1>1. ctr \in Container /\ ctr.gen \in Nat
    BY DEF TypeOK, Container
  <1>2. CASE ctr' = Delete(Stop(ctr))
    <2>1. /\ Stop(ctr) \in Container /\ Stop(ctr).gen <= ctr.gen
          /\ Kept(Stop(ctr)) => Kept(ctr) /\ Stop(ctr).gen = ctr.gen
          /\ ctr = NoContainer => Stop(ctr) = NoContainer
      BY <1>1, CallKeeps
    <2>2. /\ ctr' \in Container /\ ctr'.gen <= Stop(ctr).gen
          /\ Kept(ctr') => Kept(Stop(ctr)) /\ ctr'.gen = Stop(ctr).gen
          /\ Stop(ctr) = NoContainer => ctr' = NoContainer
      BY <1>2, <2>1, CallKeeps
    <2>3. ctr'.gen \in Nat /\ Stop(ctr).gen \in Nat
      BY <2>1, <2>2 DEF Container
    <2> QED BY <1>1, <2>1, <2>2, <2>3 DEF Survives
  <1> QED BY <1>1, <1>2, CallKeeps DEF Survives

\* An accepted write keeps every field but the resourceVersion.
LEMMA WriteEffect ==
    ASSUME TypeOK, NEW o \in Manager, Write(o), cache' = cache
    PROVE  /\ Bumps
           /\ api'.exists = o.exists /\ api'.fin = o.fin /\ api'.deleting = o.deleting
           /\ api'.obs = o.obs /\ api'.gen = o.gen /\ api'.state = o.state
           /\ o = api => api' = api
  <1>1. CASE o = api
    BY <1>1 DEF Write, Bumps, Versions
  <1>2. CASE o # api
    <2>1. api' = [o EXCEPT !.rv = api.rv + 1] /\ watch' = watch \cup {api'}
      BY <1>2 DEF Write
    <2>2. api'.rv = api.rv + 1 /\ api.rv \in Nat
      BY <2>1, Numbers DEF Manager
    <2>3. Versions' \subseteq Versions \cup {api'}
      BY <2>1 DEF Versions
    <2>4. Bumps
      BY <2>2, <2>3 DEF Bumps
    <2> QED BY <1>2, <2>1, <2>4 DEF Manager
  <1> QED BY <1>1, <1>2

LEMMA OlderTransitive ==
    ASSUME NEW u \in Manager, NEW v \in Manager, NEW x, Older(u, v), Older(v, x),
           x.gen \in Nat, x.obs \in Nat
    PROVE  Older(u, x)
  <1>1. u.gen \in Nat /\ v.gen \in Nat /\ u.obs \in Nat /\ v.obs \in Nat
    BY DEF Manager
  <1> QED BY <1>1 DEF Older

\* What a write must respect to keep the order of the versions.
LEMMA WriteVersions ==
    ASSUME TypeOK, TypeOK', VersionInv, Bumps, cache' = cache,
           Older(api, api'), api'.obs <= api'.gen,
           \A v \in Versions : v.fin => api'.obs <= v.gen,
           api'.exists /\ api'.deleting => api'.fin,
           api'.exists /\ ~api'.fin => api'.obs = 0,
           ~api'.exists => api'.deleting /\ \A v \in Versions : v.fin => v.deleting
    PROVE  VersionInv'
  <1>1. \A v \in Versions : Older(v, api')
    <2> SUFFICES ASSUME NEW v \in Versions PROVE Older(v, api')
      OBVIOUS
    <2>1. Older(v, api) /\ v \in Manager /\ api \in Manager
      BY Numbers DEF VersionInv, TypeOK
    <2> QED BY <2>1, OlderTransitive, NumbersNext
  <1>2. Older(api', api')
    BY NumbersNext DEF Older
  <1>3. api.rv <= api'.rv /\ (api' # api => api.rv < api'.rv)
    BY Numbers, NumbersNext DEF Bumps
  <1>4. \A v \in Versions : cache.rv <= v.rv /\ v.rv <= api'.rv /\ v.obs <= v.gen
    BY <1>3, Numbers, NumbersNext DEF VersionInv
  <1>5. (\A v \in Versions : cache.rv <= v.rv /\ v.rv <= api.rv /\ v.obs <= v.gen)'
    BY <1>3, <1>4, Numbers, NumbersNext DEF Bumps
  <1>6. (\A u, v \in Versions : u.rv <= v.rv => Older(u, v))'
    <2> SUFFICES ASSUME NEW u \in Versions', NEW v \in Versions', u.rv <= v.rv
                 PROVE  Older(u, v)
      BY DEF Older
    <2>1. CASE v = api'
      BY <1>1, <1>2, <2>1 DEF Bumps
    <2>2. CASE v \in Versions /\ u \in Versions
      BY <2>2 DEF VersionInv
    <2>3. CASE v \in Versions /\ u = api' /\ api' # api
      BY <1>3, <2>3, Numbers, NumbersNext DEF VersionInv
    <2> QED BY <2>1, <2>2, <2>3, Numbers DEF Bumps
  <1>7. (\A v \in Versions : v.fin => api.obs <= v.gen)'
    BY DEF Bumps
  <1>8. (~api.exists => \A v \in Versions : v.fin => v.deleting)'
    BY DEF Bumps
  <1> QED BY <1>5, <1>6, <1>7, <1>8 DEF VersionInv

\* A step that leaves the CR and its copies alone.
LEMMA SameVersions ==
    ASSUME TypeOK, VersionInv, UNCHANGED kube
    PROVE  VersionInv' /\ Advances /\ Versions' = Versions
  BY Numbers DEF VersionInv, Versions, Older, kube, Advances, Bumps

\* A delivery drops versions and never takes a deletion back.
LEMMA ReceiveVersions ==
    ASSUME TypeOK, VersionInv, Receive \/ Relist
    PROVE  /\ VersionInv' /\ Advances /\ api' = api
           /\ cache.deleting => cache'.deleting
  <1>1. CASE Receive
    <2>1. PICK v \in watch : cache' = v /\ watch' = {u \in watch : u.rv > v.rv} /\ api' = api
      BY <1>1 DEF Receive
    <2>2. Versions' \subseteq Versions /\ v \in Versions
      BY <2>1 DEF Versions
    <2>3. \A u \in Versions' : cache'.rv <= u.rv
      BY <2>1, <2>2, Numbers DEF Versions, VersionInv
    <2>4. cache.deleting => cache'.deleting
      BY <2>1, <2>2, Numbers DEF VersionInv, Older
    <2>5. Advances
      BY <2>1, <2>2, Numbers DEF Advances, Bumps
    <2> QED BY <2>1, <2>2, <2>3, <2>4, <2>5 DEF VersionInv, Older
  <1>2. CASE Relist
    <2>1. api' = api /\ cache' = api /\ Versions' = {api}
      BY <1>2 DEF Relist, Versions
    <2>2. Advances
      BY <2>1, Numbers DEF Advances, Bumps
    <2>3. cache.deleting => cache'.deleting
      BY <2>1, Numbers DEF VersionInv, Older
    <2> QED BY <2>1, <2>2, <2>3, Numbers DEF VersionInv, Older
  <1> QED BY <1>1, <1>2
\* A step that advances the CR keeps what is known of the container ...
LEMMA AdvanceBuilt ==
    ASSUME TypeOK, TypeOK', VersionInv, BuiltInv, Advances, Survives
    PROVE  BuiltInv'
  <1>1. ctr'.gen <= api'.gen
    BY Numbers, NumbersNext DEF BuiltInv, Advances, Survives
  <1>2. api.obs <= api.gen
    BY Numbers DEF VersionInv
  <1>3. api'.obs = api'.gen => api.obs = api.gen /\ api.gen = api'.gen
    BY <1>2, Numbers, NumbersNext DEF Advances
  <1> QED BY <1>1, <1>3 DEF BuiltInv, Advances, Survives

\* ... and of the reconcile in progress.
LEMMA AdvanceCopy ==
    ASSUME TypeOK, TypeOK', CopyInv, ContainerInv, Advances, Survives,
           cache.deleting => cache'.deleting,
           api.exists /\ api.fin => api'.exists,
           UNCHANGED <<pc, m, base, err>>
    PROVE  CopyInv' /\ ContainerInv'
  <1>1. ASSUME pc \in Working \cup {"finalizer", "patch"}
        PROVE  (/\ base.obs = m.obs /\ m.gen <= api.gen
                /\ m.gen = api.gen => m.state = api.state
                /\ \A v \in Versions : v.fin => m.gen <= v.gen)'
    BY <1>1, Numbers, NumbersNext DEF CopyInv, Advances, Bumps
  <1>2. pc = "finalizer" =>
          (m.rv <= api.rv /\ (m.rv = api.rv => ~api.fin /\ ~api.deleting /\ m.obs = api.obs))'
    BY Numbers, NumbersNext DEF CopyInv, Advances, Bumps
  <1>3. (pc \in Working \/ (pc = "patch" /\ ~err) => api.exists /\ api.fin /\ api.obs <= m.gen)'
    BY DEF CopyInv, Advances, Working
  <1>4. (pc \in {"cleanup", "unfinalize"} => cache.deleting)'
    BY DEF CopyInv
  <1>5. CopyInv'
    BY <1>1, <1>2, <1>3, <1>4 DEF CopyInv, Working
  <1>6. ContainerInv'
    BY DEF ContainerInv, Survives
  <1> QED BY <1>5, <1>6

\* The write of an object that keeps the finalizer and the observed generation.
LEMMA UserWrite ==
    ASSUME TypeOK, TypeOK', VersionInv, NEW o \in Manager, Write(o), cache' = cache,
           api.exists, o.exists \/ ~api.fin, o.fin = api.fin, o.obs = api.obs,
           api.deleting => o.deleting, o.exists = (o.fin \/ ~o.deleting),
           api.gen <= o.gen, api.gen = o.gen => o.state = api.state
    PROVE  VersionInv' /\ Advances
  <1>1. /\ Bumps /\ api'.exists = o.exists /\ api'.fin = o.fin /\ api'.deleting = o.deleting
        /\ api'.obs = o.obs /\ api'.gen = o.gen /\ api'.state = o.state
    BY WriteEffect
  <1>2. Older(api, api') /\ api'.obs <= api'.gen
    BY <1>1, Numbers, NumbersNext DEF Older, VersionInv
  <1>3. \A v \in Versions : v.fin => api'.obs <= v.gen
    BY <1>1 DEF VersionInv
  <1>4. ~api'.exists => api'.deleting /\ \A v \in Versions : v.fin => v.deleting
    <2> SUFFICES ASSUME ~api'.exists, NEW v \in Versions, v.fin
                 PROVE  api'.deleting /\ v.deleting
      BY <1>1 DEF Manager
    <2>1. ~api.fin /\ ~api.deleting
      BY <1>1, Numbers DEF VersionInv, Manager
    <2>2. Older(v, api)
      BY Numbers DEF VersionInv
    <2> QED BY <2>1, <2>2 DEF Older
  <1>5. Advances
    BY <1>1, Numbers, NumbersNext DEF Advances, Manager
  <1>6. (api.exists /\ api.deleting => api.fin)' /\ (api.exists /\ ~api.fin => api.obs = 0)'
    BY <1>1 DEF VersionInv, Manager
  <1> QED BY <1>2, <1>3, <1>4, <1>5, <1>6, <1>1, WriteVersions

\* Users, the watch, the room, the gateway and the container disturb nothing.
LEMMA OutsideLag ==
    ASSUME LagInv, TypeOK',
           \/ Deliver \/ Edit \/ DeleteCR \/ AgentJoins \/ KeyPropagates
           \/ PodStarts \/ PodGone \/ PodCollected \/ ContainerExits \/ UNCHANGED vars
    PROVE  LagInv'
  <1> USE DEF LagInv
  <1>0. api \in Manager /\ ctr \in Container /\ api.gen \in Nat
    BY DEF TypeOK, Manager
  <1>1. UNCHANGED <<pc, m, base, err>>
    BY DEF Deliver, Edit, DeleteCR, AgentJoins, KeyPropagates, PodStarts, PodGone,
           PodCollected, ContainerExits, vars
  <1>2. /\ VersionInv' /\ Advances
        /\ cache.deleting => cache'.deleting
        /\ api.exists /\ api.fin => api'.exists
    <2>1. CASE Deliver
      BY <2>1, ReceiveVersions DEF Deliver
    <2>2. CASE Edit
      <3>1. PICK s \in States : Write([api EXCEPT !.state = s, !.gen = @ + 1])
        BY <2>2 DEF Edit
      <3> DEFINE o == [api EXCEPT !.state = s, !.gen = @ + 1]
      <3>2. o \in Manager
        BY <1>0, EditType
      <3>3. /\ o.exists = api.exists /\ o.fin = api.fin /\ o.obs = api.obs
            /\ o.deleting = api.deleting /\ o.gen = api.gen + 1
        BY <1>0 DEF Manager
      <3>4. Write(o)
        BY <3>1
      <3>5. api.exists /\ ~api.deleting /\ cache' = cache
        BY <2>2 DEF Edit
      <3> HIDE DEF o
      <3>6. api.gen <= o.gen /\ api.gen # o.gen
        BY <1>0, <3>3
      <3>7. o.exists = (o.fin \/ ~o.deleting)
        BY <3>2, <3>3, <3>5 DEF Manager
      <3>8. VersionInv' /\ Advances
        BY <3>2, <3>3, <3>4, <3>5, <3>6, <3>7, UserWrite
      <3>9. api'.exists
        BY <3>2, <3>3, <3>4, <3>5, WriteEffect
      <3> QED BY <3>5, <3>8, <3>9
    <2>3. CASE DeleteCR
      <3> DEFINE o == Deleted(api)
      <3>1. /\ o \in Manager /\ o.exists = api.fin /\ o.fin = api.fin /\ o.obs = api.obs
            /\ o.deleting /\ o.gen = api.gen /\ o.state = api.state
        BY <1>0 DEF Deleted, Manager
      <3>2. Write(o) /\ api.exists /\ cache' = cache
        BY <2>3 DEF DeleteCR
      <3> HIDE DEF o
      <3>3. VersionInv' /\ Advances
        BY <1>0, <3>1, <3>2, UserWrite DEF Manager
      <3>4. api'.exists = api.fin
        BY <3>1, <3>2, WriteEffect
      <3> QED BY <3>2, <3>3, <3>4
    <2>4. CASE UNCHANGED kube
      BY <2>4, SameVersions DEF kube
    <2> QED
      BY <2>1, <2>2, <2>3, <2>4
         DEF AgentJoins, KeyPropagates, PodStarts, PodGone, PodCollected, ContainerExits, vars, kube
  <1>3. Survives
    <2>1. CASE PodStarts \/ ContainerExits
      <3>1. PICK st \in RawStates : ctr' = [ctr EXCEPT !.st = st] /\ ctr.st # "absent"
        BY <2>1 DEF PodStarts, ContainerExits, RawStates
      <3>2. ctr'.gen = ctr.gen /\ ctr.gen \in Nat /\ ctr'.term = ctr.term /\ ctr # NoContainer
        BY <1>0, <3>1 DEF Container, NoContainer
      <3> QED BY <3>1, <3>2 DEF Survives, Kept
    <2>2. CASE ~(PodStarts \/ ContainerExits)
      BY <2>2, CallsSurvive
         DEF Deliver, Edit, DeleteCR, AgentJoins, KeyPropagates, PodGone, PodCollected, vars
    <2> QED BY <2>1, <2>2
  <1> QED BY <1>1, <1>2, <1>3, AdvanceBuilt, AdvanceCopy

\* A step after which the reconciler holds no copy needs no more.
LEMMA IdleLag ==
    ASSUME LagInv, TypeOK', VersionInv', Advances, Survives, pc' = "idle"
    PROVE  LagInv'
  BY AdvanceBuilt DEF LagInv, CopyInv, ContainerInv, Working
\* r.Update adds the finalizer to the very version that was read, of which
\* nothing was observed and from which nothing was built.
LEMMA AddFinalizerLag ==
    ASSUME LagInv, TypeOK', AddFinalizer
    PROVE  LagInv'
  <1> USE DEF LagInv
  <1>0. /\ api \in Manager /\ api.fin \in BOOLEAN /\ api.deleting \in BOOLEAN
        /\ pc = "finalizer" /\ UNCHANGED <<cache, ctr>>
    BY DEF TypeOK, Manager, AddFinalizer
  <1>1. CASE /\ UpdateAccepted(m) /\ Write([api EXCEPT !.fin = TRUE])
             /\ m' = api' /\ pc' = "infra" /\ UNCHANGED <<base, err>>
    <2> DEFINE o == [api EXCEPT !.fin = TRUE]
    <2>1. api.exists /\ ~api.fin /\ ~api.deleting /\ m.obs = api.obs /\ base.obs = m.obs
      BY <1>0, <1>1 DEF UpdateAccepted, CopyInv
    <2>2. api.obs = 0 /\ ctr = NoContainer
      BY <2>1 DEF VersionInv, BuiltInv
    <2>3. /\ o \in Manager /\ o.exists = api.exists /\ o.fin /\ o.deleting = api.deleting
          /\ o.obs = api.obs /\ o.gen = api.gen /\ o.state = api.state /\ Write(o)
      BY <1>0, <1>1 DEF Manager
    <2> HIDE DEF o
    <2>4. /\ Bumps /\ api'.exists /\ api'.fin /\ ~api'.deleting
          /\ api'.obs = 0 /\ api'.gen = api.gen /\ api'.state = api.state
      BY <1>0, <2>1, <2>2, <2>3, WriteEffect
    <2>5. \A v \in Versions : ~v.fin
      BY <2>1, Numbers DEF VersionInv, Older
    <2>6. Older(api, api')
      BY <2>1, <2>2, <2>4, Numbers DEF Older
    <2>7. VersionInv'
      BY <1>0, <2>4, <2>5, <2>6, NumbersNext, WriteVersions
    <2>8. CopyInv'
      <3>1. \A v \in Versions' : v.fin => v = api'
        BY <2>4, <2>5 DEF Bumps
      <3> QED BY <1>1, <2>1, <2>2, <2>4, <3>1, NumbersNext DEF CopyInv, Working
    <2>9. ContainerInv' /\ BuiltInv'
      <3>1. ctr' = NoContainer /\ ~Kept(ctr') /\ ctr'.gen = 0
        BY <1>0, <2>2 DEF NoContainer, Kept
      <3> QED BY <1>1, <2>4, <3>1, NumbersNext DEF ContainerInv, BuiltInv
    <2> QED BY <2>7, <2>8, <2>9
  <1>2. CASE Fail /\ UNCHANGED <<api, watch>>
    <2>1. VersionInv' /\ Advances /\ Versions' = Versions /\ api' = api
      BY <1>0, <1>2, SameVersions DEF kube
    <2>2. pc' = "patch" /\ err' /\ UNCHANGED <<m, base>>
      BY <1>2 DEF Fail
    <2>3. Survives
      BY <1>0, CallsSurvive
    <2> QED BY <1>0, <2>1, <2>2, <2>3, AdvanceBuilt DEF CopyInv, ContainerInv, Working
  <1> QED BY <1>1, <1>2 DEF AddFinalizer

\* The claim touches nothing that the container depends on.
LEMMA ClaimLag ==
    ASSUME LagInv, TypeOK', Claim
    PROVE  LagInv'
  <1> USE DEF LagInv
  <1>0. /\ api \in Manager /\ m \in Manager /\ pc = "claim" /\ UNCHANGED <<cache, ctr, base, err>>
        /\ api.exists /\ api.fin
    BY DEF TypeOK, Claim, Goto, CopyInv, Working
  <1>1. pc' \in {"send", "patch"}
    BY DEF Claim, Goto
  <1>2. m'.gen = m.gen /\ m'.obs = m.obs /\ m'.state = m.state
    BY <1>0 DEF Claim, Goto, Manager
  <1>3. VersionInv' /\ Advances /\ api'.exists
    <2>1. CASE UNCHANGED <<api, watch>>
      BY <1>0, <2>1, SameVersions DEF kube
    <2>2. CASE Write([api EXCEPT !.welcome = TRUE])
      <3> DEFINE o == [api EXCEPT !.welcome = TRUE]
      <3>1. /\ o \in Manager /\ o.exists = api.exists /\ o.fin = api.fin
            /\ o.deleting = api.deleting /\ o.obs = api.obs /\ o.gen = api.gen
            /\ o.state = api.state /\ Write(o)
        BY <1>0, <2>2 DEF Manager
      <3> HIDE DEF o
      <3>2. o.exists = (o.fin \/ ~o.deleting) /\ (o.exists \/ ~api.fin)
        BY <1>0, <3>1 DEF Manager
      <3>3. api.gen <= o.gen
        BY <3>1, Numbers
      <3>4. VersionInv' /\ Advances
        BY <1>0, <3>1, <3>2, <3>3, UserWrite
      <3> QED BY <1>0, <3>1, <3>4, WriteEffect
    <2> QED BY <2>1, <2>2 DEF Claim
  <1>4. Survives
    BY <1>0, CallsSurvive
  <1>5. CopyInv'
    <2>1. (/\ base.obs = m.obs /\ m.gen <= api.gen
           /\ m.gen = api.gen => m.state = api.state
           /\ \A v \in Versions : v.fin => m.gen <= v.gen)'
      BY <1>0, <1>2, <1>3, Numbers, NumbersNext DEF CopyInv, Advances, Bumps, Working
    <2>2. api'.exists /\ api'.fin /\ api'.obs <= m'.gen
      BY <1>0, <1>2, <1>3 DEF CopyInv, Advances, Working
    <2> QED BY <1>1, <2>1, <2>2 DEF CopyInv
  <1>6. ContainerInv'
    BY <1>0, <1>1, <1>2 DEF ContainerInv
  <1> QED BY <1>3, <1>4, <1>5, <1>6, AdvanceBuilt

\* What the deferred patch writes.
LEMMA MergeFields ==
    ASSUME TypeOK, base.obs = m.obs
    PROVE  LET o == Merge(api, base, FinalStatus)
           IN  /\ o.exists = api.exists /\ o.fin = api.fin /\ o.deleting = api.deleting
               /\ o.gen = api.gen /\ o.state = api.state
               /\ o.obs = IF ~err /\ m.gen # m.obs THEN m.gen ELSE api.obs
  <1>1. FinalStatus.obs = IF err THEN m.obs ELSE m.gen
    BY DEF TypeOK, Manager, FinalStatus
  <1> QED BY <1>1 DEF TypeOK, Manager, Merge, Merged

\* The deferred patch observes a generation no older than the one observed,
\* and only for a container built from it.
LEMMA PatchLag ==
    ASSUME LagInv, TypeOK', PatchStatus
    PROVE  LagInv'
  <1> USE DEF LagInv
  <1>1. /\ pc = "patch" /\ pc' = "idle" /\ UNCHANGED <<cache, ctr>> /\ base.obs = m.obs
        /\ m.gen <= api.gen /\ (m.gen = api.gen => m.state = api.state)
        /\ \A v \in Versions : v.fin => m.gen <= v.gen
        /\ ~err => api.exists /\ api.fin /\ api.obs <= m.gen
    BY DEF PatchStatus, Finish, CopyInv
  <1>2. Survives
    BY <1>1, CallsSurvive
  <1>3. CASE UNCHANGED <<api, watch>>
    BY <1>1, <1>2, <1>3, SameVersions, IdleLag DEF kube
  <1>4. CASE api.exists /\ Write(Merge(api, base, FinalStatus))
    <2> DEFINE o == Merge(api, base, FinalStatus)
    <2>1. /\ o \in Manager /\ o.exists = api.exists /\ o.fin = api.fin /\ o.deleting = api.deleting
          /\ o.gen = api.gen /\ o.state = api.state
          /\ o.obs = IF ~err /\ m.gen # m.obs THEN m.gen ELSE api.obs
      BY <1>1, MergeType, MergeFields
    <2>2. Write(o)
      BY <1>4
    <2> HIDE DEF o
    <2>3. /\ Bumps /\ api'.exists = api.exists /\ api'.fin = api.fin /\ api'.deleting = api.deleting
          /\ api'.gen = api.gen /\ api'.state = api.state /\ api'.obs = o.obs
      BY <1>1, <2>1, <2>2, WriteEffect
    <2>4. CASE o.obs = api.obs
      <3>1. Older(api, api')
        BY <2>3, <2>4, Numbers DEF Older
      <3>2. Advances
        BY <2>3, <2>4, Numbers DEF Advances
      <3>3. VersionInv'
        BY <1>1, <1>4, <2>3, <2>4, <3>1, Numbers, WriteVersions DEF VersionInv
      <3> QED BY <1>1, <1>2, <3>2, <3>3, IdleLag
    <2>5. CASE o.obs # api.obs
      <3>1. ~err /\ m.gen # m.obs /\ api'.obs = m.gen
        BY <2>1, <2>3, <2>5
      <3>2. Older(api, api')
        BY <1>1, <2>3, <3>1, Numbers DEF Older
      <3>3. VersionInv'
        BY <1>1, <1>4, <2>3, <3>1, <3>2, Numbers, WriteVersions DEF VersionInv
      <3>4. BuiltInv'
        <4>1. ctr'.gen <= api'.gen /\ ~(api'.exists /\ ~api'.fin)
          BY <1>1, <2>3, <3>1 DEF BuiltInv
        <4>2. ASSUME api'.obs = api'.gen, api'.state = "Running", Kept(ctr')
              PROVE  ctr'.gen = api'.gen
          <5>1. m.gen = api.gen /\ m.state = "Running" /\ Kept(ctr)
            BY <1>1, <2>3, <3>1, <4>2
          <5>2. ctr.gen = m.gen
            BY <1>1, <3>1, <5>1 DEF ContainerInv
          <5> QED BY <1>1, <2>3, <5>1, <5>2
        <4> QED BY <4>1, <4>2 DEF BuiltInv
      <3> QED BY <1>1, <3>3, <3>4 DEF CopyInv, ContainerInv, Working
    <2> QED BY <2>4, <2>5
  <1> QED BY <1>3, <1>4 DEF PatchStatus, PatchAccepted

\* The finalizer goes only with a CR that the cache, too, shows as being
\* deleted.
LEMMA RemoveFinalizerLag ==
    ASSUME LagInv, TypeOK', RemoveFinalizer
    PROVE  LagInv'
  <1> USE DEF LagInv
  <1>1. /\ api \in Manager /\ pc = "unfinalize" /\ pc' = "idle" /\ UNCHANGED <<cache, ctr>>
        /\ cache.deleting
    BY DEF TypeOK, RemoveFinalizer, Finish, CopyInv
  <1>2. Survives
    BY <1>1, CallsSurvive
  <1>3. \A v \in Versions : v.deleting
    BY <1>1, Numbers DEF VersionInv, Older
  <1>4. CASE UNCHANGED <<api, watch>>
    BY <1>1, <1>2, <1>4, SameVersions, IdleLag DEF kube
  <1>5. CASE Write(Unfinalized(api))
    <2> DEFINE o == Unfinalized(api)
    <2>1. /\ o \in Manager /\ ~o.exists /\ ~o.fin /\ o.deleting = api.deleting
          /\ o.gen = api.gen /\ o.state = api.state /\ o.obs = api.obs /\ Write(o)
      BY <1>1, <1>3, <1>5, Numbers DEF Unfinalized, Manager
    <2> HIDE DEF o
    <2>2. /\ Bumps /\ ~api'.exists /\ ~api'.fin /\ api'.deleting
          /\ api'.gen = api.gen /\ api'.state = api.state /\ api'.obs = api.obs
      BY <1>1, <1>3, <2>1, Numbers, WriteEffect
    <2>3. Advances /\ Older(api, api')
      BY <1>3, <2>2, Numbers DEF Advances, Older
    <2>4. VersionInv'
      BY <1>1, <1>3, <2>2, <2>3, Numbers, WriteVersions DEF VersionInv
    <2> QED BY <1>1, <1>2, <2>3, <2>4, IdleLag
  <1> QED BY <1>4, <1>5 DEF RemoveFinalizer
\* A reconcile starts from a version that may be old, but not older than what
\* was observed if it may touch the container.
LEMMA BeginLag ==
    ASSUME LagInv, TypeOK', Begin
    PROVE  LagInv'
  <1> USE DEF LagInv
  <1>0. /\ UNCHANGED <<api, cache, watch, ctr>> /\ m' = cache /\ base' = cache /\ ~err'
        /\ cache \in Manager /\ cache.exists
    BY DEF Begin, kube, TypeOK
  <1>1. VersionInv' /\ Advances /\ Versions' = Versions
    BY <1>0, SameVersions DEF kube
  <1>2. BuiltInv'
    BY <1>0, <1>1, CallsSurvive, AdvanceBuilt
  <1>3. \/ pc' = "cleanup" /\ cache.deleting
        \/ pc' = "infra" /\ cache.fin /\ ~cache.deleting
        \/ pc' = "finalizer" /\ ~cache.fin /\ ~cache.deleting
    BY DEF Begin
  <1>4. /\ Older(cache, api) /\ cache.rv <= api.rv
        /\ cache.fin => api.obs <= cache.gen
        /\ \A v \in Versions : cache.gen <= v.gen
    BY Numbers DEF VersionInv, Older
  <1>5. cache.rv = api.rv => Older(api, cache)
    BY Numbers DEF VersionInv
  <1>6. cache.fin /\ ~cache.deleting => api.exists /\ api.fin
    BY <1>4, Numbers DEF VersionInv, Older
  <1>7. cache.rv = api.rv => (~cache.fin /\ ~cache.deleting => ~api.fin /\ ~api.deleting)
                             /\ cache.obs = api.obs
    BY <1>4, <1>5, Numbers DEF Older
  <1>8. CopyInv'
    <2>1. (/\ base.obs = m.obs /\ m.gen <= api.gen
           /\ m.gen = api.gen => m.state = api.state
           /\ \A v \in Versions : v.fin => m.gen <= v.gen)'
      BY <1>0, <1>1, <1>4 DEF Older
    <2>2. pc' = "infra" => (api.exists /\ api.fin /\ api.obs <= m.gen)'
      BY <1>0, <1>3, <1>4, <1>6
    <2>3. pc' = "finalizer" =>
            (m.rv <= api.rv /\ (m.rv = api.rv => ~api.fin /\ ~api.deleting /\ m.obs = api.obs))'
      BY <1>0, <1>3, <1>4, <1>7
    <2>4. pc' = "cleanup" => cache'.deleting
      BY <1>0, <1>3
    <2> QED BY <1>3, <2>1, <2>2, <2>3, <2>4 DEF CopyInv, Working
  <1>9. ContainerInv'
    BY <1>3 DEF ContainerInv
  <1> QED BY <1>1, <1>2, <1>8, <1>9

\* A phase that keeps what matters of the copy: the container is what changes.
LEMMA PhaseCopy ==
    ASSUME LagInv, UNCHANGED <<kube, base>>, pc \in Working, pc' \in Working \cup {"patch"},
           m'.gen = m.gen, m'.obs = m.obs, m'.state = m.state
    PROVE  CopyInv' /\ VersionInv' /\ Advances
  <1>1. UNCHANGED <<api, cache, watch>>
    BY DEF kube
  <1>2. VersionInv' /\ Advances /\ Versions' = Versions
    BY SameVersions DEF LagInv
  <1> QED BY <1>1, <1>2 DEF LagInv, CopyInv, Working

\* The phases before and after the container.
LEMMA PhaseLag ==
    ASSUME LagInv, TypeOK', Infra \/ WelcomeGates \/ Send \/ Cleanup
    PROVE  LagInv'
  <1> USE DEF LagInv
  <1>1. CASE Infra
    <2>1. /\ pc = "infra" /\ pc' \in {"container", "patch"} /\ (pc' = "patch" => err')
          /\ UNCHANGED <<kube, base, ctr>>
      BY <1>1 DEF Infra
    <2>2. m'.gen = m.gen /\ m'.obs = m.obs /\ m'.state = m.state
      BY <1>1 DEF Infra, TypeOK, Manager
    <2>3. CopyInv' /\ VersionInv' /\ Advances
      BY <2>1, <2>2, PhaseCopy DEF Working
    <2>4. ContainerInv'
      BY <2>1 DEF ContainerInv
    <2> QED BY <2>1, <2>3, <2>4, CallsSurvive, AdvanceBuilt
  <1>2. CASE WelcomeGates \/ Send
    <2>1. /\ pc \in {"welcome", "send"} /\ pc' \in {"claim", "patch"}
          /\ UNCHANGED <<kube, m, base, err, ctr>>
      BY <1>2 DEF WelcomeGates, Send, Goto
    <2>2. CopyInv' /\ VersionInv' /\ Advances
      BY <2>1, PhaseCopy DEF Working
    <2>3. ContainerInv'
      BY <2>1 DEF ContainerInv
    <2> QED BY <2>1, <2>2, <2>3, CallsSurvive, AdvanceBuilt
  <1>3. CASE Cleanup
    <2>1. pc = "cleanup" /\ pc' = "unfinalize" /\ UNCHANGED kube
      BY <1>3 DEF Cleanup, Goto
    <2>2. Survives
      BY <1>3, CallsSurvive DEF Cleanup
    <2>3. VersionInv' /\ Advances /\ cache' = cache
      BY <2>1, SameVersions DEF kube
    <2>4. CopyInv' /\ ContainerInv'
      BY <2>1, <2>3 DEF CopyInv, ContainerInv, Working
    <2> QED BY <2>2, <2>3, <2>4, AdvanceBuilt
  <1> QED BY <1>1, <1>2, <1>3

\* The calls that stop, delete or start the container.
LEMMA CallLag ==
    ASSUME "detect" \notin Faults, LagInv, TypeOK',
           ReconcileContainer \/ KillContainer \/ StartContainer
    PROVE  LagInv'
  <1> USE DEF LagInv
  <1>0. /\ UNCHANGED <<kube, m, base>> /\ pc \in Working /\ ctr \in Container
        /\ m.obs \in Nat /\ m.gen \in Nat
    BY DEF ReconcileContainer, KillContainer, StartContainer, Goto, Fail, Working,
           TypeOK, Manager
  <1>1. Survives
    BY CallsSurvive DEF ReconcileContainer, KillContainer, StartContainer
  <1>2. pc' \in Working \cup {"patch"} /\ ContainerInv'
    <2>1. CASE ReconcileContainer
      <3>1. /\ Decision(Status(ctr)) \in {"welcome", "kill", "start", "create"}
            /\ Decision(Status(ctr)) \in {"welcome", "start"} => m.obs = m.gen
            /\ Decision(Status(ctr)) = "create" => ~Kept(ctr)
        BY <1>0 DEF Decision, Status, Kept, Container, RawStates, SpecChanged
      <3>2. \/ pc' = Decision(Status(ctr)) /\ ctr' = ctr
            \/ pc' = "welcome" /\ m.state # "Running"
            \/ pc' = "patch" /\ err'
        BY <2>1 DEF ReconcileContainer, Goto, Fail, Fault
      <3> QED BY <1>0, <3>1, <3>2 DEF ContainerInv, Working
    <2>2. CASE KillContainer
      <3>1. ~Kept(Delete(ctr))
        BY <1>0 DEF Delete, Kept, NoContainer, Container
      <3> QED BY <2>2, <3>1 DEF KillContainer, Goto, Fail, ContainerInv, Working
    <2>3. CASE StartContainer
      <3>1. m.obs = m.gen
        BY <2>3 DEF StartContainer, ContainerInv
      <3> QED BY <1>0, <2>3, <3>1 DEF StartContainer, Goto, Fail, ContainerInv, Working
    <2> QED BY <2>1, <2>2, <2>3
  <1>3. CopyInv' /\ VersionInv' /\ Advances
    BY <1>0, <1>2, PhaseCopy
  <1> QED BY <1>1, <1>2, <1>3, AdvanceBuilt

\* What a create call leaves: the new container, nothing, or what was there.
LEMMA CreateOutcomes ==
    ASSUME NEW c \in Container, NEW n \in Container, NEW o \in Create(c, n) \cup CreateFailure(c, n)
    PROVE  o.ctr = c \/ o.ctr = NoContainer \/ o.ctr.gen = n.gen
  <1>1. [n EXCEPT !.st = "running"].gen = n.gen /\ [n EXCEPT !.st = "created"].gen = n.gen
    BY DEF Container
  <1>2. o.ctr \in {c, NoContainer, [n EXCEPT !.st = "running"], [n EXCEPT !.st = "created"]}
    BY DEF Create, CreateFailure
  <1> QED BY <1>1, <1>2

\* A container is created only where none is kept, from the working copy.
LEMMA CreateLag ==
    ASSUME LagInv, TypeOK', CreateContainer
    PROVE  LagInv'
  <1> USE DEF LagInv
  <1>1. /\ pc = "create" /\ pc' \in {"welcome", "patch"} /\ UNCHANGED <<kube, m, base>>
        /\ ~Kept(ctr) /\ ctr \in Container
    BY DEF CreateContainer, Goto, Fail, ContainerInv, TypeOK
  <1>2. Requested \in Container /\ Requested.gen = m.gen
    BY CopyTypes DEF Requested
  <1>3. ctr' = ctr \/ ctr' = NoContainer \/ ctr'.gen = m.gen
    BY <1>1, <1>2, CreateOutcomes DEF CreateContainer
  <1>4. CopyInv' /\ VersionInv' /\ Advances
    BY <1>1, PhaseCopy DEF Working
  <1>5. api.exists /\ api.fin /\ api.obs <= m.gen /\ m.gen <= api.gen /\ UNCHANGED api
    BY <1>1 DEF CopyInv, Working, kube
  <1>6. ContainerInv'
    BY <1>1, <1>3 DEF ContainerInv, NoContainer, Kept
  <1>7. BuiltInv'
    <2>1. CASE ctr' = ctr \/ ctr' = NoContainer
      BY <1>4, <2>1, CallsSurvive, AdvanceBuilt
    <2>2. CASE ctr'.gen = m.gen
      <3>1. api.obs = api.gen => m.gen = api.gen
        BY <1>5, Numbers
      <3> QED BY <1>5, <2>2, <3>1 DEF BuiltInv
    <2> QED BY <1>3, <2>1, <2>2
  <1> QED BY <1>4, <1>6, <1>7

\* When the CR reports its generation as observed, the container that is up was
\* built from it: for every interleaving of edits, stale reads, restarts and
\* failures, as long as a backend is always found (reconcileManagerContainer
\* with manager_controller.go's deferred status patch).
THEOREM ObservedIsBuilt ==
    ASSUME "detect" \notin Faults
    PROVE  Spec => []ObservedMeansCurrent
  <1>1. Init => LagInv
    <2> SUFFICES ASSUME Init PROVE LagInv
      OBVIOUS
    <2>1. TypeOK
      BY InitType
    <2>2. PICK s \in States : api = NewManager(s)
      BY DEF Init
    <2>3. api.obs = 0 /\ api.gen = 1 /\ ~api.fin /\ api.rv = 1 /\ api.exists /\ ~api.deleting
      BY <2>2 DEF NewManager
    <2>4. Versions = {api} /\ ctr = NoContainer /\ ctr.gen = 0 /\ pc = "idle"
      BY DEF Init, Versions, NoContainer
    <2>5. Older(api, api)
      BY <2>3 DEF Older
    <2>6. \A v \in Versions : v = api
      BY <2>4
    <2>7. cache = api
      BY DEF Init
    <2>8. VersionInv
      BY <2>3, <2>5, <2>6, <2>7 DEF VersionInv
    <2>9. BuiltInv
      BY <2>3, <2>4 DEF BuiltInv
    <2> QED BY <2>1, <2>4, <2>8, <2>9 DEF LagInv, CopyInv, ContainerInv, Working
  <1>2. LagInv /\ [Next]_vars => LagInv'
    <2> SUFFICES ASSUME LagInv, [Next]_vars PROVE LagInv'
      OBVIOUS
    <2>0. TypeOK'
      BY NextType DEF LagInv
    <2>1. CASE Reconcile
      BY <2>0, <2>1, BeginLag, AddFinalizerLag, PhaseLag, CallLag, CreateLag, ClaimLag,
         PatchLag, RemoveFinalizerLag DEF Reconcile
    <2>2. CASE Crash
      <3>1. VersionInv' /\ Advances /\ pc' = "idle" /\ ctr' = ctr
        BY <2>2, ReceiveVersions DEF LagInv, Crash, Finish
      <3> QED BY <2>0, <3>1, CallsSurvive, IdleLag DEF LagInv
    <2> QED BY <2>0, <2>1, <2>2, OutsideLag DEF Next
  <1>3. LagInv => ObservedMeansCurrent
    BY DEF LagInv, BuiltInv, ObservedMeansCurrent, Live
  <1> QED BY <1>1, <1>2, <1>3, PTL DEF Spec
=============================================================================
