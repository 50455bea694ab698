----------------------------- MODULE TeamProofs -----------------------------
(***************************************************************************)
(* Proofs about TeamController, for every set of members and environments  *)
(* and every bound on versions, edits and failures.                        *)
(***************************************************************************)
EXTENDS TeamController, TLAPS

-----------------------------------------------------------------------------
(***************************************************************************)
(* Types.                                                                  *)
(***************************************************************************)
LEMMA ContainerTypes ==
    ASSUME NEW c \in Container
    PROVE  NoContainer \in Container /\ Delete(c) \in Container /\ Start(c) \in Container
  BY DEF Container, NoContainer, RawStates, Delete, Start

LEMMA CreateTypes ==
    ASSUME NEW c \in Container, NEW n \in Container,
           NEW o \in Create(c, n) \cup CreateFailure(c, n)
    PROVE  o.ctr \in Container
  <1>1. /\ [n EXCEPT !.st = "running"] \in Container
        /\ [n EXCEPT !.st = "created"] \in Container
        /\ NoContainer \in Container
    BY DEF Container, NoContainer, RawStates
  <1>2. o.ctr \in {c, NoContainer, [n EXCEPT !.st = "running"], [n EXCEPT !.st = "created"]}
    BY DEF Create, CreateFailure
  <1> QED BY <1>1, <1>2

LEMMA FaultType ==
    ASSUME NEW k, Fault(k), faults \in 0 .. MaxFaults
    PROVE  faults' \in 0 .. MaxFaults /\ k \in env.faults
  BY TeamAssumption DEF Fault

\* What a write of o does: o is stored with a new resourceVersion, and sent.
LEMMA WriteEffect ==
    ASSUME api \in Team, watch \subseteq Team, NEW o \in Team, Write(o)
    PROVE  /\ api' \in Team /\ watch' \subseteq Team
           /\ api'.exists = o.exists /\ api'.fin = o.fin /\ api'.deleting = o.deleting
           /\ api'.gen = o.gen /\ api'.ver = o.ver /\ api'.members = o.members
           /\ \/ UNCHANGED <<api, watch>>
              \/ api'.rv = api.rv + 1 /\ watch' = watch \cup {api'}
  <1> DEFINE p == [o EXCEPT !.rv = api.rv + 1]
  <1>0. api.rv + 1 \in Nat
    BY DEF Team
  <1>1. /\ p \in Team /\ p.rv = api.rv + 1 /\ p.exists = o.exists /\ p.fin = o.fin /\ p.deleting = o.deleting
        /\ p.gen = o.gen /\ p.ver = o.ver /\ p.members = o.members
    BY <1>0 DEF Team
  <1>2. CASE o = api
    BY <1>2 DEF Write
  <1>3. CASE o # api
    <2>1. api' = p /\ watch' = watch \cup {api'}
      BY <1>3 DEF Write
    <2> QED BY <1>1, <2>1
  <1> QED BY <1>2, <1>3

LEMMA NewTypes ==
    /\ \A v \in [Names -> 0 .. MaxVer] :
          /\ NewTeam(v) \in Team
          /\ NewTeam(v).exists /\ ~NewTeam(v).fin /\ ~NewTeam(v).deleting
          /\ NewTeam(v).gen = 1 /\ NewTeam(v).ver = v
          /\ \A m \in Names : NewTeam(v).members[m] = NoMember
    /\ Nil \in Team /\ Desired(Nil) = {}
  <1>1. NoMember \in MemberStatus
    BY TeamAssumption DEF NoMember, MemberStatus
  <1>2. [m \in Names |-> NoMember] \in [Names -> MemberStatus]
    BY <1>1
  <1>3. ASSUME NEW v \in [Names -> 0 .. MaxVer]
        PROVE  /\ NewTeam(v) \in Team
               /\ NewTeam(v).exists /\ ~NewTeam(v).fin /\ ~NewTeam(v).deleting
               /\ NewTeam(v).gen = 1 /\ NewTeam(v).ver = v
               /\ \A m \in Names : NewTeam(v).members[m] = NoMember
    BY <1>2 DEF NewTeam, Team, Phases
  <1>4. [m \in Names |-> 0] \in [Names -> 0 .. MaxVer]
    BY TeamAssumption
  <1>5. Nil \in Team /\ Nil.ver = [m \in Names |-> 0]
    BY <1>3, <1>4 DEF Nil, Team, NewTeam
  <1>6. Desired(Nil) = {}
    BY <1>5 DEF Desired
  <1> QED BY <1>3, <1>5, <1>6

LEMMA InitType == Init => TypeOK
  <1> SUFFICES ASSUME Init PROVE TypeOK
    OBVIOUS
  <1>1. PICK ms \in SUBSET (Names \ {Leader}) :
            api = NewTeam([m \in Names |-> IF m = Leader \/ m \in ms THEN 1 ELSE 0])
    BY DEF Init
  <1>2. [m \in Names |-> IF m = Leader \/ m \in ms THEN 1 ELSE 0] \in [Names -> 0 .. MaxVer]
    BY TeamAssumption
  <1>3. api \in Team
    BY <1>1, <1>2, NewTypes
  <1>4. NoContainer \in Container
    BY DEF NoContainer, Container, RawStates
  <1> QED BY <1>3, <1>4, NewTypes, TeamAssumption DEF Init, TypeOK, PCs

\* What users write into the CR.
LEMMA UserTypes ==
    ASSUME api \in Team
    PROVE  /\ \A m \in Names, v \in 0 .. MaxVer :
                [api EXCEPT !.ver[m] = v, !.gen = @ + 1] \in Team
           /\ Deleted(api) \in Team
  <1>1. ASSUME NEW m \in Names, NEW v \in 0 .. MaxVer
        PROVE  [api EXCEPT !.ver[m] = v, !.gen = @ + 1] \in Team
    <2>1. [api.ver EXCEPT ![m] = v] \in [Names -> 0 .. MaxVer] /\ api.gen + 1 \in Nat
      BY DEF Team
    <2>2. [api EXCEPT !.ver[m] = v, !.gen = @ + 1]
            = [api EXCEPT !.ver = [api.ver EXCEPT ![m] = v], !.gen = api.gen + 1]
      BY DEF Team
    <2> QED BY <2>1, <2>2 DEF Team
  <1>2. Deleted(api) \in Team
    BY DEF Team, Deleted
  <1> QED BY <1>1, <1>2

\* What the reconciler writes into its copy and into the CR.
LEMMA CopyTypes ==
    ASSUME TypeOK
    PROVE  /\ [api EXCEPT !.fin = TRUE] \in Team
           /\ [api EXCEPT !.phase = "Pending"] \in Team
           /\ [w EXCEPT !.phase = "Failed"] \in Team
           /\ Unfinalized(api) \in Team
           /\ Merge(api, base, w) \in Team
  <1>1. api \in Team /\ w \in Team
    BY DEF TypeOK
  <1>2. "Pending" \in Phases /\ "Failed" \in Phases
    BY DEF Phases
  <1>3. /\ Merged(api.members, base.members, w.members) \in [Names -> MemberStatus]
        /\ Merged(api.phase, base.phase, w.phase) \in Phases
    BY <1>1 DEF Merged, Team
  <1> QED BY <1>1, <1>2, <1>3 DEF Team, Unfinalized, Merge

\* A copy in which only the status of member m may differ.
Touches(u, v, m) ==
    /\ v \in Team /\ v.gen = u.gen /\ v.ver = u.ver
    /\ \A n \in Names \ {m} : v.members[n] = u.members[n]

LEMMA TouchEffect ==
    ASSUME NEW u \in Team, NEW m \in Names, NEW s \in MemberStatus
    PROVE  /\ Touches(u, [u EXCEPT !.members = [u.members EXCEPT ![m] = s]], m)
           /\ [u EXCEPT !.members = [u.members EXCEPT ![m] = s]].members[m] = s
  <1>1. [u.members EXCEPT ![m] = s] \in [Names -> MemberStatus]
    BY DEF Team
  <1> QED BY <1>1 DEF Touches, Team

\* The three fields a pass sets in a member's entry.
LEMMA ListedEffect ==
    ASSUME NEW u \in Team, NEW m \in Names
    PROVE  LET v == [u EXCEPT !.members[m].listed = TRUE] IN
           /\ Touches(u, v, m) /\ v.members[m].listed
           /\ v.members[m].hash = u.members[m].hash
  <1> DEFINE s == [u.members[m] EXCEPT !.listed = TRUE]
             v == [u EXCEPT !.members[m].listed = TRUE]
  <1>1. s \in MemberStatus /\ s.listed /\ s.hash = u.members[m].hash
    BY DEF Team, MemberStatus
  <1>2. v = [u EXCEPT !.members = [u.members EXCEPT ![m] = s]]
    OBVIOUS
  <1> HIDE DEF s
  <1> QED BY <1>1, <1>2, TouchEffect

LEMMA ObsEffect ==
    ASSUME NEW u \in Team, NEW m \in Names
    PROVE  LET v == [u EXCEPT !.members[m].obs = TRUE] IN
           /\ Touches(u, v, m) /\ v.members[m].listed = u.members[m].listed
           /\ v.members[m].hash = u.members[m].hash
  <1> DEFINE s == [u.members[m] EXCEPT !.obs = TRUE]
             v == [u EXCEPT !.members[m].obs = TRUE]
  <1>1. s \in MemberStatus /\ s.listed = u.members[m].listed /\ s.hash = u.members[m].hash
    BY DEF Team, MemberStatus
  <1>2. v = [u EXCEPT !.members = [u.members EXCEPT ![m] = s]]
    OBVIOUS
  <1> HIDE DEF s
  <1> QED BY <1>1, <1>2, TouchEffect

LEMMA HashEffect ==
    ASSUME NEW u \in Team, NEW m \in Names, NEW h \in 0 .. MaxVer
    PROVE  LET v == [u EXCEPT !.members[m].hash = h] IN
           /\ Touches(u, v, m) /\ v.members[m].listed = u.members[m].listed
           /\ v.members[m].hash = h
  <1> DEFINE s == [u.members[m] EXCEPT !.hash = h]
             v == [u EXCEPT !.members[m].hash = h]
  <1>1. s \in MemberStatus /\ s.listed = u.members[m].listed /\ s.hash = h
    BY DEF Team, MemberStatus
  <1>2. v = [u EXCEPT !.members = [u.members EXCEPT ![m] = s]]
    OBVIOUS
  <1> HIDE DEF s
  <1> QED BY <1>1, <1>2, TouchEffect

\* An entry after the phases of a member: at most its hash is new.
LEMMA EntryEffect ==
    ASSUME w \in Team, NEW m \in Names, NEW h \in 0 .. MaxVer
    PROVE  LET v1 == [w EXCEPT !.members[m].listed = TRUE]
               v2 == [w EXCEPT !.members[m].listed = TRUE, !.members[m].obs = TRUE]
               v3 == [w EXCEPT !.members[m].listed = TRUE, !.members[m].obs = TRUE,
                               !.members[m].hash = h] IN
           /\ Touches(w, v1, m) /\ v1.members[m].listed /\ v1.members[m].hash = w.members[m].hash
           /\ Touches(w, v2, m) /\ v2.members[m].listed /\ v2.members[m].hash = w.members[m].hash
           /\ Touches(w, v3, m) /\ v3.members[m].listed /\ v3.members[m].hash = h
  <1> DEFINE v1 == [w EXCEPT !.members[m].listed = TRUE]
             v2 == [w EXCEPT !.members[m].listed = TRUE, !.members[m].obs = TRUE]
             v3 == [w EXCEPT !.members[m].listed = TRUE, !.members[m].obs = TRUE,
                             !.members[m].hash = h]
  <1>1. v2 = [v1 EXCEPT !.members[m].obs = TRUE] /\ v3 = [v2 EXCEPT !.members[m].hash = h]
    OBVIOUS
  <1>2. Touches(w, v1, m) /\ v1.members[m].listed /\ v1.members[m].hash = w.members[m].hash
    BY ListedEffect
  <1> HIDE DEF v1, v2, v3
  <1>3. Touches(v1, v2, m) /\ v2.members[m].listed /\ v2.members[m].hash = w.members[m].hash
    BY <1>1, <1>2, ObsEffect DEF Touches
  <1>4. Touches(v2, v3, m) /\ v3.members[m].listed /\ v3.members[m].hash = h
    <2>1. v2 \in Team /\ v3 = [v2 EXCEPT !.members[m].hash = h]
      BY <1>1, <1>3 DEF Touches
    <2>2. Touches(v2, v3, m) /\ v3.members[m].listed = v2.members[m].listed
          /\ v3.members[m].hash = h
      BY <2>1, HashEffect
    <2> QED BY <1>3, <2>2
  <1>5. Touches(w, v2, m) /\ Touches(w, v3, m)
    BY <1>2, <1>3, <1>4 DEF Touches
  <1> QED BY <1>2, <1>3, <1>4, <1>5 DEF v1, v2, v3

\* What the container phase may leave behind: the container it found, started
\* or not; nothing that is kept; or one built from the working copy.
Undone(c, m) == c.gen = ctr[m].gen /\ c.atObs = ctr[m].atObs /\ (Kept(c) => Kept(ctr[m]))

Built(c, m) == c.gen = w.ver[m] /\ c.atObs = w.members[m].hash

LEMMA RequestedType ==
    ASSUME TypeOK, NEW m \in Names
    PROVE  Requested(m) \in Container /\ Built(Requested(m), m) /\ ~Requested(m).term
  BY DEF TypeOK, Requested, Built, Team, MemberStatus, Container, RawStates

LEMMA ReplaceEffect ==
    ASSUME TypeOK, NEW m \in Names,
           NEW o \in Create(Delete(ctr[m]), Requested(m))
                     \cup CreateFailure(Delete(ctr[m]), Requested(m))
    PROVE  /\ o.ctr \in Container /\ (~Kept(o.ctr) \/ Built(o.ctr, m))
           /\ BackendKind = "docker" => ~o.ctr.term
           /\ o.ctr.st # "created" /\ o \in CreateFailure(Delete(ctr[m]), Requested(m))
                => ~Kept(o.ctr)
  <1> DEFINE n == Requested(m)
             d == Delete(ctr[m])
  <1>1. n \in Container /\ Built(n, m) /\ ~n.term
    BY RequestedType
  <1>2. ctr[m] \in Container
    BY DEF TypeOK
  <1>3. d \in Container /\ ~Kept(d) /\ (BackendKind = "docker" => d = NoContainer)
    BY <1>2, ContainerTypes DEF Delete, Kept, NoContainer, Container
  <1>4. o.ctr \in Container
    BY <1>1, <1>3, CreateTypes
  <1> HIDE DEF n, d
  <1>5. \/ o.ctr = d
        \/ BackendKind = "docker" /\ o.ctr = NoContainer
        \/ o.ctr = [n EXCEPT !.st = "running"] /\ o \notin CreateFailure(d, n)
        \/ o.ctr = [n EXCEPT !.st = "created"]
    BY DEF Create, CreateFailure, n, d
  <1>6. ~Kept(NoContainer) /\ ~NoContainer.term
    BY DEF Kept, NoContainer
  <1>7. \A s \in RawStates : /\ Built([n EXCEPT !.st = s], m)
                             /\ ~[n EXCEPT !.st = s].term
                             /\ [n EXCEPT !.st = s].st = s
    BY <1>1 DEF Built, Container
  <1>8. "running" \in RawStates /\ "created" \in RawStates
    BY DEF RawStates
  <1> QED BY <1>3, <1>4, <1>5, <1>6, <1>7, <1>8 DEF n, d

LEMMA PresentEffect ==
    ASSUME TypeOK, NEW m \in Names, NEW c \in ContainerPresent(m)
    PROVE  /\ c \in Container
           /\ \/ Undone(c, m) /\ ~memberSpecChanged(w, m)
              \/ ~Kept(c)
              \/ Built(c, m)
           /\ BackendKind = "docker" /\ ~ctr[m].term => ~c.term
  <1>1. ctr[m] \in Container
    BY DEF TypeOK
  <1>2. CASE Decision(m) = "keep"
    <2>1. c = ctr[m]
      BY <1>2 DEF ContainerPresent
    <2>2. ~memberSpecChanged(w, m)
      BY <1>2 DEF Decision
    <2> QED BY <1>1, <2>1, <2>2 DEF Undone
  <1>3. CASE Decision(m) = "start"
    <2>1. c = Start(ctr[m])
      BY <1>3 DEF ContainerPresent
    <2>2. ~memberSpecChanged(w, m) /\ ctr[m].st = "exited"
      BY <1>1, <1>3 DEF Decision, Status, Container, RawStates
    <2>3. c \in Container /\ c.gen = ctr[m].gen /\ c.atObs = ctr[m].atObs /\ c.term = ctr[m].term
      BY <1>1, <2>1, ContainerTypes DEF Start, Container
    <2> QED BY <2>2, <2>3 DEF Undone, Kept
  <1>4. CASE Decision(m) \notin {"keep", "start"}
    <2>1. PICK o \in Create(Delete(ctr[m]), Requested(m)) : c = o.ctr
      BY <1>4 DEF ContainerPresent
    <2>2. /\ o.ctr \in Container /\ (~Kept(o.ctr) \/ Built(o.ctr, m))
          /\ BackendKind = "docker" => ~o.ctr.term
      BY <2>1, ReplaceEffect
    <2> QED BY <2>1, <2>2
  <1> QED BY <1>2, <1>3, <1>4

LEMMA FailsEffect ==
    ASSUME TypeOK, NEW m \in Names, NEW k \in {"create", "start"}, NEW c \in ContainerFails(m, k)
    PROVE  /\ c \in Container
           /\ \/ c = ctr[m]
              \/ ~Kept(c)
              \/ Built(c, m) /\ k = "start"
           /\ BackendKind = "docker" /\ ~ctr[m].term => ~c.term
  <1>1. CASE c = ctr[m]
    BY <1>1 DEF TypeOK
  <1>2. CASE c # ctr[m]
    <2>1. PICK o \in CreateFailure(Delete(ctr[m]), Requested(m)) :
              c = o.ctr /\ (c.st = "created" <=> k = "start")
      BY <1>2 DEF ContainerFails
    <2>2. /\ o.ctr \in Container /\ (~Kept(o.ctr) \/ Built(o.ctr, m))
          /\ BackendKind = "docker" => ~o.ctr.term
          /\ o.ctr.st # "created" => ~Kept(o.ctr)
      BY <2>1, ReplaceEffect
    <2> QED BY <2>1, <2>2
  <1> QED BY <1>1, <1>2

\* One member's part of a pass, as the proofs below use it.
MemberStep(m) ==
    /\ pc = "members" /\ m \in todo /\ todo' = todo \ {m} /\ pc' = pc
    /\ UNCHANGED <<kube, env, base>>
    /\ Touches(w, w', m) /\ w'.members[m].listed
    /\ ctr' \in [Names -> Container]
    /\ \A n \in Names \ {m} : ctr'[n] = ctr[n]
    /\ BackendKind = "docker" /\ ~ctr[m].term => ~ctr'[m].term
    /\ \/ /\ m \in errs' /\ w'.members[m].hash = w.members[m].hash
          /\ \/ ctr'[m] = ctr[m]
             \/ ~Kept(ctr'[m])
             \/ Built(ctr'[m], m) /\ "start" \in env.faults
       \/ /\ w'.members[m].hash = w.ver[m]
          /\ \/ Undone(ctr'[m], m) /\ ~memberSpecChanged(w, m)
             \/ ~Kept(ctr'[m])
             \/ Built(ctr'[m], m)
             \/ ctr'[m] = ctr[m] /\ "detect" \in env.faults

LEMMA MemberEffect ==
    ASSUME TypeOK, NEW m \in Names, ReconcileMember(m)
    PROVE  TypeOK' /\ MemberStep(m)
  <1>1. /\ w \in Team /\ ctr \in [Names -> Container] /\ faults \in 0 .. MaxFaults
        /\ ctr[m] \in Container /\ todo \subseteq Names /\ errs \subseteq Names
        /\ cfg \in [Names -> SUBSET Names] /\ rows \subseteq Names
    BY DEF TypeOK
  <1>2. w.ver[m] \in 0 .. MaxVer /\ w.members[m].hash \in 0 .. MaxVer
    BY <1>1 DEF Team, MemberStatus
  <1>3. /\ pc = "members" /\ m \in todo /\ todo' = todo \ {m} /\ pc' = pc
        /\ UNCHANGED <<kube, env, base>>
    BY DEF ReconcileMember
  <1>4. Config(m) \in SUBSET Names
    BY TeamAssumption DEF Config, Policy, Desired
  <1>5. CASE /\ Fault("infra") /\ errs' = errs \cup {m} /\ UNCHANGED world
             /\ \/ w' = [w EXCEPT !.members[m].listed = TRUE]
                \/ w' = [w EXCEPT !.members[m].listed = TRUE, !.members[m].obs = TRUE]
    <2>1. Touches(w, w', m) /\ w'.members[m].listed /\ w'.members[m].hash = w.members[m].hash
      BY <1>1, <1>2, <1>5, EntryEffect
    <2>2. MemberStep(m)
      BY <1>1, <1>3, <1>5, <2>1 DEF MemberStep, world
    <2>3. TypeOK'
      BY <1>1, <1>3, <1>5, <2>1, FaultType DEF TypeOK, kube, world, Touches
    <2> QED BY <2>2, <2>3
  <1>6. ASSUME NEW k \in {"create", "start"}, NEW c \in ContainerFails(m, k),
               IF m \in env.broken THEN k = "create" /\ UNCHANGED faults ELSE Fault(k),
               ctr' = [ctr EXCEPT ![m] = c],
               w' = [w EXCEPT !.members[m].listed = TRUE, !.members[m].obs = TRUE,
                              !.members[m].hash = RecordedHash(m, FALSE)],
               errs' = errs \cup {m}, cfg' = [cfg EXCEPT ![m] = Config(m)], UNCHANGED rows
        PROVE  TypeOK' /\ MemberStep(m)
    <2>1. RecordedHash(m, FALSE) = w.members[m].hash
      BY DEF RecordedHash
    <2>2. Touches(w, w', m) /\ w'.members[m].listed /\ w'.members[m].hash = w.members[m].hash
      BY <1>1, <1>2, <1>6, <2>1, EntryEffect
    <2>3. /\ c \in Container
          /\ c = ctr[m] \/ ~Kept(c) \/ (Built(c, m) /\ k = "start")
          /\ BackendKind = "docker" /\ ~ctr[m].term => ~c.term
      BY FailsEffect
    <2>4. /\ ctr' \in [Names -> Container] /\ ctr'[m] = c
          /\ \A n \in Names \ {m} : ctr'[n] = ctr[n]
      BY <1>1, <1>6, <2>3
    <2>5. faults' \in 0 .. MaxFaults /\ (k = "start" => "start" \in env.faults)
      BY <1>1, <1>6, FaultType
    <2>6. cfg' \in [Names -> SUBSET Names]
      BY <1>1, <1>4, <1>6
    <2>7. MemberStep(m)
      BY <1>3, <1>6, <2>2, <2>3, <2>4, <2>5 DEF MemberStep
    <2>8. TypeOK'
      BY <1>1, <1>3, <1>6, <2>2, <2>4, <2>5, <2>6 DEF TypeOK, kube, Touches
    <2> QED BY <2>7, <2>8
  <1>7. ASSUME NEW c \in ContainerPresent(m), ctr' = [ctr EXCEPT ![m] = c],
               w' = [w EXCEPT !.members[m].listed = TRUE, !.members[m].obs = TRUE,
                              !.members[m].hash = RecordedHash(m, TRUE)],
               cfg' = [cfg EXCEPT ![m] = Config(m)], rows' = rows \cup {m},
               UNCHANGED <<errs, faults>>
        PROVE  TypeOK' /\ MemberStep(m)
    <2>1. RecordedHash(m, TRUE) = w.ver[m]
      BY DEF RecordedHash
    <2>2. Touches(w, w', m) /\ w'.members[m].listed /\ w'.members[m].hash = w.ver[m]
      BY <1>1, <1>2, <1>7, <2>1, EntryEffect
    <2>3. /\ c \in Container
          /\ (Undone(c, m) /\ ~memberSpecChanged(w, m)) \/ ~Kept(c) \/ Built(c, m)
          /\ BackendKind = "docker" /\ ~ctr[m].term => ~c.term
      BY PresentEffect
    <2>4. /\ ctr' \in [Names -> Container] /\ ctr'[m] = c
          /\ \A n \in Names \ {m} : ctr'[n] = ctr[n]
      BY <1>1, <1>7, <2>3
    <2>5. cfg' \in [Names -> SUBSET Names] /\ rows' \subseteq Names
      BY <1>1, <1>4, <1>7
    <2>6. MemberStep(m)
      BY <1>3, <1>7, <2>2, <2>3, <2>4 DEF MemberStep
    <2>7. TypeOK'
      BY <1>1, <1>3, <1>7, <2>2, <2>4, <2>5 DEF TypeOK, kube, Touches
    <2> QED BY <2>6, <2>7
  <1>8. ASSUME Fault("detect"),
               w' = [w EXCEPT !.members[m].listed = TRUE, !.members[m].obs = TRUE,
                              !.members[m].hash = RecordedHash(m, TRUE)],
               cfg' = [cfg EXCEPT ![m] = Config(m)], rows' = rows \cup {m},
               UNCHANGED <<ctr, errs>>
        PROVE  TypeOK' /\ MemberStep(m)
    <2>1. RecordedHash(m, TRUE) = w.ver[m]
      BY DEF RecordedHash
    <2>2. Touches(w, w', m) /\ w'.members[m].listed /\ w'.members[m].hash = w.ver[m]
      BY <1>1, <1>2, <1>8, <2>1, EntryEffect
    <2>3. faults' \in 0 .. MaxFaults /\ "detect" \in env.faults
      BY <1>1, <1>8, FaultType
    <2>4. cfg' \in [Names -> SUBSET Names] /\ rows' \subseteq Names
      BY <1>1, <1>4, <1>8
    <2>5. MemberStep(m)
      BY <1>1, <1>3, <1>8, <2>2, <2>3 DEF MemberStep
    <2>6. TypeOK'
      BY <1>1, <1>3, <1>8, <2>2, <2>3, <2>4 DEF TypeOK, kube, Touches
    <2> QED BY <2>5, <2>6
  <1> QED BY <1>5, <1>6, <1>7, <1>8 DEF ReconcileMember

\* A cleanup leaves a member's container alone or deletes it.
LEMMA CleanupEffect ==
    ASSUME TypeOK, NEW ms \in SUBSET Names, DeleteMembers(ms)
    PROVE  /\ ctr' \in [Names -> Container] /\ cfg' \in [Names -> SUBSET Names]
           /\ rows' \subseteq Names /\ faults' \in 0 .. MaxFaults
           /\ \A n \in Names :
                /\ ctr'[n] = ctr[n] \/ ctr'[n] = Delete(ctr[n])
                /\ "delete" \notin env.faults /\ n \in ms => ctr'[n] = Delete(ctr[n])
                /\ n \notin ms => ctr'[n] = ctr[n]
  <1>1. PICK failed \in SUBSET ms :
            /\ IF failed = {} THEN UNCHANGED faults ELSE Fault("delete")
            /\ ctr'  = [n \in Names |-> IF n \in ms \ failed THEN Delete(ctr[n]) ELSE ctr[n]]
            /\ cfg'  = [n \in Names |-> IF n \in ms \ failed THEN {} ELSE cfg[n]]
            /\ rows' = rows \ (ms \ failed)
    BY DEF DeleteMembers
  <1>2. \A n \in Names : ctr[n] \in Container /\ Delete(ctr[n]) \in Container
    BY ContainerTypes DEF TypeOK
  <1>3. faults' \in 0 .. MaxFaults /\ ("delete" \notin env.faults => failed = {})
    BY <1>1, FaultType DEF TypeOK
  <1>4. ctr' \in [Names -> Container] /\ cfg' \in [Names -> SUBSET Names] /\ rows' \subseteq Names
    BY <1>1, <1>2 DEF TypeOK
  <1> QED BY <1>1, <1>3, <1>4

\* A deleted container is not kept, and Docker's is gone.
LEMMA DeleteEffect ==
    ASSUME NEW c \in Container
    PROVE  /\ ~Kept(Delete(c))
           /\ BackendKind = "docker" => ~Delete(c).term
  BY DEF Delete, Kept, NoContainer, Container

\* The working copy after the cleanup of stale members.
Pruned(u) == [u EXCEPT !.members = [m \in Names |->
                 IF m \in Desired(u) THEN u.members[m] ELSE NoMember]]

LEMMA PrunedEffect ==
    ASSUME NEW u \in Team
    PROVE  /\ Pruned(u) \in Team /\ Pruned(u).gen = u.gen /\ Pruned(u).ver = u.ver
           /\ Desired(Pruned(u)) = Desired(u)
           /\ \A m \in Names : Pruned(u).members[m]
                = IF m \in Desired(u) THEN u.members[m] ELSE NoMember
  <1> DEFINE ms == [m \in Names |-> IF m \in Desired(u) THEN u.members[m] ELSE NoMember]
  <1>1. ms \in [Names -> MemberStatus]
    BY TeamAssumption DEF Team, NoMember, MemberStatus
  <1> HIDE DEF ms
  <1>2. [u EXCEPT !.members = ms] \in Team
    BY <1>1 DEF Team
  <1>3. /\ [u EXCEPT !.members = ms].gen = u.gen /\ [u EXCEPT !.members = ms].ver = u.ver
        /\ [u EXCEPT !.members = ms].members = ms
    BY DEF Team
  <1> QED BY <1>2, <1>3 DEF Pruned, Desired, ms

\* The working copy at the end of a pass.
LEMMA SummariseEffect ==
    ASSUME TypeOK, Summarise
    PROVE  /\ w' \in Team /\ w'.gen = w.gen /\ w'.ver = w.ver
           /\ \A m \in Names : /\ w'.members[m].hash = w.members[m].hash
                               /\ w'.members[m].listed = w.members[m].listed
           /\ faults' \in 0 .. MaxFaults
  <1>0. PICK seen \in SUBSET Desired(w) :
          LET up == {m \in seen : Status(ctr[m]) = "running"} IN
          /\ IF seen = Desired(w) THEN UNCHANGED faults ELSE Fault("status")
          /\ w' = [w EXCEPT
                     !.members = [m \in Names |->
                        IF m \in seen THEN [w.members[m] EXCEPT !.ready = m \in up]
                                     ELSE w.members[m]],
                     !.phase = TeamPhase(up)]
    BY DEF Summarise
  <1> DEFINE up == {m \in seen : Status(ctr[m]) = "running"}
             ms == [m \in Names |->
                      IF m \in seen THEN [w.members[m] EXCEPT !.ready = m \in up]
                                   ELSE w.members[m]]
             p == TeamPhase(up)
  <1>1. p \in Phases
    BY DEF TeamPhase, Phases
  <1>2. \A m \in Names : /\ w.members[m] \in MemberStatus
                         /\ ms[m] \in MemberStatus
                         /\ ms[m].hash = w.members[m].hash
                         /\ ms[m].listed = w.members[m].listed
    <2> TAKE m \in Names
    <2>1. w.members[m] \in MemberStatus /\ (m \in up) \in BOOLEAN
      BY DEF TypeOK, Team
    <2>2. ms[m] = IF m \in seen THEN [w.members[m] EXCEPT !.ready = m \in up]
                               ELSE w.members[m]
      OBVIOUS
    <2> HIDE DEF up, ms
    <2>3. \A b \in BOOLEAN : LET r == [w.members[m] EXCEPT !.ready = b] IN
             r \in MemberStatus /\ r.hash = w.members[m].hash /\ r.listed = w.members[m].listed
      BY <2>1 DEF MemberStatus
    <2> QED BY <2>1, <2>2, <2>3
  <1>3. ms \in [Names -> MemberStatus]
    BY <1>2
  <1>4. w' = [w EXCEPT !.members = ms, !.phase = p]
    BY <1>0
  <1>5. faults' \in 0 .. MaxFaults
    BY <1>0, FaultType DEF TypeOK
  <1> HIDE DEF ms, p
  <1>6. w' \in Team /\ w'.gen = w.gen /\ w'.ver = w.ver /\ w'.members = ms
    BY <1>1, <1>3, <1>4 DEF TypeOK, Team
  <1> QED BY <1>2, <1>5, <1>6

LEMMA EnvironmentType ==
    ASSUME TypeOK, Deliver \/ Edit \/ DeleteCR \/ ContainerExits \/ Crash
    PROVE  TypeOK'
  <1>0. api \in Team /\ faults \in 0 .. MaxFaults
    BY DEF TypeOK
  <1>1. CASE Deliver
    BY <1>1 DEF TypeOK, Deliver, Receive, world, local
  <1>2. CASE Edit
    <2>1. PICK m \in Names, v \in 0 .. MaxVer : Write([api EXCEPT !.ver[m] = v, !.gen = @ + 1])
      BY <1>2 DEF Edit
    <2>2. [api EXCEPT !.ver[m] = v, !.gen = @ + 1] \in Team
      BY <1>0, UserTypes
    <2>3. api' \in Team /\ watch' \subseteq Team
      BY <2>1, <2>2, WriteEffect DEF TypeOK
    <2> QED BY <1>2, <2>3 DEF TypeOK, Edit, world, local
  <1>3. CASE DeleteCR
    <2>1. api' \in Team /\ watch' \subseteq Team
      BY <1>0, <1>3, UserTypes, WriteEffect DEF TypeOK, DeleteCR
    <2> QED BY <1>3, <2>1 DEF TypeOK, DeleteCR, world, local
  <1>4. CASE ContainerExits
    <2>1. ctr' \in [Names -> Container]
      <3>1. PICK m \in Names : ctr' = [ctr EXCEPT ![m].st = "exited"]
        BY <1>4 DEF ContainerExits
      <3>2. ctr[m] \in Container /\ [ctr[m] EXCEPT !.st = "exited"] \in Container
        BY DEF TypeOK, Container, RawStates
      <3> QED BY <3>1, <3>2 DEF TypeOK
    <2> QED BY <1>0, <1>4, <2>1, FaultType DEF TypeOK, ContainerExits, kube, local
  <1>5. CASE Crash
    BY <1>0, <1>5, FaultType, NewTypes DEF TypeOK, Crash, Finish, Relist, world, PCs
  <1> QED BY <1>1, <1>2, <1>3, <1>4, <1>5

LEMMA ReconcileType ==
    ASSUME TypeOK, Reconcile
    PROVE  TypeOK'
  <1>0. /\ api \in Team /\ cache \in Team /\ w \in Team /\ watch \subseteq Team
        /\ faults \in 0 .. MaxFaults
    BY DEF TypeOK
  <1>1. CASE Begin
    BY <1>1 DEF TypeOK, Begin, kube, world, PCs
  <1>2. CASE AddFinalizer
    <2>1. api' \in Team /\ watch' \subseteq Team
      BY <1>0, <1>2, CopyTypes, WriteEffect DEF AddFinalizer
    <2> QED BY <1>0, <1>2, <2>1, FaultType, NewTypes DEF TypeOK, AddFinalizer, Finish, world, PCs
  <1>3. CASE MarkPending
    <2>1. api' \in Team /\ watch' \subseteq Team
      BY <1>0, <1>3, CopyTypes, WriteEffect DEF MarkPending
    <2> QED BY <1>0, <1>3, <2>1, FaultType, NewTypes DEF TypeOK, MarkPending, Finish, world, PCs
  <1>4. CASE TeamInfra
    BY <1>0, <1>4, CopyTypes, FaultType DEF TypeOK, TeamInfra, kube, world, PCs
  <1>5. CASE CleanStale
    <2>1. DeleteMembers(Listed(w) \ Desired(w)) /\ (Listed(w) \ Desired(w)) \in SUBSET Names
      BY <1>5 DEF CleanStale, Listed
    <2>2. w' = Pruned(w) /\ todo' = Desired(w) /\ pc' = "members"
      BY <1>5 DEF CleanStale, Pruned
    <2> QED BY <1>0, <1>5, <2>1, <2>2, CleanupEffect, PrunedEffect
            DEF TypeOK, CleanStale, Desired, kube, PCs
  <1>6. ASSUME NEW m \in Names, ReconcileMember(m) PROVE TypeOK'
    BY <1>6, MemberEffect
  <1>7. CASE Summarise
    BY <1>7, SummariseEffect DEF TypeOK, Summarise, kube, world, PCs
  <1>8. CASE PatchStatus
    <2>1. api' \in Team /\ watch' \subseteq Team
      BY <1>0, <1>8, CopyTypes, WriteEffect DEF PatchStatus
    <2> QED BY <1>0, <1>8, <2>1, FaultType, NewTypes DEF TypeOK, PatchStatus, Finish, world, PCs
  <1>9. CASE HandleDelete
    <2>1. DeleteMembers(Listed(w) \cup Desired(w)) /\ (Listed(w) \cup Desired(w)) \in SUBSET Names
      BY <1>9 DEF HandleDelete, Listed, Desired
    <2> QED BY <1>9, <2>1, CleanupEffect DEF TypeOK, HandleDelete, kube, PCs
  <1>10. CASE RemoveFinalizer
    <2>1. api' \in Team /\ watch' \subseteq Team
      BY <1>0, <1>10, CopyTypes, WriteEffect DEF RemoveFinalizer
    <2> QED BY <1>0, <1>10, <2>1, FaultType, NewTypes
            DEF TypeOK, RemoveFinalizer, Finish, world, PCs
  <1> QED BY <1>1, <1>2, <1>3, <1>4, <1>5, <1>6, <1>7, <1>8, <1>9, <1>10 DEF Reconcile

LEMMA NextType == TypeOK /\ [Next]_vars => TypeOK'
  <1> SUFFICES ASSUME TypeOK, [Next]_vars PROVE TypeOK'
    OBVIOUS
  <1>1. CASE UNCHANGED vars
    BY <1>1 DEF TypeOK, vars
  <1>2. CASE Reconcile
    BY <1>2, ReconcileType
  <1>3. CASE Next /\ ~Reconcile
    BY <1>3, EnvironmentType DEF Next
  <1> QED BY <1>1, <1>2, <1>3

\* The Team CR, its copies, its members' containers, configs and registry rows
\* always have their types.
THEOREM TeamTypeCorrect == Spec => []TypeOK
  BY InitType, NextType, PTL DEF Spec

-----------------------------------------------------------------------------
(***************************************************************************)
(* What the writers of the CR do to the fields the proofs are about.       *)
(***************************************************************************)

\* u and v differ in their phase and resourceVersion at most.
Agrees(u, v) ==
    /\ u.exists = v.exists /\ u.fin = v.fin /\ u.deleting = v.deleting
    /\ u.gen = v.gen /\ u.ver = v.ver /\ u.members = v.members

\* Whoever writes the CR leaves the cache to the watch.
Sends ==
    /\ cache' = cache
    /\ \/ UNCHANGED <<api, watch>>
       \/ api'.rv = api.rv + 1 /\ watch' = watch \cup {api'}

\* A pass has ended, with or without a result.
Ended == pc' = "idle" /\ todo' = {}

LEMMA EditEffect ==
    ASSUME TypeOK, Edit
    PROVE  /\ Sends /\ UNCHANGED <<env, world, local>>
           /\ api.exists /\ ~api.deleting
           /\ api'.exists = api.exists /\ api'.fin = api.fin /\ api'.deleting = api.deleting
           /\ api'.members = api.members /\ api'.gen = api.gen + 1
           /\ ~env.reverts => \A n \in Names : api'.ver[n] \in {api.ver[n], 0, api.gen + 1}
  <1>1. PICK m \in Names, v \in 0 .. MaxVer :
            /\ env.reverts \/ v \in {0, api.gen + 1}
            /\ Write([api EXCEPT !.ver[m] = v, !.gen = @ + 1])
    BY DEF Edit
  <1> DEFINE o == [api EXCEPT !.ver[m] = v, !.gen = @ + 1]
  <1>2. o \in Team /\ api \in Team /\ watch \subseteq Team
    BY UserTypes DEF TypeOK
  <1>3. /\ o.exists = api.exists /\ o.fin = api.fin /\ o.deleting = api.deleting
        /\ o.members = api.members /\ o.gen = api.gen + 1
        /\ \A n \in Names : o.ver[n] = IF n = m THEN v ELSE api.ver[n]
    BY <1>2 DEF Team
  <1> HIDE DEF o
  <1>4. Write(o)
    BY <1>1 DEF o
  <1>5. /\ api'.exists = o.exists /\ api'.fin = o.fin /\ api'.deleting = o.deleting
        /\ api'.gen = o.gen /\ api'.ver = o.ver /\ api'.members = o.members
        /\ UNCHANGED <<api, watch>> \/ (api'.rv = api.rv + 1 /\ watch' = watch \cup {api'})
    BY <1>2, <1>4, WriteEffect
  <1>6. api.exists /\ ~api.deleting /\ UNCHANGED <<cache, env, world, local>>
    BY DEF Edit
  <1> QED BY <1>1, <1>3, <1>5, <1>6 DEF Sends

LEMMA DeleteCREffect ==
    ASSUME TypeOK, DeleteCR
    PROVE  /\ Sends /\ UNCHANGED <<env, world, local>>
           /\ api.exists /\ ~api.deleting
           /\ api'.exists = api.fin /\ api'.fin = api.fin
           /\ api'.gen = api.gen /\ api'.ver = api.ver /\ api'.members = api.members
  <1> DEFINE o == Deleted(api)
  <1>1. o \in Team /\ api \in Team /\ watch \subseteq Team
    BY UserTypes DEF TypeOK
  <1>2. /\ o.exists = api.fin /\ o.fin = api.fin
        /\ o.gen = api.gen /\ o.ver = api.ver /\ o.members = api.members
    BY <1>1 DEF Team, Deleted
  <1> HIDE DEF o
  <1>3. Write(o) /\ api.exists /\ ~api.deleting /\ UNCHANGED <<cache, env, world, local>>
    BY DEF DeleteCR, o
  <1> QED BY <1>1, <1>2, <1>3, WriteEffect DEF Sends

LEMMA FinishEffect == Finish => Ended
  BY DEF Finish, Ended

LEMMA AddFinalizerEffect ==
    ASSUME TypeOK, AddFinalizer
    PROVE  /\ Sends /\ UNCHANGED <<env, world>> /\ pc = "finalizer"
           /\ \/ /\ api.exists /\ api'.exists /\ api'.fin /\ api'.deleting = api.deleting
                 /\ api'.gen = api.gen /\ api'.ver = api.ver /\ api'.members = api.members
                 /\ w' = api' /\ base' = api' /\ pc' = "pending" /\ todo' = todo
              \/ Ended /\ UNCHANGED api
  <1> DEFINE o == [api EXCEPT !.fin = TRUE]
  <1>1. o \in Team /\ api \in Team /\ watch \subseteq Team
    BY CopyTypes DEF TypeOK
  <1>2. /\ o.exists = api.exists /\ o.fin /\ o.deleting = api.deleting
        /\ o.gen = api.gen /\ o.ver = api.ver /\ o.members = api.members
    BY <1>1 DEF Team
  <1> HIDE DEF o
  <1>3. pc = "finalizer" /\ UNCHANGED <<cache, env, world>>
    BY DEF AddFinalizer
  <1>4. CASE UpdateAccepted(w) /\ Write(o) /\ w' = api' /\ base' = api' /\ pc' = "pending"
             /\ todo' = todo
    <2>1. api.exists
      BY <1>4 DEF UpdateAccepted
    <2> QED BY <1>1, <1>2, <1>3, <1>4, <2>1, WriteEffect DEF Sends
  <1>5. CASE Finish /\ UNCHANGED <<api, watch>>
    BY <1>3, <1>5, FinishEffect DEF Sends
  <1> QED BY <1>4, <1>5 DEF AddFinalizer, o

LEMMA MarkPendingEffect ==
    ASSUME TypeOK, MarkPending
    PROVE  /\ Sends /\ UNCHANGED <<env, world>> /\ pc = "pending"
           /\ \/ pc' = "rooms" /\ UNCHANGED <<api, w, base, todo>>
              \/ Agrees(api', api) /\ w' = api' /\ base' = api' /\ pc' = "rooms" /\ todo' = todo
              \/ Ended /\ UNCHANGED api /\ "api" \in env.faults
  <1> DEFINE o == [api EXCEPT !.phase = "Pending"]
  <1>1. o \in Team /\ api \in Team /\ watch \subseteq Team /\ faults \in 0 .. MaxFaults
    BY CopyTypes DEF TypeOK
  <1>2. Agrees(o, api)
    BY <1>1 DEF Team, Agrees
  <1> HIDE DEF o
  <1>3. pc = "pending" /\ UNCHANGED <<cache, env, world>>
    BY DEF MarkPending
  <1>4. CASE pc' = "rooms" /\ UNCHANGED <<api, watch, w, base, todo>>
    BY <1>3, <1>4 DEF Sends
  <1>5. CASE Write(o) /\ w' = api' /\ base' = api' /\ pc' = "rooms" /\ todo' = todo
    BY <1>1, <1>2, <1>3, <1>5, WriteEffect DEF Sends, Agrees
  <1>6. CASE Fault("api") /\ Finish /\ UNCHANGED <<api, watch>>
    BY <1>1, <1>3, <1>6, FinishEffect, FaultType DEF Sends
  <1> QED BY <1>4, <1>5, <1>6 DEF MarkPending, o

LEMMA PatchStatusEffect ==
    ASSUME TypeOK, PatchStatus
    PROVE  /\ Sends /\ UNCHANGED <<env, world>> /\ pc = "patch" /\ Ended
           /\ \/ /\ api'.exists = api.exists /\ api'.fin = api.fin /\ api'.deleting = api.deleting
                 /\ api'.gen = api.gen /\ api'.ver = api.ver
                 /\ base.members = api.members => api'.members = w.members
              \/ UNCHANGED api /\ "api" \in env.faults
  <1> DEFINE o == Merge(api, base, w)
  <1>1. o \in Team /\ api \in Team /\ watch \subseteq Team /\ faults \in 0 .. MaxFaults
    BY CopyTypes DEF TypeOK
  <1>2. /\ o.exists = api.exists /\ o.fin = api.fin /\ o.deleting = api.deleting
        /\ o.gen = api.gen /\ o.ver = api.ver
        /\ base.members = api.members => o.members = w.members
    BY <1>1 DEF Team, Merge, Merged
  <1> HIDE DEF o
  <1>3. pc = "patch" /\ Ended /\ UNCHANGED <<cache, env, world>>
    BY FinishEffect DEF PatchStatus
  <1>4. CASE Write(o)
    BY <1>1, <1>2, <1>3, <1>4, WriteEffect DEF Sends
  <1>5. CASE Fault("api") /\ UNCHANGED <<api, watch>>
    BY <1>1, <1>3, <1>5, FaultType DEF Sends
  <1> QED BY <1>4, <1>5 DEF PatchStatus, o

LEMMA RemoveFinalizerEffect ==
    ASSUME TypeOK, RemoveFinalizer
    PROVE  /\ Sends /\ UNCHANGED <<env, world>> /\ pc = "unfinalize" /\ Ended
           /\ api'.gen = api.gen /\ api'.ver = api.ver /\ api'.members = api.members
  <1> DEFINE o == Unfinalized(api)
  <1>1. o \in Team /\ api \in Team /\ watch \subseteq Team
    BY CopyTypes DEF TypeOK
  <1>2. o.gen = api.gen /\ o.ver = api.ver /\ o.members = api.members
    BY <1>1 DEF Team, Unfinalized
  <1> HIDE DEF o
  <1>3. pc = "unfinalize" /\ Ended /\ UNCHANGED <<cache, env, world>>
    BY FinishEffect DEF RemoveFinalizer
  <1>4. CASE Write(o)
    BY <1>1, <1>2, <1>3, <1>4, WriteEffect DEF Sends
  <1>5. CASE UNCHANGED <<api, watch>>
    BY <1>3, <1>5 DEF Sends
  <1> QED BY <1>4, <1>5 DEF RemoveFinalizer, o

\* A container that stops by itself is still there.
LEMMA ExitsEffect ==
    ASSUME TypeOK, ContainerExits
    PROVE  /\ UNCHANGED <<kube, env, local>>
           /\ \A n \in Names : /\ ctr'[n].gen = ctr[n].gen /\ ctr'[n].atObs = ctr[n].atObs
                               /\ ctr'[n].term = ctr[n].term /\ (Kept(ctr'[n]) <=> Kept(ctr[n]))
  <1>1. UNCHANGED <<kube, env, local>>
    BY DEF ContainerExits
  <1>2. PICK m \in Names : ctr[m].st = "running" /\ ctr' = [ctr EXCEPT ![m].st = "exited"]
    BY DEF ContainerExits
  <1>3. ctr \in [Names -> Container] /\ ctr[m] \in Container
    BY DEF TypeOK
  <1>4. \A n \in Names : ctr'[n] = IF n = m THEN [ctr[m] EXCEPT !.st = "exited"] ELSE ctr[n]
    BY <1>2, <1>3
  <1>5. LET c == [ctr[m] EXCEPT !.st = "exited"] IN
        /\ c.gen = ctr[m].gen /\ c.atObs = ctr[m].atObs /\ c.term = ctr[m].term
        /\ Kept(c) <=> Kept(ctr[m])
    BY <1>2, <1>3 DEF Container, Kept
  <1> QED BY <1>1, <1>4, <1>5

\* The cleanup of stale members, without failures.
LEMMA CleanStaleEffect ==
    ASSUME TypeOK, CleanStale
    PROVE  /\ UNCHANGED <<kube, env, base>> /\ pc = "stale" /\ pc' = "members"
           /\ todo' = Desired(w) /\ w' = Pruned(w)
           /\ \A n \in Names :
                /\ ctr'[n] = ctr[n] \/ ctr'[n] = Delete(ctr[n])
                /\ "delete" \notin env.faults /\ n \in Listed(w) \ Desired(w)
                     => ctr'[n] = Delete(ctr[n])
                /\ n \in Desired(w) => ctr'[n] = ctr[n]
  <1>1. DeleteMembers(Listed(w) \ Desired(w)) /\ (Listed(w) \ Desired(w)) \in SUBSET Names
    BY DEF CleanStale, Listed
  <1> QED BY <1>1, CleanupEffect DEF CleanStale, Pruned

LEMMA HandleDeleteEffect ==
    ASSUME TypeOK, HandleDelete
    PROVE  /\ UNCHANGED <<kube, env, w, base, todo>> /\ pc = "cleanup" /\ pc' = "unfinalize"
           /\ \A n \in Names :
                /\ ctr'[n] = ctr[n] \/ ctr'[n] = Delete(ctr[n])
                /\ "delete" \notin env.faults /\ n \in Listed(w) => ctr'[n] = Delete(ctr[n])
  <1>1. DeleteMembers(Listed(w) \cup Desired(w)) /\ (Listed(w) \cup Desired(w)) \in SUBSET Names
    BY DEF HandleDelete, Listed, Desired
  <1> QED BY <1>1, CleanupEffect DEF HandleDelete

LEMMA BeginEffect ==
    ASSUME TypeOK, Begin
    PROVE  /\ UNCHANGED <<kube, env, world>> /\ pc = "idle" /\ todo' = {}
           /\ cache.exists /\ w' = cache /\ base' = cache
           /\ env.lag = "none" => watch = {}
           /\ \/ pc' = "cleanup" /\ cache.deleting /\ cache.fin
              \/ pc' = "pending" /\ ~cache.deleting /\ cache.fin
              \/ pc' = "finalizer" /\ ~cache.deleting /\ ~cache.fin
  <1>1. cache.deleting \in BOOLEAN /\ cache.fin \in BOOLEAN
    BY DEF TypeOK, Team
  <1> QED BY <1>1 DEF Begin

LEMMA TeamInfraEffect ==
    ASSUME TypeOK, TeamInfra
    PROVE  /\ UNCHANGED <<kube, env, world, base, todo>> /\ pc = "rooms"
           /\ \/ pc' = "stale" /\ w' = w
              \/ pc' = "patch" /\ Agrees(w', w)
  <1>1. Agrees([w EXCEPT !.phase = "Failed"], w)
    BY DEF TypeOK, Team, Agrees
  <1> QED BY <1>1 DEF TeamInfra

LEMMA EnvKept == ASSUME TypeOK, [Next]_vars PROVE env' = env
  BY DEF Next, Reconcile, Begin, AddFinalizer, MarkPending, TeamInfra, CleanStale, ReconcileMember,
     Summarise, PatchStatus, HandleDelete, RemoveFinalizer, Deliver, Edit, DeleteCR,
     ContainerExits, Crash, vars

-----------------------------------------------------------------------------
(***************************************************************************)
(* The invariants.                                                         *)
(***************************************************************************)

\* Where a pass works on the members, and its working copy is ahead of the CR.
Passing == {"pending", "rooms", "stale", "members", "patch"}

\* The newest version is the last to be received, so an informer that waits
\* for nothing is current; a pass has members left only in the member loop;
\* Docker's containers never linger.
ShapeInv ==
    /\ watch = {} => cache = api
    /\ watch # {} => api \in watch
    /\ \A u \in watch : u.rv < api.rv \/ u = api
    /\ todo # {} => pc = "members"
    /\ todo \subseteq Desired(w)
    /\ \A m \in Names : BackendKind = "docker" => ~ctr[m].term

\* The entry that leads to member m's container: the pass's, or the CR's.
Record(m) == IF pc \in Passing THEN w.members[m] ELSE api.members[m]

\* A kept container has an entry with the version it was built from.
Entry(m) ==
    Kept(ctr[m]) =>
        /\ api.exists /\ api.fin /\ pc # "unfinalize"
        /\ ctr[m].gen > 0
        /\ Record(m).listed /\ Record(m).hash = ctr[m].gen

CalmInv == Calm =>
    /\ pc \in Passing => api.exists /\ api.fin /\ base.members = api.members
    /\ pc \in {"pending", "rooms", "stale"} => w.members = api.members
    /\ pc \in {"cleanup", "unfinalize"} =>
          w.members = api.members /\ api.deleting /\ api.exists
    /\ \A m \in Names : Entry(m)

\* What an entry r says about a container c of a member at version v.
Says(r, v, c) ==
    Kept(c) /\ c.atObs > 0 => r.hash > 0 /\ (r.hash = v => c.gen = v)

\* The pass's entry and the CR's say the same of a container, although the
\* spec may have moved on: a newer version is in no entry yet.
PassInv(m) ==
    /\ w.members[m].hash <= w.gen /\ w.ver[m] <= w.gen /\ api.members[m].hash <= w.gen
    /\ w.members[m].hash > 0 => w.members[m].listed
    /\ api.ver[m] \in {0, w.ver[m]} \/ api.ver[m] > w.gen
    /\ Says(w.members[m], w.ver[m], ctr[m])
    /\ m \in todo \/ pc \in {"pending", "rooms", "stale"} => w.members[m] = api.members[m]

CRInv(m) ==
    /\ api.ver[m] <= api.gen /\ api.members[m].hash <= api.gen
    /\ api.members[m].hash > 0 => api.members[m].listed
    /\ Says(api.members[m], api.ver[m], ctr[m])

HashInv == Recorded =>
    /\ \A m \in Names : CRInv(m)
    /\ pc \in Passing => /\ base.members = api.members /\ w.gen <= api.gen
                         /\ \A m \in Names : PassInv(m)

LEMMA InitInv == Init => ShapeInv /\ CalmInv /\ HashInv
  <1> SUFFICES ASSUME Init PROVE ShapeInv /\ CalmInv /\ HashInv
    OBVIOUS
  <1>1. PICK ms \in SUBSET (Names \ {Leader}) :
            api = NewTeam([m \in Names |-> IF m = Leader \/ m \in ms THEN 1 ELSE 0])
    BY DEF Init
  <1>2. [m \in Names |-> IF m = Leader \/ m \in ms THEN 1 ELSE 0] \in [Names -> 0 .. MaxVer]
    BY TeamAssumption
  <1>3. /\ api.gen = 1
        /\ \A m \in Names : api.members[m] = NoMember /\ api.ver[m] <= 1
    BY <1>1, <1>2, NewTypes
  <1>4. \A m \in Names : ~Kept(ctr[m]) /\ ~ctr[m].term
    BY DEF Init, NoContainer, Kept
  <1>5. ShapeInv
    BY <1>4 DEF Init, ShapeInv
  <1>6. CalmInv
    BY <1>4 DEF Init, CalmInv, Entry, Passing
  <1>7. HashInv
    BY <1>3, <1>4 DEF Init, HashInv, CRInv, Says, Passing, NoMember
  <1> QED BY <1>5, <1>6, <1>7

\* The four parts of ShapeInv, for a step that writes the CR and leaves the
\* working copy alone.
LEMMA SendsShape ==
    ASSUME TypeOK, ShapeInv, Sends
    PROVE  /\ watch' = {} => cache' = api'
           /\ watch' # {} => api' \in watch'
           /\ \A u \in watch' : u.rv < api'.rv \/ u = api'
  <1>1. api.rv \in Nat /\ \A u \in watch : u.rv \in Nat
    BY DEF TypeOK, Team
  <1> QED BY <1>1 DEF Sends, ShapeInv

LEMMA ReceiveShape ==
    ASSUME TypeOK, ShapeInv, Receive
    PROVE  /\ watch' = {} => cache' = api'
           /\ watch' # {} => api' \in watch'
           /\ \A u \in watch' : u.rv < api'.rv \/ u = api'
  <1>1. api.rv \in Nat /\ \A u \in watch : u.rv \in Nat
    BY DEF TypeOK, Team
  <1>2. PICK v \in watch : cache' = v /\ watch' = {u \in watch : u.rv > v.rv} /\ api' = api
    BY DEF Receive
  <1>3. watch' # {} => v # api
    BY <1>1, <1>2 DEF ShapeInv
  <1>4. v # api => v.rv < api.rv /\ api \in watch
    BY DEF ShapeInv
  <1>5. api \in watch /\ v.rv < api.rv => api \in watch'
    BY <1>1, <1>2
  <1> QED BY <1>2, <1>3, <1>4, <1>5 DEF ShapeInv

LEMMA ShapeNext == ASSUME TypeOK, ShapeInv, [Next]_vars PROVE ShapeInv'
  <1>0. \A n \in Names : ctr[n] \in Container
    BY DEF TypeOK
  <1>1. CASE UNCHANGED vars
    BY <1>1 DEF ShapeInv, Desired, vars
  <1>2. CASE Deliver
    BY <1>2, ReceiveShape DEF ShapeInv, Desired, Deliver, world, local
  <1>3. CASE Edit \/ DeleteCR
    <2>1. Sends /\ UNCHANGED <<world, local>>
      BY <1>3, EditEffect, DeleteCREffect
    <2> QED BY <2>1, SendsShape DEF ShapeInv, Desired, world, local
  <1>4. CASE ContainerExits
    BY <1>4, ExitsEffect DEF ShapeInv, Desired, kube, local
  <1>5. CASE Crash
    BY <1>5 DEF ShapeInv, Crash, Finish, Relist, world
  <1>6. CASE Begin
    BY <1>6, BeginEffect DEF ShapeInv, kube, world
  <1>7. CASE AddFinalizer \/ MarkPending \/ PatchStatus \/ RemoveFinalizer
    <2>1. Sends /\ UNCHANGED world /\ (todo' = {} \/ (pc # "members" /\ todo' = todo))
      BY <1>7, AddFinalizerEffect, MarkPendingEffect, PatchStatusEffect, RemoveFinalizerEffect
         DEF Ended
    <2>2. todo' = {}
      BY <2>1 DEF ShapeInv
    <2> QED BY <2>1, <2>2, SendsShape DEF ShapeInv, world
  <1>8. CASE TeamInfra
    <2>1. todo' = {}
      BY <1>8, TeamInfraEffect DEF ShapeInv
    <2> QED BY <1>8, <2>1, TeamInfraEffect DEF ShapeInv, kube, world
  <1>9. CASE CleanStale
    <2>1. w \in Team
      BY DEF TypeOK
    <2>2. \A n \in Names : BackendKind = "docker" => ~ctr'[n].term
      BY <1>0, <1>9, CleanStaleEffect, DeleteEffect DEF ShapeInv
    <2> QED BY <1>9, <2>1, <2>2, CleanStaleEffect, PrunedEffect DEF ShapeInv, kube
  <1>10. ASSUME NEW m \in Names, ReconcileMember(m) PROVE ShapeInv'
    <2>1. MemberStep(m)
      BY <1>10, MemberEffect
    <2>2. \A n \in Names : BackendKind = "docker" => ~ctr'[n].term
      BY <2>1 DEF ShapeInv, MemberStep
    <2>3. w'.ver = w.ver
      BY <2>1 DEF MemberStep, Touches
    <2> QED BY <2>1, <2>2, <2>3 DEF ShapeInv, MemberStep, Desired, kube
  <1>11. CASE Summarise
    BY <1>11, SummariseEffect DEF ShapeInv, Summarise, Desired, kube, world
  <1>12. CASE HandleDelete
    <2>1. \A n \in Names : BackendKind = "docker" => ~ctr'[n].term
      BY <1>0, <1>12, HandleDeleteEffect, DeleteEffect DEF ShapeInv
    <2>2. todo' = {}
      BY <1>12, HandleDeleteEffect DEF ShapeInv
    <2> QED BY <1>12, <2>1, <2>2, HandleDeleteEffect DEF ShapeInv, kube
  <1> QED BY <1>1, <1>2, <1>3, <1>4, <1>5, <1>6, <1>7, <1>8, <1>9, <1>10, <1>11, <1>12
          DEF Next, Reconcile

\* With one entry per container, a step that keeps the entries and adds no
\* container keeps them together.
LEMMA EntryKept ==
    ASSUME NEW m \in Names, Entry(m),
           Kept(ctr'[m]) => Kept(ctr[m]) /\ ctr'[m].gen = ctr[m].gen,
           Kept(ctr[m]) /\ Kept(ctr'[m]) /\ api.fin /\ pc # "unfinalize"
             => /\ api'.exists /\ api'.fin /\ pc' # "unfinalize"
                /\ Record(m)'.listed = Record(m).listed /\ Record(m)'.hash = Record(m).hash
    PROVE  Entry(m)'
  BY DEF Entry

\* The containers of a pass that ends, or of no pass.
LEMMA DeletedKept ==
    ASSUME TypeOK, NEW m \in Names, ctr'[m] = ctr[m] \/ ctr'[m] = Delete(ctr[m])
    PROVE  Kept(ctr'[m]) => Kept(ctr[m]) /\ ctr'[m] = ctr[m]
  BY DeleteEffect DEF TypeOK

LEMMA OutsideCalm ==
    ASSUME TypeOK, ShapeInv, CalmInv, Calm,
           Deliver \/ Edit \/ DeleteCR \/ ContainerExits
    PROVE  CalmInv'
  <1>1. CASE Deliver
    <2>1. UNCHANGED <<api, env, ctr, pc, w, base>>
      BY <1>1 DEF Deliver, Receive, world, local
    <2> QED BY <2>1 DEF CalmInv, Calm, Entry, Record
  <1>2. CASE Edit
    <2>1. /\ UNCHANGED <<env, ctr, pc, w, base>>
          /\ ~api.deleting /\ api.exists
          /\ api'.exists = api.exists /\ api'.fin = api.fin /\ api'.members = api.members
      BY <1>2, EditEffect DEF world, local
    <2>2. pc \notin {"cleanup", "unfinalize"}
      BY <2>1 DEF CalmInv
    <2>3. \A m \in Names : Entry(m)'
      BY <2>1, EntryKept DEF CalmInv, Record
    <2> QED BY <2>1, <2>2, <2>3 DEF CalmInv, Calm
  <1>3. CASE DeleteCR
    <2>1. /\ UNCHANGED <<env, ctr, pc, w, base>>
          /\ ~api.deleting
          /\ api'.exists = api.fin /\ api'.fin = api.fin /\ api'.members = api.members
      BY <1>3, DeleteCREffect DEF world, local
    <2>2. pc \notin {"cleanup", "unfinalize"}
      BY <2>1 DEF CalmInv
    <2>3. \A m \in Names : Entry(m)'
      BY <2>1 DEF CalmInv, Record, Entry
    <2> QED BY <2>1, <2>2, <2>3 DEF CalmInv, Calm
  <1>4. CASE ContainerExits
    <2>1. UNCHANGED <<api, env, pc, w, base>>
      BY <1>4, ExitsEffect DEF kube, local
    <2>2. \A m \in Names : Entry(m)'
      BY <1>4, <2>1, ExitsEffect DEF CalmInv, Record, Entry
    <2> QED BY <2>1, <2>2 DEF CalmInv, Calm
  <1> QED BY <1>1, <1>2, <1>3, <1>4

\* A pass that has not come to the members yet.
LEMMA StartCalm ==
    ASSUME TypeOK, ShapeInv, CalmInv, Calm,
           Begin \/ AddFinalizer \/ MarkPending \/ TeamInfra
    PROVE  CalmInv'
  <1>0. "api" \notin env.faults /\ env.lag = "none"
    BY DEF Calm
  <1>1. CASE Begin
    <2>1. /\ UNCHANGED <<api, env, ctr>> /\ pc = "idle" /\ w' = api /\ base' = api
          /\ api.exists
          /\ \/ pc' = "cleanup" /\ api.deleting /\ api.fin
             \/ pc' = "pending" /\ ~api.deleting /\ api.fin
             \/ pc' = "finalizer" /\ ~api.deleting /\ ~api.fin
      BY <1>0, <1>1, BeginEffect DEF ShapeInv, kube, world
    <2>2. \A m \in Names : Entry(m)'
      BY <2>1, EntryKept DEF CalmInv, Record, Passing
    <2> QED BY <2>1, <2>2 DEF CalmInv, Calm, Passing
  <1>2. CASE AddFinalizer
    <2>1. UNCHANGED <<env, ctr>> /\ pc = "finalizer"
      BY <1>2, AddFinalizerEffect DEF world
    <2>2. CASE /\ api'.exists /\ api'.fin /\ api'.members = api.members
               /\ w' = api' /\ base' = api' /\ pc' = "pending"
      <3>1. \A m \in Names : Entry(m)'
        BY <2>1, <2>2, EntryKept DEF CalmInv, Record, Passing
      <3> QED BY <2>1, <2>2, <3>1 DEF CalmInv, Calm
    <2>3. CASE pc' = "idle" /\ UNCHANGED api
      <3>1. \A m \in Names : Entry(m)'
        BY <2>1, <2>3, EntryKept DEF CalmInv, Record, Passing, Entry
      <3> QED BY <2>1, <2>3, <3>1 DEF CalmInv, Calm, Passing
    <2> QED BY <1>2, <2>2, <2>3, AddFinalizerEffect DEF Ended
  <1>3. CASE MarkPending
    <2>1. /\ UNCHANGED <<env, ctr>> /\ pc = "pending" /\ pc' = "rooms"
          /\ \/ UNCHANGED <<api, w, base>>
             \/ Agrees(api', api) /\ w' = api' /\ base' = api'
      BY <1>0, <1>3, MarkPendingEffect DEF world
    <2>2. api'.exists = api.exists /\ api'.fin = api.fin
          /\ w'.members = w.members /\ base'.members = api'.members /\ w'.members = api'.members
      BY <2>1 DEF CalmInv, Agrees, Passing
    <2>3. \A m \in Names : Entry(m)'
      BY <2>1, <2>2, EntryKept DEF CalmInv, Record, Passing, Entry
    <2> QED BY <2>1, <2>2, <2>3 DEF CalmInv, Calm, Passing
  <1>4. CASE TeamInfra
    <2>1. /\ UNCHANGED <<api, env, ctr, base>> /\ pc = "rooms" /\ pc' \in {"stale", "patch"}
          /\ w'.members = w.members
      BY <1>4, TeamInfraEffect DEF kube, world, Agrees
    <2>2. \A m \in Names : Entry(m)'
      BY <2>1, EntryKept DEF CalmInv, Record, Passing
    <2> QED BY <2>1, <2>2 DEF CalmInv, Calm, Passing
  <1> QED BY <1>1, <1>2, <1>3, <1>4

\* The member loop: a container is created with the version its entry gets.
LEMMA MembersCalm ==
    ASSUME TypeOK, ShapeInv, CalmInv, Calm,
           \/ CleanStale \/ Summarise
           \/ \E m \in Names : ReconcileMember(m)
    PROVE  CalmInv'
  <1>0. env.faults \cap {"delete", "start"} = {} /\ w \in Team
    BY DEF Calm, TypeOK
  <1>1. CASE CleanStale
    <2>1. /\ UNCHANGED <<api, env, base>> /\ pc = "stale" /\ pc' = "members" /\ w' = Pruned(w)
          /\ \A n \in Names :
                /\ ctr'[n] = ctr[n] \/ ctr'[n] = Delete(ctr[n])
                /\ n \in Listed(w) \ Desired(w) => ctr'[n] = Delete(ctr[n])
      BY <1>0, <1>1, CleanStaleEffect DEF kube
    <2>2. ASSUME NEW m \in Names, Kept(ctr'[m])
          PROVE  m \in Desired(w) /\ Kept(ctr[m]) /\ ctr'[m] = ctr[m]
      <3>1. Kept(ctr[m]) /\ ctr'[m] = ctr[m]
        BY <2>1, <2>2, DeletedKept
      <3>2. w.members[m].listed
        BY <2>1, <3>1 DEF CalmInv, Entry, Record, Passing
      <3>3. ~Kept(Delete(ctr[m]))
        BY DeleteEffect DEF TypeOK
      <3> QED BY <2>1, <2>2, <3>1, <3>2, <3>3 DEF Listed
    <2>3. \A m \in Desired(w) : w'.members[m] = w.members[m]
      BY <1>0, <2>1, PrunedEffect DEF Desired
    <2>4. \A m \in Names : Entry(m)'
      BY <2>1, <2>2, <2>3 DEF CalmInv, Entry, Record, Passing
    <2> QED BY <2>1, <2>4 DEF CalmInv, Calm, Passing
  <1>2. CASE Summarise
    <2>1. /\ UNCHANGED <<api, env, ctr, base>> /\ pc = "members" /\ pc' = "patch"
          /\ \A m \in Names : /\ w'.members[m].hash = w.members[m].hash
                              /\ w'.members[m].listed = w.members[m].listed
      BY <1>2, SummariseEffect DEF Summarise, kube, world
    <2>2. \A m \in Names : Entry(m)'
      BY <2>1, EntryKept DEF CalmInv, Record, Passing
    <2> QED BY <2>1, <2>2 DEF CalmInv, Calm, Passing
  <1>3. ASSUME NEW m \in Names, ReconcileMember(m) PROVE CalmInv'
    <2>1. MemberStep(m) /\ TypeOK'
      BY <1>3, MemberEffect
    <2>2. /\ UNCHANGED <<api, env, base>> /\ pc = "members" /\ pc' = "members"
          /\ w'.members[m].listed /\ m \in todo
          /\ \A n \in Names \ {m} : ctr'[n] = ctr[n] /\ w'.members[n] = w.members[n]
      BY <2>1 DEF MemberStep, Touches, kube
    <2>3. api.exists /\ api.fin /\ base.members = api.members /\ \A n \in Names : Entry(n)
      BY <2>2 DEF CalmInv, Passing
    <2>4. \A n \in Names \ {m} : Entry(n)'
      BY <2>2, <2>3, EntryKept DEF Record, Passing
    <2>5. w.ver[m] > 0 /\ w.ver[m] \in Nat
      BY <1>0, <2>2 DEF ShapeInv, Desired, Team
    <2>6. Kept(ctr'[m]) => ctr'[m].gen > 0 /\ w'.members[m].hash = ctr'[m].gen
      <3> SUFFICES ASSUME Kept(ctr'[m])
                   PROVE  ctr'[m].gen > 0 /\ w'.members[m].hash = ctr'[m].gen
        OBVIOUS
      <3>1. Kept(ctr[m]) => ctr[m].gen > 0 /\ w.members[m].hash = ctr[m].gen
        BY <2>2, <2>3 DEF Entry, Record, Passing
      <3>2. CASE w'.members[m].hash = w.members[m].hash /\ ctr'[m] = ctr[m]
        BY <3>1, <3>2
      <3>3. CASE w'.members[m].hash = w.ver[m] /\ Built(ctr'[m], m)
        BY <2>5, <3>3 DEF Built
      <3>4. CASE /\ w'.members[m].hash = w.ver[m]
                 /\ Undone(ctr'[m], m) /\ ~memberSpecChanged(w, m)
        <4>1. Kept(ctr[m]) /\ ctr'[m].gen = ctr[m].gen
          BY <3>4 DEF Undone
        <4>2. w.members[m].hash = w.ver[m]
          BY <3>1, <3>4, <4>1 DEF memberSpecChanged
        <4> QED BY <3>1, <3>4, <4>1, <4>2
      <3>5. "detect" \notin env.faults
        BY DEF Calm
      <3> QED BY <1>0, <2>1, <3>2, <3>3, <3>4, <3>5 DEF MemberStep
    <2>7. Entry(m)'
      BY <2>2, <2>3, <2>6 DEF Entry, Record, Passing
    <2> QED BY <2>2, <2>3, <2>4, <2>7 DEF CalmInv, Calm, Passing
  <1> QED BY <1>1, <1>2, <1>3

\* What the pass recorded becomes the CR's; a cleanup leaves no container.
LEMMA EndCalm ==
    ASSUME TypeOK, ShapeInv, CalmInv, Calm,
           PatchStatus \/ HandleDelete \/ RemoveFinalizer
    PROVE  CalmInv'
  <1>0. env.faults \cap {"api", "delete"} = {}
    BY DEF Calm
  <1>1. CASE PatchStatus
    <2>1. /\ UNCHANGED <<env, ctr>> /\ pc = "patch" /\ pc' = "idle"
          /\ api'.exists = api.exists /\ api'.fin = api.fin
          /\ base.members = api.members => api'.members = w.members
      BY <1>0, <1>1, PatchStatusEffect DEF world, Ended
    <2>2. api'.members = w.members
      BY <2>1 DEF CalmInv, Passing
    <2>3. \A m \in Names : Entry(m)'
      BY <2>1, <2>2, EntryKept DEF CalmInv, Record, Passing, Entry
    <2> QED BY <2>1, <2>3 DEF CalmInv, Calm, Passing
  <1>2. CASE HandleDelete
    <2>1. /\ UNCHANGED <<api, env, w, base>> /\ pc = "cleanup" /\ pc' = "unfinalize"
          /\ \A n \in Names : /\ ctr'[n] = ctr[n] \/ ctr'[n] = Delete(ctr[n])
                              /\ n \in Listed(w) => ctr'[n] = Delete(ctr[n])
      BY <1>0, <1>2, HandleDeleteEffect DEF kube
    <2>2. ASSUME NEW m \in Names PROVE ~Kept(ctr'[m])
      <3>1. CASE ~Kept(ctr[m])
        BY <2>1, <3>1, DeletedKept
      <3>2. CASE Kept(ctr[m])
        <4>1. w.members[m].listed
          BY <2>1, <3>2 DEF CalmInv, Entry, Record, Passing
        <4>2. ~Kept(Delete(ctr[m]))
          BY DeleteEffect DEF TypeOK
        <4> QED BY <2>1, <4>1, <4>2 DEF Listed
      <3> QED BY <3>1, <3>2
    <2> QED BY <2>1, <2>2 DEF CalmInv, Calm, Entry, Passing
  <1>3. CASE RemoveFinalizer
    <2>1. UNCHANGED <<env, ctr>> /\ pc = "unfinalize" /\ pc' = "idle"
      BY <1>3, RemoveFinalizerEffect DEF world, Ended
    <2>2. \A m \in Names : ~Kept(ctr'[m])
      BY <2>1 DEF CalmInv, Entry
    <2> QED BY <2>1, <2>2 DEF CalmInv, Calm, Entry, Passing
  <1> QED BY <1>1, <1>2, <1>3

LEMMA CalmNext == ASSUME TypeOK, ShapeInv, CalmInv, [Next]_vars PROVE CalmInv'
  <1>1. CASE ~Calm
    BY <1>1, EnvKept DEF CalmInv, Calm
  <1>2. CASE Calm /\ UNCHANGED vars
    BY <1>2 DEF CalmInv, Calm, Entry, Record, vars
  <1>3. CASE Calm /\ Next
    <2>1. ~Crash
      BY <1>3, FaultType DEF Calm, Crash, TypeOK
    <2> QED BY <1>3, <2>1, OutsideCalm, StartCalm, MembersCalm, EndCalm DEF Next, Reconcile
  <1> QED BY <1>1, <1>2, <1>3

LEMMA Numbers ==
    ASSUME TypeOK
    PROVE  /\ api.gen \in Nat /\ w.gen \in Nat
           /\ \A m \in Names : /\ api.ver[m] \in Nat /\ api.members[m].hash \in Nat
                               /\ w.ver[m] \in Nat /\ w.members[m].hash \in Nat
                               /\ ctr[m].gen \in Nat /\ ctr[m].atObs \in Nat
  BY TeamAssumption DEF TypeOK, Team, MemberStatus, Container

\* What is said of a container stays true of whatever is left of it.
LEMMA SaysKept ==
    ASSUME NEW r, NEW v, NEW c, NEW d, Says(r, v, c),
           Kept(d) => Kept(c) /\ d.gen = c.gen /\ d.atObs = c.atObs
    PROVE  Says(r, v, d)
  BY DEF Says

\* Steps that touch neither the spec's versions nor the entries.
LEMMA QuietHash ==
    ASSUME TypeOK, HashInv, Recorded, UNCHANGED env,
           api'.gen = api.gen, api'.ver = api.ver, api'.members = api.members,
           \A n \in Names : Kept(ctr'[n]) => /\ Kept(ctr[n]) /\ ctr'[n].gen = ctr[n].gen
                                             /\ ctr'[n].atObs = ctr[n].atObs
    PROVE  /\ \A n \in Names : CRInv(n)'
           /\ (UNCHANGED <<pc, w, base, todo>> \/ pc' \notin Passing) => HashInv'
  <1>1. ASSUME NEW n \in Names PROVE CRInv(n)'
    BY <1>1, SaysKept DEF HashInv, CRInv
  <1>2. CASE UNCHANGED <<pc, w, base, todo>>
    <2>1. ASSUME NEW n \in Names, PassInv(n) PROVE PassInv(n)'
      BY <1>2, <2>1, SaysKept DEF PassInv
    <2> QED BY <1>1, <1>2, <2>1 DEF HashInv
  <1> QED BY <1>1, <1>2 DEF HashInv

LEMMA OutsideHash ==
    ASSUME TypeOK, ShapeInv, HashInv, Recorded,
           Deliver \/ Edit \/ DeleteCR \/ ContainerExits \/ Crash
    PROVE  HashInv'
  <1>1. CASE Deliver
    <2>1. UNCHANGED <<api, env, ctr, pc, w, base, todo>>
      BY <1>1 DEF Deliver, Receive, world, local
    <2> QED BY <2>1, QuietHash
  <1>2. CASE Edit
    <2>1. /\ UNCHANGED <<env, ctr, pc, w, base, todo>>
          /\ api'.members = api.members /\ api'.gen = api.gen + 1
          /\ \A n \in Names : api'.ver[n] \in {api.ver[n], 0, api.gen + 1}
      BY <1>2, EditEffect DEF world, local, Recorded
    <2>2. ASSUME NEW n \in Names PROVE CRInv(n)'
      BY <2>1, Numbers DEF HashInv, CRInv, Says
    <2>3. ASSUME NEW n \in Names, PassInv(n), w.gen <= api.gen PROVE PassInv(n)'
      BY <2>1, <2>3, Numbers DEF PassInv
    <2>4. w.gen <= api.gen => w'.gen <= api'.gen
      BY <2>1, Numbers
    <2> QED BY <2>1, <2>2, <2>3, <2>4 DEF HashInv
  <1>3. CASE DeleteCR
    <2>1. /\ UNCHANGED <<env, ctr, pc, w, base, todo>>
          /\ api'.gen = api.gen /\ api'.ver = api.ver /\ api'.members = api.members
      BY <1>3, DeleteCREffect DEF world, local
    <2> QED BY <2>1, QuietHash
  <1>4. CASE ContainerExits
    <2>1. UNCHANGED <<api, env, pc, w, base, todo>>
      BY <1>4, ExitsEffect DEF kube, local
    <2> QED BY <1>4, <2>1, ExitsEffect, QuietHash
  <1>5. CASE Crash
    <2>1. UNCHANGED <<api, env, ctr>> /\ pc' = "idle"
      BY <1>5 DEF Crash, Finish, Relist, world
    <2> QED BY <2>1, QuietHash DEF Passing
  <1> QED BY <1>1, <1>2, <1>3, <1>4, <1>5

\* A working copy that is the CR.
LEMMA FreshHash ==
    ASSUME TypeOK, HashInv, Recorded, UNCHANGED <<env, ctr>>,
           api'.gen = api.gen, api'.ver = api.ver, api'.members = api.members,
           w' = api', base' = api', pc' \in {"pending", "rooms"}
    PROVE  HashInv'
  <1>1. \A n \in Names : CRInv(n)'
    BY QuietHash
  <1>2. ASSUME NEW n \in Names PROVE PassInv(n)'
    BY <1>1, Numbers DEF HashInv, CRInv, PassInv
  <1>3. w'.gen <= api'.gen
    BY Numbers
  <1> QED BY <1>1, <1>2, <1>3 DEF HashInv

LEMMA StartHash ==
    ASSUME TypeOK, ShapeInv, HashInv, Recorded,
           Begin \/ AddFinalizer \/ MarkPending \/ TeamInfra
    PROVE  HashInv'
  <1>1. CASE Begin
    <2>1. /\ UNCHANGED <<api, env, ctr>> /\ w' = api /\ base' = api
          /\ pc' \in {"cleanup", "pending", "finalizer"}
      BY <1>1, BeginEffect DEF ShapeInv, Recorded, kube, world
    <2> QED BY <2>1, FreshHash, QuietHash DEF Passing
  <1>2. CASE AddFinalizer
    <2>1. /\ UNCHANGED <<env, ctr>>
          /\ api'.gen = api.gen /\ api'.ver = api.ver /\ api'.members = api.members
          /\ (w' = api' /\ base' = api' /\ pc' = "pending") \/ pc' = "idle"
      BY <1>2, AddFinalizerEffect DEF world, Ended
    <2> QED BY <2>1, FreshHash, QuietHash DEF Passing
  <1>3. CASE MarkPending
    <2>1. UNCHANGED <<env, ctr>> /\ pc = "pending"
      BY <1>3, MarkPendingEffect DEF world
    <2>2. CASE pc' = "rooms" /\ UNCHANGED <<api, w, base, todo>>
      <3>1. \A n \in Names : CRInv(n)'
        BY <2>1, <2>2, QuietHash
      <3>2. ASSUME NEW n \in Names, PassInv(n) PROVE PassInv(n)'
        BY <2>1, <2>2, <3>2 DEF PassInv
      <3> QED BY <2>1, <2>2, <3>1, <3>2 DEF HashInv, Passing
    <2>3. CASE Agrees(api', api) /\ w' = api' /\ base' = api' /\ pc' = "rooms"
      BY <2>1, <2>3, FreshHash DEF Agrees
    <2>4. CASE pc' = "idle" /\ UNCHANGED api
      BY <2>1, <2>4, QuietHash DEF Passing
    <2> QED BY <1>3, <2>2, <2>3, <2>4, MarkPendingEffect DEF Ended
  <1>4. CASE TeamInfra
    <2>1. /\ UNCHANGED <<api, env, ctr, base, todo>> /\ pc = "rooms" /\ pc' \in {"stale", "patch"}
          /\ w'.members = w.members /\ w'.gen = w.gen /\ w'.ver = w.ver
      BY <1>4, TeamInfraEffect DEF kube, world, Agrees
    <2>2. \A n \in Names : CRInv(n)'
      BY <2>1, QuietHash
    <2>3. ASSUME NEW n \in Names, PassInv(n) PROVE PassInv(n)'
      BY <2>1, <2>3 DEF PassInv
    <2> QED BY <2>1, <2>2, <2>3 DEF HashInv, Passing
  <1> QED BY <1>1, <1>2, <1>3, <1>4

LEMMA CleanStaleHash ==
    ASSUME TypeOK, ShapeInv, HashInv, Recorded, CleanStale
    PROVE  HashInv'
  <1>1. /\ UNCHANGED <<api, env, base>> /\ pc = "stale" /\ pc' = "members" /\ w' = Pruned(w)
        /\ todo' = Desired(w)
        /\ \A n \in Names :
              /\ ctr'[n] = ctr[n] \/ ctr'[n] = Delete(ctr[n])
              /\ n \in Listed(w) \ Desired(w) => ctr'[n] = Delete(ctr[n])
    BY CleanStaleEffect DEF Recorded, kube
  <1>2. /\ w'.gen = w.gen /\ w'.ver = w.ver
        /\ \A n \in Names : w'.members[n] = IF n \in Desired(w) THEN w.members[n] ELSE NoMember
    BY <1>1, PrunedEffect DEF TypeOK
  <1>3. \A n \in Names : Kept(ctr'[n]) => Kept(ctr[n]) /\ ctr'[n] = ctr[n]
    BY <1>1, DeletedKept
  <1>4. \A n \in Names : CRInv(n)'
    BY <1>1, <1>3, QuietHash
  <1>5. base.members = api.members /\ w.gen <= api.gen /\ \A n \in Names : PassInv(n)
    BY <1>1 DEF HashInv, Passing
  <1>6. ASSUME NEW n \in Names PROVE PassInv(n)'
    <2>1. CASE n \in Desired(w)
      <3>1. w'.members[n] = w.members[n] /\ w.members[n] = api.members[n]
        BY <1>1, <1>2, <1>5, <2>1 DEF PassInv
      <3>2. Says(w'.members[n], w'.ver[n], ctr'[n])
        BY <1>2, <1>3, <1>5, <3>1, SaysKept DEF PassInv
      <3> QED BY <1>1, <1>2, <1>5, <3>1, <3>2 DEF PassInv
    <2>2. CASE n \notin Desired(w)
      <3>1. w'.members[n].hash = 0 /\ n \notin todo'
        BY <1>1, <1>2, <2>2 DEF NoMember
      <3>2. ~(Kept(ctr'[n]) /\ ctr'[n].atObs > 0)
        <4> SUFFICES ASSUME Kept(ctr'[n]), ctr'[n].atObs > 0 PROVE FALSE
          OBVIOUS
        <4>1. w.members[n].listed
          BY <1>3, <1>5 DEF PassInv, Says
        <4>2. ~Kept(Delete(ctr[n]))
          BY DeleteEffect DEF TypeOK
        <4> QED BY <1>1, <2>2, <4>1, <4>2 DEF Listed
      <3>3. Says(w'.members[n], w'.ver[n], ctr'[n])
        BY <3>2 DEF Says
      <3> QED BY <1>1, <1>2, <1>5, <3>1, <3>3, Numbers DEF PassInv
    <2> QED BY <2>1, <2>2
  <1> QED BY <1>1, <1>2, <1>4, <1>5, <1>6 DEF HashInv

\* A container built from the working copy, under an entry h that is the hash
\* it was created beside or the version it was built from.
LEMMA BuiltSays ==
    ASSUME NEW m \in Names, NEW c, NEW r, NEW v \in Nat, Built(c, m),
           w.ver[m] \in Nat, w.members[m].hash \in Nat, w.gen \in Nat, w.ver[m] > 0,
           r.hash = w.members[m].hash, w.members[m].hash <= w.gen,
           v \in {0, w.ver[m]} \/ v > w.gen
    PROVE  Says(r, v, c)
  BY DEF Built, Says

LEMMA MemberHash ==
    ASSUME TypeOK, ShapeInv, HashInv, Recorded, NEW m \in Names, ReconcileMember(m)
    PROVE  HashInv'
  <1>1. MemberStep(m)
    BY MemberEffect
  <1>2. /\ UNCHANGED <<api, env, base>> /\ pc = "members" /\ pc' = "members"
        /\ m \in todo /\ todo' = todo \ {m}
        /\ w'.members[m].listed /\ w'.gen = w.gen /\ w'.ver = w.ver
        /\ \A n \in Names \ {m} : ctr'[n] = ctr[n] /\ w'.members[n] = w.members[n]
    BY <1>1 DEF MemberStep, Touches, kube
  <1>3. /\ base.members = api.members /\ w.gen <= api.gen
        /\ \A n \in Names : CRInv(n) /\ PassInv(n)
    BY <1>2 DEF HashInv, Passing
  <1>4. \A n \in Names \ {m} : CRInv(n)' /\ PassInv(n)'
    BY <1>2, <1>3 DEF CRInv, PassInv
  <1>5. w.ver[m] > 0 /\ w.members[m] = api.members[m]
    BY <1>2, <1>3 DEF ShapeInv, Desired, PassInv
  <1>6. w'.members[m].hash \in {w.members[m].hash, w.ver[m]}
    BY <1>1 DEF MemberStep
  <1>0. "detect" \notin env.faults
    BY DEF Recorded
  <1>7. Says(api.members[m], api.ver[m], ctr'[m])
    <2>1. CASE Built(ctr'[m], m)
      BY <1>3, <1>5, <2>1, BuiltSays, Numbers DEF PassInv
    <2>2. CASE Undone(ctr'[m], m) \/ ~Kept(ctr'[m])
      BY <1>3, <2>2, SaysKept DEF CRInv, Undone
    <2> QED BY <1>0, <1>1, <1>3, <2>1, <2>2 DEF MemberStep, CRInv
  <1>8. Says(w'.members[m], w.ver[m], ctr'[m])
    <2>1. CASE Built(ctr'[m], m)
      BY <1>5, <1>6, <2>1, Numbers DEF Says, Built
    <2>2. CASE ~Kept(ctr'[m])
      BY <2>2 DEF Says
    <2>3. CASE w'.members[m].hash = w.members[m].hash /\ ctr'[m] = ctr[m]
      BY <1>3, <2>3 DEF PassInv, Says
    <2>4. CASE /\ w'.members[m].hash = w.ver[m]
               /\ Undone(ctr'[m], m) /\ ~memberSpecChanged(w, m)
      <3>1. Says(w.members[m], w.ver[m], ctr[m])
        BY <1>3 DEF PassInv
      <3> QED BY <1>5, <2>4, <3>1, Numbers DEF Undone, memberSpecChanged, Says
    <2> QED BY <1>0, <1>1, <2>1, <2>2, <2>3, <2>4 DEF MemberStep
  <1>9. CRInv(m)'
    BY <1>2, <1>3, <1>7 DEF CRInv
  <1>10. PassInv(m)'
    BY <1>2, <1>3, <1>6, <1>8 DEF PassInv
  <1> QED BY <1>2, <1>3, <1>4, <1>9, <1>10 DEF HashInv

LEMMA EndHash ==
    ASSUME TypeOK, ShapeInv, HashInv, Recorded,
           Summarise \/ PatchStatus \/ HandleDelete \/ RemoveFinalizer
    PROVE  HashInv'
  <1>1. CASE Summarise
    <2>1. /\ UNCHANGED <<api, env, ctr, base, todo>> /\ pc = "members" /\ pc' = "patch"
          /\ todo = {} /\ w'.gen = w.gen /\ w'.ver = w.ver
          /\ \A n \in Names : /\ w'.members[n].hash = w.members[n].hash
                              /\ w'.members[n].listed = w.members[n].listed
      BY <1>1, SummariseEffect DEF Summarise, kube, world
    <2>2. \A n \in Names : CRInv(n)'
      BY <2>1, QuietHash
    <2>3. ASSUME NEW n \in Names, PassInv(n) PROVE PassInv(n)'
      BY <2>1, <2>3 DEF PassInv, Says
    <2> QED BY <2>1, <2>2, <2>3 DEF HashInv, Passing
  <1>2. CASE PatchStatus
    <2>1. UNCHANGED <<env, ctr>> /\ pc = "patch" /\ pc' = "idle"
      BY <1>2, PatchStatusEffect DEF world, Ended
    <2>2. CASE /\ api'.gen = api.gen /\ api'.ver = api.ver
               /\ base.members = api.members => api'.members = w.members
      <3>1. /\ api'.members = w.members /\ w.gen <= api.gen
            /\ \A n \in Names : CRInv(n) /\ PassInv(n)
        BY <2>1, <2>2 DEF HashInv, Passing
      <3>2. ASSUME NEW n \in Names PROVE CRInv(n)'
        <4>1. Says(w.members[n], api.ver[n], ctr[n])
          BY <3>1, Numbers DEF PassInv, Says
        <4> QED BY <2>1, <2>2, <3>1, <4>1, Numbers DEF CRInv, PassInv
      <3> QED BY <2>1, <3>2 DEF HashInv, Passing
    <2>3. CASE UNCHANGED api
      BY <2>1, <2>3, QuietHash DEF Passing
    <2> QED BY <1>2, <2>2, <2>3, PatchStatusEffect
  <1>3. CASE HandleDelete
    <2>1. /\ UNCHANGED <<api, env>> /\ pc' = "unfinalize"
          /\ \A n \in Names : ctr'[n] = ctr[n] \/ ctr'[n] = Delete(ctr[n])
      BY <1>3, HandleDeleteEffect DEF kube
    <2>2. \A n \in Names : Kept(ctr'[n]) => Kept(ctr[n]) /\ ctr'[n] = ctr[n]
      BY <2>1, DeletedKept
    <2> QED BY <2>1, <2>2, QuietHash DEF Passing
  <1>4. CASE RemoveFinalizer
    <2>1. /\ UNCHANGED <<env, ctr>> /\ pc' = "idle"
          /\ api'.gen = api.gen /\ api'.ver = api.ver /\ api'.members = api.members
      BY <1>4, RemoveFinalizerEffect DEF world, Ended
    <2> QED BY <2>1, QuietHash DEF Passing
  <1> QED BY <1>1, <1>2, <1>3, <1>4

LEMMA HashNext == ASSUME TypeOK, ShapeInv, HashInv, [Next]_vars PROVE HashInv'
  <1>1. CASE ~Recorded
    BY <1>1, EnvKept DEF HashInv, Recorded
  <1>2. CASE Recorded /\ UNCHANGED vars
    BY <1>2 DEF HashInv, Recorded, CRInv, PassInv, vars
  <1>3. CASE Recorded /\ Next
    BY <1>3, OutsideHash, StartHash, CleanStaleHash, MemberHash, EndHash DEF Next, Reconcile
  <1> QED BY <1>1, <1>2, <1>3

-----------------------------------------------------------------------------
(***************************************************************************)
(* The properties.                                                         *)
(***************************************************************************)
TeamInv == TypeOK /\ ShapeInv /\ CalmInv /\ HashInv

LEMMA TeamInvariant == Spec => []TeamInv
  <1>1. Init => TeamInv
    BY InitType, InitInv DEF TeamInv
  <1>2. TeamInv /\ [Next]_vars => TeamInv'
    BY NextType, ShapeNext, CalmNext, HashNext DEF TeamInv
  <1> QED BY <1>1, <1>2, PTL DEF Spec

\* Whatever passes fail and wherever they stop, as long as they start from the
\* current Team, find the backend, see no version come back and no cleanup
\* fail: a member whose status.members[].specHash
\* is its spec's has a container built from that spec, although the status
\* patch replaces the whole members array and the container phase runs before
\* the hash is stored (team_controller.go, Steps 3 to 6).
THEOREM RecordedIsBuilt == Spec => []HashMeansCurrent
  <1>1. TeamInv => HashMeansCurrent
    BY DEF TeamInv, HashInv, CRInv, Says, HashMeansCurrent, HashAlwaysCurrent, Live
  <1> QED BY <1>1, TeamInvariant, PTL

\* When no status patch and no cleanup is lost, every kept container is named
\* by the spec, the status or the pass that is running, under a finalizer that
\* keeps the Team: the stale members of a pass and handleDelete's union of
\* status and spec reach all of them (team_controller.go).
THEOREM NoMemberOrphan == Spec => []MembersTracked
  <1>1. TeamInv => MembersTracked
    <2> SUFFICES ASSUME TeamInv, Calm, NEW m \in Names, Kept(ctr[m])
                 PROVE  api.exists /\ api.fin /\ Tracked(m)
      BY DEF MembersTracked
    <2>1. api.exists /\ api.fin /\ Record(m).listed
      BY DEF TeamInv, CalmInv, Entry
    <2>2. Tracked(m)
      BY <2>1 DEF Record, Passing, Tracked, Listed
    <2> QED BY <2>1, <2>2
  <1> QED BY <1>1, TeamInvariant, PTL

\* A pass keeps a running container of the version it reconciles: the hash
\* beside it is that version, whatever else of the Team was edited
\* (memberSpecChanged, ensureMemberContainerPresent).
LEMMA PeerKept ==
    ASSUME TeamInv, Calm, NEW m \in Names, ReconcileMember(m),
           ctr[m].st = "running", ctr[m].gen = w.ver[m]
    PROVE  ctr'[m] = ctr[m] \/ m \in errs'
  <1>1. TypeOK /\ ctr[m] \in Container /\ pc = "members"
    BY DEF TeamInv, TypeOK, ReconcileMember
  <1>2. CASE m \in errs'
    BY <1>2
  <1>3. CASE \E c \in ContainerPresent(m) : ctr' = [ctr EXCEPT ![m] = c]
    <2>1. ctr'[m] \in ContainerPresent(m)
      BY <1>1, <1>3 DEF TypeOK
    <2>2. Status(ctr[m]) = "running"
      BY DEF Status
    <2>3. CASE Kept(ctr[m])
      <3>1. w.members[m].hash = w.ver[m]
        BY <1>1, <2>3 DEF TeamInv, CalmInv, Entry, Record, Passing
      <3>2. Decision(m) = "keep"
        BY <2>2, <3>1 DEF Decision, memberSpecChanged
      <3> QED BY <2>1, <3>2 DEF ContainerPresent
    <2>4. CASE ~Kept(ctr[m])
      <3>1. ctr[m].term /\ BackendKind # "docker"
        BY <1>1, <2>4 DEF TeamInv, ShapeInv, Kept
      <3>2. Delete(ctr[m]) = ctr[m]
        BY <1>1, <3>1 DEF Delete, Container
      <3>3. Decision(m) = "keep" \/ ctr'[m] = ctr[m]
        BY <2>1, <2>2, <3>1, <3>2 DEF Decision, ContainerPresent, Create
      <3> QED BY <2>1, <3>3 DEF ContainerPresent
    <2> QED BY <2>3, <2>4
  <1>4. CASE UNCHANGED ctr
    BY <1>4
  <1> QED BY <1>2, <1>3, <1>4 DEF ReconcileMember

\* In such passes a member's running container of the current version is left
\* alone whatever happens to its peers: no edit of one member, no phase of the
\* Team and no error of another recreates it (reconcileMember with the hash of
\* memberSpecChanged, team_controller.go).
THEOREM PeersKept == Spec => PeersUndisturbed
  <1>1. TeamInv /\ [Next]_vars =>
           [Calm => \A m \in Names :
              ReconcileMember(m) /\ ctr[m].st = "running" /\ ctr[m].gen = w.ver[m]
                 => ctr'[m] = ctr[m] \/ m \in errs']_vars
    BY PeerKept
  <1> QED BY <1>1, TeamInvariant, PTL DEF Spec, PeersUndisturbed
=============================================================================
