---------------------------- MODULE DeployProofs ----------------------------
(***************************************************************************)
(* Proofs about the deployment of a worker (Deploy) and the files that the *)
(* reconcilers share meanwhile (LegacyFiles), for every set of specs and   *)
(* every bound.                                                            *)
(***************************************************************************)
EXTENDS Deploy, TLAPS

\* LegacyCompat.mu: whoever is in a call holds it.
Serialised == \A c \in Callers : call[c] # Idle => mu = c

\* Reads tell the truth and nobody writes past the mutex.
Trusted == "read" \notin env.faults /\ ~env.race

\* What a write is computed from is what the file still holds.
SeenIsCurrent ==
    \A c \in Callers : Trusted /\ call[c].at = "write" =>
       IF OnConfig(call[c].op) THEN call[c].seen.conf = conf
                               ELSE call[c].seen.rows = rows[call[c].op.file]

\* The inductive invariant: an operation on a registry names one.
LegacyInv ==
    /\ LegacyTypeOK /\ Serialised /\ SeenIsCurrent
    /\ \A c \in Callers :
          call[c] # Idle /\ ~OnConfig(call[c].op) => call[c].op.file \in Registries

\* The entry an operation is about.
Mine(op) == IF op.kind = "put" THEN {} ELSE {op.id}

\* A reconciler's write: it changes its own entry of one file.
WriteIsOwn(c) ==
    LET mine == Mine(call[c].op)
    IN /\ conf'.allow \ mine = conf.allow \ mine
       /\ conf.custom => conf'.custom
       /\ \A f \in Registries : rows'[f] \ mine = rows[f] \ mine

-----------------------------------------------------------------------------
(***************************************************************************)
(* The operations of LegacyFiles.                                          *)
(***************************************************************************)
LEMMA Starting ==
    /\ Nothing \in [conf : Config, rows : SUBSET Ids]
    /\ Idle.at = "idle" /\ \A k \in Call : k # Idle /\ k.at # "idle"
  BY DEF Nothing, NoConfig, Config, Idle, Call

\* The others are in no call while one is.
LEMMA OthersIdle ==
    ASSUME LegacyInv, NEW c \in Callers, call[c] # Idle
    PROVE  /\ mu = c /\ call[c] \in Call
           /\ \A d \in Callers \ {c} : call[d] = Idle
  BY DEF LegacyInv, LegacyTypeOK, Serialised

\* The mutex is taken by one caller at a time.
LEMMA EnterKeeps ==
    ASSUME LegacyInv, NEW c \in Callers, NEW op \in Op, Enter(c, op), env' = env,
           ~OnConfig(op) => op.file \in Registries
    PROVE  LegacyInv'
  <1> DEFINE new == [at |-> "read", op |-> op, seen |-> Nothing]
  <1>1. new \in Call /\ new.at = "read" /\ new.op = op
    BY Starting DEF Call
  <1>2. /\ call \in [Callers -> {Idle} \cup Call]
        /\ call' = [call EXCEPT ![c] = new] /\ mu = Nobody /\ mu' = c
        /\ conf' = conf /\ rows' = rows
    BY DEF Enter, LegacyInv, LegacyTypeOK
  <1>3. \A d \in Callers : call[d] = Idle
    BY <1>2, LegacyAssumption DEF LegacyInv, Serialised
  <1>4. \A d \in Callers : call'[d] = IF d = c THEN new ELSE Idle
    BY <1>2, <1>3
  <1>5. LegacyTypeOK'
    BY <1>1, <1>2 DEF LegacyInv, LegacyTypeOK
  <1>6. Serialised' /\ SeenIsCurrent'
    BY <1>1, <1>2, <1>4, Starting DEF Serialised, SeenIsCurrent
  <1>7. \A d \in Callers : call'[d] # Idle /\ ~OnConfig(call'[d].op)
                              => call'[d].op.file \in Registries
    BY <1>1, <1>4
  <1> QED BY <1>5, <1>6, <1>7 DEF LegacyInv

\* The mutex is released, whatever was written meanwhile.
LEMMA ReturnKeeps ==
    ASSUME LegacyInv, NEW c \in Callers, call[c] # Idle, Return(c), env' = env,
           conf' \in Config, rows' \in [Registries -> SUBSET Ids]
    PROVE  LegacyInv'
  <1>1. mu = c /\ \A d \in Callers \ {c} : call[d] = Idle
    BY OthersIdle
  <1>2. call \in [Callers -> {Idle} \cup Call] /\ call' = [call EXCEPT ![c] = Idle] /\ mu' = Nobody
    BY <1>1 DEF Return, LegacyInv, LegacyTypeOK
  <1>3. \A d \in Callers : call'[d] = Idle
    BY <1>1, <1>2
  <1>4. LegacyTypeOK'
    BY <1>2 DEF LegacyInv, LegacyTypeOK
  <1> QED BY <1>3, <1>4, Starting DEF LegacyInv, Serialised, SeenIsCurrent

\* A read that does not fail sees the file.
LEMMA SeenIs ==
    ASSUME LegacyInv, NEW op \in Op, NEW failed \in BOOLEAN,
           ~OnConfig(op) => op.file \in Registries
    PROVE  /\ Seen(op, failed) \in [conf : Config, rows : SUBSET Ids]
           /\ ~failed => IF OnConfig(op) THEN Seen(op, failed).conf = conf
                                         ELSE Seen(op, failed).rows = rows[op.file]
  <1>1. conf \in Config /\ rows \in [Registries -> SUBSET Ids]
    BY DEF LegacyInv, LegacyTypeOK
  <1>2. CASE failed
    BY <1>2, Starting DEF Seen
  <1>3. CASE ~failed /\ OnConfig(op)
    BY <1>1, <1>3, Starting DEF Seen
  <1>4. CASE ~failed /\ ~OnConfig(op)
    BY <1>1, <1>4, Starting DEF Seen
  <1> QED BY <1>2, <1>3, <1>4

\* A read under the mutex stays true until the write.
LEMMA ReadKeeps ==
    ASSUME LegacyInv, NEW c \in Callers, NEW failed \in BOOLEAN, Read(c, failed), env' = env,
           failed => "read" \in env.faults
    PROVE  LegacyInv'
  <1>1. call[c] # Idle /\ conf' = conf /\ rows' = rows
    BY Starting DEF Read
  <1>2. /\ mu = c /\ call[c] \in Call /\ \A d \in Callers \ {c} : call[d] = Idle
        /\ conf \in Config /\ rows \in [Registries -> SUBSET Ids]
        /\ call \in [Callers -> {Idle} \cup Call]
    BY <1>1, OthersIdle DEF LegacyInv, LegacyTypeOK
  <1> DEFINE s == Seen(call[c].op, failed)
             new == [call[c] EXCEPT !.at = "write", !.seen = s]
  <1>3. CASE Return(c)
    BY <1>1, <1>2, <1>3, ReturnKeeps
  <1>4. CASE call' = [call EXCEPT ![c].at = "write", ![c].seen = s] /\ mu' = mu
    <2>1. call[c].op \in Op /\ (~OnConfig(call[c].op) => call[c].op.file \in Registries)
      BY <1>1, <1>2 DEF Call, LegacyInv
    <2>2. /\ s \in [conf : Config, rows : SUBSET Ids]
          /\ ~failed => IF OnConfig(call[c].op) THEN s.conf = conf
                                                ELSE s.rows = rows[call[c].op.file]
      BY <2>1, SeenIs
    <2>3. new \in Call /\ new.seen = s /\ new.op = call[c].op
      BY <1>2, <2>2 DEF Call
    <2>4. call' = [call EXCEPT ![c] = new]
      BY <1>2, <1>4
    <2>5. \A d \in Callers : call'[d] = IF d = c THEN new ELSE Idle
      BY <1>2, <2>4
    <2>6. LegacyTypeOK'
      BY <1>1, <1>2, <1>4, <2>3, <2>4 DEF LegacyInv, LegacyTypeOK
    <2>7. Serialised'
      BY <1>2, <1>4, <2>5 DEF Serialised
    <2>8. SeenIsCurrent'
      BY <1>1, <2>2, <2>3, <2>5, Starting DEF SeenIsCurrent, Trusted, OnConfig
    <2>9. \A d \in Callers : call'[d] # Idle /\ ~OnConfig(call'[d].op)
                                => call'[d].op.file \in Registries
      BY <2>1, <2>3, <2>5
    <2> QED BY <2>6, <2>7, <2>8, <2>9 DEF LegacyInv
  <1> QED BY <1>3, <1>4 DEF Read

\* What a write leaves in the file is of its type and, if the file was still
\* what had been read, differs in the writer's entry only.
LEMMA NewIsOwn ==
    ASSUME NEW op \in Op, NEW old \in Config, NEW ids \in SUBSET Ids
    PROVE  /\ OnConfig(op) =>
                 /\ NewConfig(op, old) \in Config
                 /\ NewConfig(op, old).allow \ Mine(op) = old.allow \ Mine(op)
                 /\ old.custom => NewConfig(op, old).custom
           /\ ~OnConfig(op) =>
                 /\ NewRows(op, ids) \in SUBSET Ids
                 /\ NewRows(op, ids) \ Mine(op) = ids \ Mine(op)
  <1>1. CASE op.kind = "put"
    BY <1>1 DEF Op, OnConfig, Mine, NewConfig, MergedConfig, Config
  <1>2. CASE op.kind = "allow"
    BY <1>2 DEF Op, OnConfig, Mine, NewConfig, Config
  <1>3. CASE op.kind = "deny"
    BY <1>3 DEF Op, OnConfig, Mine, NewConfig, Config
  <1>4. CASE op.kind \in {"upsert", "remove"}
    BY <1>4 DEF Op, OnConfig, Mine, NewRows
  <1> QED BY <1>1, <1>2, <1>3, <1>4 DEF Op

LEMMA StoreKeeps ==
    ASSUME LegacyInv, NEW c \in Callers, NEW failed \in BOOLEAN, Store(c, failed), env' = env
    PROVE  LegacyInv' /\ (Trusted => WriteIsOwn(c))
  <1>1. call[c] # Idle /\ call[c].at = "write" /\ Return(c)
    BY Starting DEF Store
  <1>2. /\ call[c].op \in Op /\ call[c].seen.conf \in Config /\ call[c].seen.rows \in SUBSET Ids
        /\ conf \in Config /\ rows \in [Registries -> SUBSET Ids]
        /\ ~OnConfig(call[c].op) => call[c].op.file \in Registries
    BY <1>1, OthersIdle DEF LegacyInv, LegacyTypeOK, Call
  <1>3. Trusted => IF OnConfig(call[c].op) THEN call[c].seen.conf = conf
                                           ELSE call[c].seen.rows = rows[call[c].op.file]
    BY <1>1 DEF LegacyInv, SeenIsCurrent
  <1> DEFINE op == call[c].op
  <1>4. CASE failed
    <2>1. conf' = conf /\ rows' = rows
      BY <1>4 DEF Store
    <2> QED BY <1>1, <1>2, <2>1, ReturnKeeps DEF WriteIsOwn
  <1>5. CASE ~failed /\ OnConfig(op)
    <2>1. conf' = NewConfig(op, call[c].seen.conf) /\ rows' = rows
      BY <1>5 DEF Store
    <2>2. /\ conf' \in Config
          /\ conf'.allow \ Mine(op) = call[c].seen.conf.allow \ Mine(op)
          /\ call[c].seen.conf.custom => conf'.custom
      BY <1>2, <1>5, <2>1, NewIsOwn
    <2>3. LegacyInv'
      BY <1>1, <1>2, <2>1, <2>2, ReturnKeeps
    <2> QED BY <1>3, <1>5, <2>1, <2>2, <2>3 DEF WriteIsOwn
  <1>6. CASE ~failed /\ ~OnConfig(op)
    <2>1. conf' = conf /\ rows' = [rows EXCEPT ![op.file] = NewRows(op, call[c].seen.rows)]
      BY <1>6 DEF Store
    <2>2. /\ NewRows(op, call[c].seen.rows) \in SUBSET Ids
          /\ NewRows(op, call[c].seen.rows) \ Mine(op) = call[c].seen.rows \ Mine(op)
      BY <1>2, <1>6, NewIsOwn
    <2>3. LegacyInv'
      BY <1>1, <1>2, <2>1, <2>2, ReturnKeeps
    <2>4. ASSUME Trusted, NEW f \in Registries PROVE rows'[f] \ Mine(op) = rows[f] \ Mine(op)
      BY <1>2, <1>3, <1>6, <2>1, <2>2, <2>4
    <2> QED BY <2>1, <2>3, <2>4 DEF WriteIsOwn
  <1> QED BY <1>4, <1>5, <1>6

\* A restarted process has no call in progress.
LEMMA CrashKeeps == ASSUME LegacyInv, LegacyCrash, env' = env PROVE LegacyInv'
  BY Starting DEF LegacyInv, LegacyTypeOK, Serialised, SeenIsCurrent, LegacyCrash

\* The user customises the Manager while nobody is in a call, or races one.
LEMMA CustomiseKeeps ==
    ASSUME LegacyInv, CustomiseManager, env.race \/ mu = Nobody, env' = env
    PROVE  LegacyInv'
  <1>1. LegacyTypeOK'
    BY DEF LegacyInv, LegacyTypeOK, CustomiseManager, Config
  <1>2. CASE env.race
    BY <1>1, <1>2 DEF LegacyInv, Serialised, SeenIsCurrent, Trusted, CustomiseManager
  <1>3. CASE mu = Nobody
    <2>1. \A c \in Callers : call[c] = Idle
      BY <1>3, LegacyAssumption DEF LegacyInv, Serialised
    <2> QED BY <1>1, <2>1, Starting
            DEF LegacyInv, Serialised, SeenIsCurrent, CustomiseManager
  <1> QED BY <1>2, <1>3

-----------------------------------------------------------------------------
(***************************************************************************)
(* The steps of Deploy.                                                    *)
(***************************************************************************)
LEMMA QuietKeeps == ASSUME LegacyInv, UNCHANGED <<env, legacy>> PROVE LegacyInv'
  BY DEF legacy, LegacyInv, LegacyTypeOK, Serialised, SeenIsCurrent, Trusted

\* What a step does to the shared files.
LegacyActs ==
    \/ UNCHANGED legacy
    \/ \E c \in Callers, op \in Op :
          (~OnConfig(op) => op.file \in Registries) /\ Enter(c, op)
    \/ \E c \in Callers, failed \in BOOLEAN :
          (failed => "read" \in env.faults) /\ Read(c, failed)
    \/ \E c \in Callers, failed \in BOOLEAN : Store(c, failed)
    \/ LegacyCrash
    \/ CustomiseManager /\ (env.race \/ mu = Nobody)

\* A call of the worker's pass, with an operation that is one.
LEMMA WorkerCalls ==
    ASSUME NEW from, NEW wait, NEW to, NEW op \in Op, ~OnConfig(op) => op.file \in Registries,
           LegacyStep(from, wait, to, op)
    PROVE  LegacyActs /\ env' = env
  <1>1. "worker" \in Callers
    BY NamesAssumption
  <1> QED BY <1>1 DEF LegacyStep, LegacyActs, resource

LEMMA PassActs == Pass => LegacyActs /\ env' = env
  <1> SUFFICES ASSUME Pass PROVE LegacyActs /\ env' = env
    OBVIOUS
  <1>1. CRName \in Ids /\ RuntimeName \in Ids /\ "workers" \in Registries
    BY NamesAssumption DEF CRName, RuntimeName
  <1>2. CASE Allow
    <2>1. [kind |-> "allow", file |-> "openclaw.json", id |-> RuntimeName] \in Op
      BY <1>1 DEF Op
    <2> QED BY <1>2, <2>1, WorkerCalls DEF Allow, OnConfig
  <1>3. CASE Row
    <2>1. [kind |-> "upsert", file |-> "workers", id |-> RuntimeName] \in Op
      BY <1>1 DEF Op
    <2> QED BY <1>1, <1>3, <2>1, WorkerCalls DEF Row
  <1>4. CASE Deny
    <2>1. [kind |-> "deny", file |-> "openclaw.json",
           id |-> IF Leader THEN RuntimeName ELSE CRName] \in Op
      BY <1>1 DEF Op
    <2> QED BY <1>4, <2>1, WorkerCalls DEF Deny, OnConfig
  <1>5. CASE Unrow
    <2>1. [kind |-> "remove", file |-> "workers", id |-> RuntimeName] \in Op
      BY <1>1 DEF Op
    <2> QED BY <1>1, <1>5, <2>1, WorkerCalls DEF Unrow
  <1>6. CASE Begin \/ Infra \/ Resolve \/ Download \/ Package \/ Inline \/ SeedLocal
             \/ GetOpenClaw \/ PutOpenClaw \/ PutSoul \/ GetAgents \/ PutAgents
    BY <1>6 DEF Begin, ReadsCache, Infra, Resolve, Download, Package, Inline, SeedLocal, GetOpenClaw,
       PutOpenClaw, PutSoul, GetAgents, PutAgents, LegacyActs, resource
  <1>7. CASE Container \/ Expose \/ GetContext \/ PutContext \/ End \/ BeginDelete
             \/ Unexpose \/ Cleanup \/ Unfinalize \/ AddFinalizer
    BY <1>7 DEF Container, Expose, GetContext, PutContext, End, BeginDelete, ReadsCache, Unexpose,
       Cleanup, Unfinalize, AddFinalizer, LegacyActs, resource
  <1> QED BY <1>2, <1>3, <1>4, <1>5, <1>6, <1>7 DEF Pass

LEMMA OtherActs == Others => LegacyActs /\ env' = env
  <1> SUFFICES ASSUME Others PROVE LegacyActs /\ env' = env
    OBVIOUS
  <1>1. "manager" \in Callers /\ "team" \in Callers /\ "leader" \in Ids
    BY NamesAssumption
  <1>2. env' = env
    BY DEF Others, resource
  <1>3. CASE Enter("manager", [kind |-> "put", file |-> "openclaw.json", id |-> "leader"])
    <2>1. [kind |-> "put", file |-> "openclaw.json", id |-> "leader"] \in Op
      BY <1>1 DEF Op
    <2> QED BY <1>1, <1>2, <1>3, <2>1 DEF LegacyActs, OnConfig
  <1>4. ASSUME NEW k \in {"allow", "deny"},
               Enter("team", [kind |-> k, file |-> "openclaw.json", id |-> "leader"])
        PROVE  LegacyActs
    <2>1. [kind |-> k, file |-> "openclaw.json", id |-> "leader"] \in Op
      BY <1>1 DEF Op
    <2> QED BY <1>1, <1>4, <2>1 DEF LegacyActs, OnConfig
  <1>5. ASSUME NEW k \in {"upsert", "remove"}, NEW f \in Registries,
               Enter("team", [kind |-> k, file |-> f, id |-> "leader"])
        PROVE  LegacyActs
    <2>1. [kind |-> k, file |-> f, id |-> "leader"] \in Op
      BY <1>1 DEF Op
    <2> QED BY <1>1, <1>5, <2>1 DEF LegacyActs
  <1> QED BY <1>2, <1>3, <1>4, <1>5 DEF Others

LEMMA StepActs == [Next]_vars => LegacyActs /\ env' = env
  <1> SUFFICES ASSUME [Next]_vars PROVE LegacyActs /\ env' = env
    OBVIOUS
  <1>1. CASE UNCHANGED vars
    BY <1>1 DEF vars, legacy, LegacyActs
  <1>2. CASE Pass
    BY <1>2, PassActs
  <1>3. ASSUME NEW c \in Callers, ReadFile(c) PROVE LegacyActs /\ env' = env
    BY <1>3 DEF ReadFile, Fault, LegacyActs, resource
  <1>4. ASSUME NEW c \in Callers, StoreFile(c) PROVE LegacyActs /\ env' = env
    BY <1>4 DEF StoreFile, LegacyActs, resource
  <1>5. CASE Others
    BY <1>5, OtherActs
  <1>6. CASE Edit \/ Remove \/ Deliver
    BY <1>6 DEF Edit, Remove, Deliver, LegacyActs
  <1>7. CASE AgentWrites
    BY <1>7 DEF AgentWrites, LegacyActs
  <1>8. CASE Crash
    BY <1>8 DEF Crash, LegacyActs, resource
  <1> QED BY <1>1, <1>2, <1>3, <1>4, <1>5, <1>6, <1>7, <1>8 DEF Next, Calls

LEMMA InitEstablishes == Init => LegacyInv
  BY Starting DEF Init, LegacyInit, LegacyInv, LegacyTypeOK, Serialised, SeenIsCurrent,
     Config, NoConfig

\* The step that ends the write of c is that write, or a restart.
LEMMA StepKeeps ==
    ASSUME LegacyInv, [Next]_vars
    PROVE  /\ LegacyInv'
           /\ \A c \in Callers : Trusted /\ call[c].at = "write" /\ call'[c] = Idle
                                    => WriteIsOwn(c)
  <1> DEFINE Ends(c) == Trusted /\ call[c].at = "write" /\ call'[c] = Idle
             Good == LegacyInv' /\ \A c \in Callers : Ends(c) => WriteIsOwn(c)
  <1> SUFFICES Good
    OBVIOUS
  <1>1. LegacyActs /\ env' = env /\ call \in [Callers -> {Idle} \cup Call]
    BY StepActs DEF LegacyInv, LegacyTypeOK
  <1>2. ASSUME LegacyInv', conf' = conf, rows' = rows PROVE Good
    BY <1>2 DEF WriteIsOwn
  <1>3. CASE UNCHANGED legacy
    BY <1>1, <1>2, <1>3, QuietKeeps DEF legacy
  <1>4. ASSUME NEW c \in Callers, NEW op \in Op, ~OnConfig(op) => op.file \in Registries,
               Enter(c, op)
        PROVE  Good
    BY <1>1, <1>2, <1>4, EnterKeeps DEF Enter
  <1>5. ASSUME NEW c \in Callers, NEW failed \in BOOLEAN, failed => "read" \in env.faults,
               Read(c, failed)
        PROVE  Good
    BY <1>1, <1>2, <1>5, ReadKeeps DEF Read
  <1>6. ASSUME NEW c \in Callers, NEW failed \in BOOLEAN, Store(c, failed)
        PROVE  Good
    <2>1. LegacyInv' /\ (Trusted => WriteIsOwn(c))
      BY <1>1, <1>6, StoreKeeps
    <2>2. \A d \in Callers \ {c} : call'[d] = call[d]
      BY <1>1, <1>6 DEF Store, Return
    <2>3. \A d \in Callers : Ends(d) => d = c
      BY <2>2, Starting
    <2> QED BY <2>1, <2>3
  <1>7. CASE LegacyCrash
    BY <1>1, <1>2, <1>7, CrashKeeps DEF LegacyCrash
  <1>8. CASE CustomiseManager /\ (env.race \/ mu = Nobody)
    <2>1. LegacyInv'
      BY <1>1, <1>8, CustomiseKeeps
    <2>2. call' = call
      BY <1>8 DEF CustomiseManager
    <2>3. \A c \in Callers : ~Ends(c)
      BY <2>2, Starting
    <2> QED BY <2>1, <2>3
  <1> QED BY <1>1, <1>3, <1>4, <1>5, <1>6, <1>7, <1>8 DEF LegacyActs

\* No reconciler loses another one's row or right to speak to the Manager:
\* the mutex covers the read and the write of the whole file (legacy.go).
THEOREM EntriesKept == Spec => OthersEntriesKept
  <1>1. Init => LegacyInv
    BY InitEstablishes
  <1>2. LegacyInv /\ [Next]_vars => LegacyInv'
    BY StepKeeps
  <1>3. LegacyInv /\ [Next]_vars =>
          [\A c \in Callers :
             /\ "read" \notin env.faults /\ ~env.race
             /\ call[c].at = "write"
             /\ call'[c] = Idle
             => LET mine == IF call[c].op.kind = "put" THEN {} ELSE {call[c].op.id}
                IN /\ conf'.allow \ mine = conf.allow \ mine
                   /\ conf.custom => conf'.custom
                   /\ \A f \in Registries : rows'[f] \ mine = rows[f] \ mine]_vars
    BY StepKeeps DEF Trusted, WriteIsOwn, Mine
  <1> QED BY <1>1, <1>2, <1>3, PTL DEF Spec, OthersEntriesKept

-----------------------------------------------------------------------------
(***************************************************************************)
(* Types, and where the pass is.                                           *)
(***************************************************************************)
Sight == [openclaw : OpenClaw, agents : AgentsMD]

Local == [soul : Authors, other : {"absent", "package"}]

\* TypeOK but for the shared files.
DeployTypes ==
    /\ env \in Env
    /\ api \in Resource /\ cache \in Resource /\ watch \subseteq Resource
    /\ pc \in Steps \cup {"idle"}
    /\ work \in Work
    /\ seen \in Sight
    /\ archive \in {"none", "partial", "whole"}
    /\ local \in Local
    /\ store \in Files
    /\ gateway \subseteq {"cr", "runtime"} \X Ports
    /\ edits \in 0..MaxEdits
    /\ writes \in 0..MaxWrites
    /\ faults \in 0..MaxFaults
    /\ recorded \in BOOLEAN

\* Before openclaw.json is written; after that; while the worker is deleted.
Early == {"infra", "resolve", "download", "package", "inline", "seed", "openclaw",
          "openclaw.put"}

Late == {"soul", "agents", "agents.put", "container", "expose", "context", "context.put",
         "allow", "allow.wait", "row", "row.wait", "end"}

Deleting == {"unexpose", "cleanup", "deny", "deny.wait", "unrow", "unrow.wait", "unfinalize"}

Waits == {"allow.wait", "row.wait", "deny.wait", "unrow.wait"}

\* A version seen with the finalizer and unmarked is followed by others that
\* have the finalizer, until a pass has seen the mark; a mark stays.
WatchInv ==
    /\ api.fin => api.exists
    /\ cache.deleting => api.deleting /\ \A v \in watch : v.deleting
    /\ \A v \in watch : v.rv <= api.rv /\ (v.deleting => api.deleting)
    /\ \A u, v \in watch : v.deleting /\ v.rv < u.rv => u.deleting
    /\ \A v \in watch \cup {cache} : v.fin /\ ~v.deleting => api.fin

\* The pass is in a call of LegacyCompat only while it waits for it; the others
\* are about the leader; a deletion is of a marked resource; nothing is made
\* before the finalizer is there.
FlowInv ==
    /\ WatchInv
    /\ pc \notin Waits => call["worker"] = Idle
    /\ \A c \in Callers \ {"worker"} : call[c] # Idle => call[c].op.id = "leader"
    /\ pc \in Deleting => cache.deleting
    /\ pc \in (Early \cup Late) \ {"end"} => api.fin
    /\ pc \in {"context", "context.put"} => Leader
    /\ pc = "expose" => ~Leader
    /\ pc \in {"resolve", "download"} => env.package # "none"
    /\ gateway \subseteq {"cr"} \X Ports
    /\ Leader => gateway = {}

-----------------------------------------------------------------------------
(***************************************************************************)
(* The exposed ports.                                                      *)
(***************************************************************************)
\* Between ReconcileMemberExpose and the status patch.
Exposing == {"allow", "allow.wait", "row", "row.wait", "end"}

Open == {p \in Ports : <<"cr", p>> \in gateway}

PortInv ==
    /\ faults = 0 /\ archive = "partial" => pc = "download"
    /\ recorded /\ pc \in Early \cup Late \cup {"finalizer"} => work.base.status = api.status
    /\ faults = 0 /\ recorded =>
         /\ pc \in Early \cup {"soul", "agents", "agents.put", "container", "expose", "finalizer",
                          "unexpose"}
               => work.exposed = api.status.exposed
         /\ IF pc \in Exposing /\ ~Leader THEN Open \subseteq work.exposed
                                          ELSE Open \subseteq api.status.exposed

-----------------------------------------------------------------------------
(***************************************************************************)
(* Deletion.                                                               *)
(***************************************************************************)
\* What a write is computed from, as far as nothing was missed.
SeenInv ==
    /\ ~conf.here => conf.allow = {}
    /\ \A c \in Callers : call[c].at = "write" =>
          /\ call[c].op.kind \in {"allow", "deny"} => call[c].seen.conf.here
          /\ IF OnConfig(call[c].op) THEN call[c].seen.conf.allow = conf.allow
                                     ELSE call[c].seen.rows = rows[call[c].op.file]

Denied == IF Leader THEN {"unfinalize"} ELSE {"unrow", "unrow.wait", "unfinalize"}

Unrowed == IF Leader THEN {"deny", "deny.wait", "unfinalize"} ELSE {"unfinalize"}

GoneInv == faults = 0 /\ ~env.renamed =>
    /\ SeenInv
    /\ recorded /\ (~api.fin \/ pc \in Deleting \ {"unexpose"}) => gateway = {}
    /\ ~api.fin \/ pc \in Deleting \ {"unexpose", "cleanup"} => store = NoFiles
    /\ ~api.fin \/ pc \in Denied => "cr" \notin conf.allow
    /\ ~api.fin \/ pc \in Unrowed => "cr" \notin rows["workers"]
    /\ pc = "deny.wait" =>
          IF call["worker"] = Idle THEN "cr" \notin conf.allow
          ELSE call["worker"].op.kind = "deny" /\ call["worker"].op.id = "cr"
    /\ pc = "unrow.wait" =>
          IF call["worker"] = Idle THEN "cr" \notin rows["workers"]
          ELSE /\ call["worker"].op.kind = "remove" /\ call["worker"].op.id = "cr"
               /\ call["worker"].op.file = "workers"

-----------------------------------------------------------------------------
(***************************************************************************)
(* The agent's files.                                                      *)
(***************************************************************************)
\* What was read is what is there.
FreshInv == Trusted =>
    /\ pc = "agents.put" /\ work.spec.agents = "none" => seen.agents = store.agents
    /\ pc = "context.put" => seen.agents = store.agents
    /\ pc = "openclaw.put" /\ work.update => seen.openclaw = store.openclaw

\* The status says that openclaw.json was written: the next pass updates.
Ready == IF Leader THEN api.status.user ELSE api.status.phase = "Running"

ReadyInv ==
    /\ store.openclaw.custom => store.openclaw.here
    /\ pc \in Early \cup Late \cup {"finalizer"} /\ ~Leader =>
          (work.update <=> work.phase = "Running")
    /\ recorded /\ "fatal" \notin env.faults =>
          /\ pc \notin Late /\ store.openclaw.here => Ready
          /\ pc \in Early /\ store.openclaw.here => work.update
          /\ pc \in Late \cup (Early \ {"infra"}) => work.user
          /\ pc \in Early \cup Late /\ ~Leader /\ work.failed =>
                pc = "end" /\ (store.openclaw.here => work.phase = "Running")

PassInv == DeployTypes /\ FlowInv /\ PortInv /\ GoneInv /\ FreshInv /\ ReadyInv

DeployInv == LegacyInv /\ PassInv

-----------------------------------------------------------------------------
(***************************************************************************)
(* What the steps of a pass do.                                            *)
(***************************************************************************)
\* Faults are counted.
Counts == faults' \in 0..MaxFaults /\ (faults' = 0 => faults = 0)

\* Where nothing is exposed yet.
Before == Early \cup {"soul", "agents", "agents.put", "container", "expose"}

\* From one step of the normal path to the next.
Onward ==
    /\ pc \in Early \cup {"soul", "agents", "agents.put", "container", "context", "context.put"}
    /\ pc' \in (Early \ {"infra"}) \cup Late /\ pc' \notin Waits
    /\ pc \in Late => pc' \in Late
    /\ pc' \in Before => pc \in Before
    /\ pc' \in {"resolve", "download"} => env.package # "none"
    /\ pc' \in {"context", "context.put"} \cup Exposing => Leader
    /\ pc' = "expose" => ~Leader
    /\ archive' = "partial" => pc' = "download" \/ (archive = "partial" /\ pc # "download")

\* A step of the normal path that touches neither the resource nor the gateway.
Walk ==
    /\ UNCHANGED <<legacy, resource, gateway>>
    /\ work' \in Work /\ work'.exposed = work.exposed /\ work'.update = work.update
    /\ work'.failed = work.failed /\ work'.spec = work.spec /\ work'.phase = work.phase
    /\ work'.base = work.base
    /\ work'.user \/ (pc # "infra" /\ work'.user = work.user)
    /\ seen' \in Sight /\ archive' \in {"none", "partial", "whole"}
    /\ local' \in Local /\ store' \in Files
    /\ Counts /\ Onward

\* A step that fails.
Failing ==
    /\ UNCHANGED <<legacy, resource, local, store, gateway>>
    /\ pc \in Early \cup {"container"} /\ (pc = "container" => "fatal" \in env.faults)
    /\ \E user \in BOOLEAN : Fail(user) /\ (user \/ "fatal" \in env.faults)
    /\ archive' = archive \/ archive' = "none"
    /\ Counts
    /\ faults' # 0 \/ (archive = "partial" /\ pc = "resolve")

LEMMA Constants ==
    /\ MaxEdits \in Nat /\ MaxWrites \in Nat /\ MaxFaults \in Nat
    /\ Envs \subseteq Env
    /\ \A s \in Specs : /\ s.soul \in {"none", "s1", "s2"} /\ s.agents \in {"none", "a1"}
                        /\ s.expose \subseteq Ports
  BY BoundsAssumption, EnvsAssumption, SpecsAssumption

LEMMA Empty == ASSUME DeployTypes
               PROVE  NoWork \in Work /\ Unread \in Sight /\ NoFiles \in Files
  <1>1. (CHOOSE s \in Specs : TRUE) \in Specs
    <2>1. api.spec \in Specs
      BY DEF DeployTypes, Resource
    <2> QED BY <2>1
  <1>2. NoWork \in Work
    BY <1>1 DEF NoWork, Work, NoStatus, Status
  <1>3. Unread \in Sight /\ NoFiles \in Files
    BY DEF Unread, Sight, NoFiles, Files, NoOpenClaw, OpenClaw, NoAgentsMD, AgentsMD, Authors
  <1> QED BY <1>2, <1>3

LEMMA FaultCounts ==
    ASSUME DeployTypes, NEW k, NEW happens \in BOOLEAN, Fault(k, happens)
    PROVE  /\ Counts /\ (happens => k \in env.faults /\ faults' # 0)
           /\ ~happens => faults' = faults
  BY Constants DEF DeployTypes, Fault, Counts

\* The fields of what the pass has read and of what there is.
LEMMA Fields ==
    ASSUME DeployTypes
    PROVE  /\ work.spec \in Specs /\ work.update \in BOOLEAN /\ work.user \in BOOLEAN
           /\ work.exposed \subseteq Ports /\ work.failed \in BOOLEAN
           /\ work.spec.soul \in {"none", "s1", "s2"} /\ work.spec.agents \in {"none", "a1"}
           /\ work.spec.expose \subseteq Ports
           /\ seen.openclaw \in OpenClaw /\ seen.agents \in AgentsMD
           /\ seen.openclaw.custom \in BOOLEAN
           /\ store.openclaw \in OpenClaw /\ store.soul \in Authors /\ store.agents \in AgentsMD
           /\ store.other \in {"absent", "package", "agent"}
           /\ local.soul \in Authors /\ local.other \in {"absent", "package"}
           /\ work.phase \in {"", "Pending", "Failed", "Running"}
           /\ work.base.status \in Status /\ api.status \in Status /\ cache.status \in Status
  BY Constants DEF DeployTypes, Work, Sight, Files, Local, Resource, OpenClaw

\* What is written into one field of the agent's prefix.
LEMMA StoreTypes ==
    ASSUME DeployTypes
    PROVE  /\ \A a \in Authors : [store EXCEPT !.soul = a] \in Files
           /\ \A a \in AgentsMD : [store EXCEPT !.agents = a] \in Files
           /\ \A a \in AgentsMD, b \in Authors : [store EXCEPT !.agents = a, !.soul = b] \in Files
           /\ \A a \in {"absent", "package", "agent"} : [store EXCEPT !.other = a] \in Files
           /\ \A a \in OpenClaw : [store EXCEPT !.openclaw = a] \in Files
           /\ \A a \in Authors, b \in AgentsMD, c \in {"absent", "package", "agent"} :
                 [store EXCEPT !.soul = a, !.agents = b, !.other = c] \in Files
           /\ \A a \in Authors : [local EXCEPT !.soul = a] \in Local
           /\ \A a \in Authors, b \in {"absent", "package"} :
                 [local EXCEPT !.soul = a, !.other = b] \in Local
           /\ \A a \in OpenClaw : [seen EXCEPT !.openclaw = a] \in Sight
           /\ \A a \in AgentsMD : [seen EXCEPT !.agents = a] \in Sight
  BY DEF DeployTypes, Files, Local, Sight

\* A write to the API server makes one version, which the watch will deliver.
Appended ==
    \/ UNCHANGED <<api, watch>>
    \/ api'.rv = api.rv + 1 /\ watch' \subseteq watch \cup {api'}

LEMMA WriteEffect ==
    ASSUME DeployTypes, NEW o \in Resource, Write(o)
    PROVE  /\ api' \in Resource /\ watch' \subseteq Resource /\ Appended
           /\ api'.exists = o.exists /\ api'.fin = o.fin /\ api'.deleting = o.deleting
           /\ api'.spec = o.spec /\ api'.status = o.status
  <1>1. api \in Resource /\ api.rv + 1 \in Nat
    BY DEF DeployTypes, Resource
  <1>2. CASE o = api
    BY <1>1, <1>2 DEF Write, DeployTypes, Appended
  <1>3. CASE o # api
    BY <1>1, <1>3 DEF Write, DeployTypes, Resource, Appended
  <1> QED BY <1>2, <1>3

LEMMA WatchKeeps ==
    ASSUME DeployTypes, WatchInv, cache' = cache, Appended,
           api'.fin => api'.exists, api.deleting => api'.deleting,
           \A v \in watch \cup {cache} : v.fin /\ ~v.deleting => api'.fin
    PROVE  WatchInv'
  <1>1. CASE UNCHANGED <<api, watch>>
    BY <1>1 DEF WatchInv
  <1>2. CASE api'.rv = api.rv + 1 /\ watch' \subseteq watch \cup {api'}
    <2>1. api.rv \in Nat /\ \A v \in watch : v.rv \in Nat /\ v.rv <= api.rv
      BY DEF DeployTypes, Resource, WatchInv
    <2>2. \A v \in watch' : v.rv <= api'.rv /\ (v.deleting => api'.deleting)
      BY <1>2, <2>1 DEF WatchInv
    <2>3. \A u, v \in watch' : v.deleting /\ v.rv < u.rv => u.deleting
      BY <1>2, <2>1 DEF WatchInv
    <2> QED BY <1>2, <2>2, <2>3 DEF WatchInv
  <1> QED BY <1>1, <1>2 DEF Appended

\* What a pass copies.
LEMMA CopyTypes ==
    ASSUME NEW o \in Resource, NEW b, b.rv \in Nat, b.status \in Status
    PROVE  /\ Copy(o, b) \in Work /\ Copy(o, b).exposed = o.status.exposed
           /\ Copy(o, b).failed = FALSE /\ Copy(o, b).base.status = b.status
           /\ Copy(o, b).phase = o.status.phase /\ Copy(o, b).user = o.status.user
           /\ Copy(o, b).update <=> IF Leader THEN o.status.user ELSE o.status.phase = "Running"
  <1>1. /\ o.rv \in Nat /\ o.spec \in Specs /\ o.status.exposed \subseteq Ports
        /\ o.status.phase \in {"", "Pending", "Failed", "Running"} /\ o.status.user \in BOOLEAN
    BY DEF Resource, Status
  <1>2. (IF Leader THEN o.status.user ELSE o.status.phase = "Running") \in BOOLEAN
    BY <1>1
  <1> QED BY <1>1, <1>2 DEF Copy, Work

\* The pass's copy of the cached resource.
LEMMA ReadsEffect ==
    ASSUME DeployTypes, ReadsCache
    PROVE  /\ pc = "idle" /\ work' \in Work /\ work'.failed = FALSE
           /\ recorded' \in BOOLEAN /\ (recorded' => recorded)
           /\ recorded' => /\ work'.exposed = api.status.exposed
                           /\ work'.base.status = api.status
                           /\ work'.update <=> Ready
           /\ ~Leader => (work'.update <=> work'.phase = "Running")
           /\ UNCHANGED <<legacy, kube, env, edits, writes, seen, files, gateway, faults>>
  <1>1. /\ pc = "idle" /\ work' = Copy(cache, cache)
        /\ recorded' = (recorded /\ cache.status = api.status)
        /\ UNCHANGED <<legacy, kube, env, edits, writes, seen, files, gateway, faults>>
    BY DEF ReadsCache
  <1>2. cache \in Resource /\ cache.rv \in Nat /\ cache.status \in Status
    BY DEF DeployTypes, Resource
  <1>3. recorded' \in BOOLEAN /\ (recorded' => recorded /\ cache.status = api.status)
    BY <1>1 DEF DeployTypes
  <1>4. /\ work' \in Work /\ work'.exposed = cache.status.exposed
        /\ work'.failed = FALSE /\ work'.base.status = cache.status
        /\ work'.phase = cache.status.phase
        /\ work'.update <=> IF Leader THEN cache.status.user ELSE cache.status.phase = "Running"
    BY <1>1, <1>2, CopyTypes
  <1>5. ~Leader => (work'.update <=> work'.phase = "Running")
    BY <1>4
  <1>6. ASSUME recorded'
        PROVE  /\ work'.exposed = api.status.exposed /\ work'.base.status = api.status
               /\ work'.update <=> Ready
    <2>1. cache.status = api.status
      BY <1>3, <1>6
    <2> QED BY <1>4, <2>1 DEF Ready
  <1> QED BY <1>1, <1>3, <1>4, <1>5, <1>6

LEMMA FailEffect ==
    ASSUME DeployTypes, NEW user \in BOOLEAN, Fail(user)
    PROVE  /\ work' \in Work /\ seen' \in Sight
           /\ pc' = IF Leader THEN "context" ELSE "end"
           /\ work'.user = user /\ work'.failed = TRUE /\ work'.base = work.base
           /\ work'.phase = work.phase /\ work'.update = work.update
  <1> DEFINE E == IF work.spec.expose = {} THEN {} ELSE work.exposed
  <1>1. /\ pc' = IF Leader THEN "context" ELSE "end"
        /\ work' = [work EXCEPT !.user = user, !.failed = TRUE, !.exposed = E]
        /\ seen' = Unread
    BY DEF Fail
  <1>2. E \subseteq Ports
    BY Fields
  <1> HIDE DEF E
  <1> QED BY <1>1, <1>2, Empty DEF DeployTypes, Work

LEMMA InfraEffect ==
    ASSUME DeployTypes, FlowInv, Infra
    PROVE  pc = "infra" /\ (Failing \/ (Walk /\ store' = store /\ pc' \in Early \ {"openclaw.put"}))
  <1>1. PICK failed \in BOOLEAN, user \in {work.user, TRUE} :
           /\ Fault("fatal", failed)
           /\ \/ failed /\ Fail(user)
              \/ /\ ~failed /\ user
                 /\ pc' = IF env.package = "none" THEN "inline" ELSE "resolve"
                 /\ work' = [work EXCEPT !.user = TRUE]
                 /\ UNCHANGED <<seen>>
    BY DEF Infra
  <1>2. /\ pc = "infra" /\ UNCHANGED <<legacy, resource, files, gateway>> /\ user \in BOOLEAN
        /\ Counts /\ (failed => "fatal" \in env.faults /\ faults' # 0)
    BY <1>1, Fields, FaultCounts DEF Infra
  <1>3. CASE failed
    BY <1>1, <1>2, <1>3 DEF Failing, Early, files
  <1>4. CASE ~failed
    <2>1. /\ work' = [work EXCEPT !.user = TRUE] /\ work' \in Work
          /\ pc' = IF env.package = "none" THEN "inline" ELSE "resolve"
          /\ UNCHANGED <<seen>>
      BY <1>1, <1>4 DEF DeployTypes, Work
    <2>2. Onward
      BY <1>2, <2>1 DEF Onward, Early, Late, Waits, Before, Exposing, files
    <2>3. Walk
      BY <1>2, <2>1, <2>2 DEF Walk, DeployTypes, Work, files
    <2> QED BY <1>2, <2>1, <2>3 DEF Early, files
  <1> QED BY <1>2, <1>3, <1>4

LEMMA ResolveEffect ==
    ASSUME DeployTypes, FlowInv, Resolve
    PROVE  pc = "resolve" /\ (Failing \/ (Walk /\ store' = store /\ pc' \in Early \ {"openclaw.put"}))
  <1> DEFINE Ahead == /\ UNCHANGED <<work, seen>>
                      /\ \/ pc' = "package" /\ archive' \in {"whole"}
                         \/ pc' = "download" /\ archive' = "partial"
  <1>1. pc = "resolve" /\ UNCHANGED <<legacy, resource, local, store, gateway>>
        /\ env.package \in {"http", "oss"} /\ archive \in {"none", "partial", "whole"}
    BY DEF Resolve, FlowInv, DeployTypes, Env
  <1>2. PICK failed \in BOOLEAN :
           /\ Fault("fatal", failed)
           /\ \/ failed /\ Fail(TRUE) /\ UNCHANGED archive
              \/ ~failed /\ archive = "partial" /\ Fail(TRUE) /\ UNCHANGED archive
              \/ Ahead
    BY <1>1 DEF Resolve
  <1>3. Counts /\ (failed => faults' # 0)
    BY <1>2, FaultCounts
  <1>4. CASE Fail(TRUE) /\ UNCHANGED archive /\ (failed \/ archive = "partial")
    BY <1>1, <1>3, <1>4 DEF Failing, Early
  <1>5. CASE Ahead
    <2>1. Onward
      BY <1>1, <1>5 DEF Onward, Early, Late, Waits, Before, Exposing
    <2>2. Walk
      BY <1>1, <1>3, <1>5, <2>1 DEF Walk, DeployTypes
    <2> QED BY <1>1, <1>5, <2>2 DEF Early
  <1> QED BY <1>1, <1>2, <1>4, <1>5

LEMMA DownloadEffect ==
    ASSUME DeployTypes, FlowInv, Download
    PROVE  pc = "download" /\ (Failing \/ (Walk /\ store' = store /\ pc' \in Early \ {"openclaw.put"}))
  <1>1. pc = "download" /\ UNCHANGED <<legacy, resource, local, store, gateway>>
    BY DEF Download
  <1>2. PICK failed \in BOOLEAN :
           /\ Fault("fatal", failed)
           /\ \/ failed /\ archive' = "none" /\ Fail(TRUE)
              \/ /\ archive' = "whole" /\ pc' = "package"
                 /\ UNCHANGED <<work, seen>>
    BY DEF Download
  <1>3. Counts /\ (failed => faults' # 0)
    BY <1>2, FaultCounts
  <1>4. CASE failed /\ archive' = "none" /\ Fail(TRUE)
    BY <1>1, <1>3, <1>4 DEF Failing, Early
  <1>5. CASE archive' = "whole" /\ pc' = "package" /\ UNCHANGED <<work, seen>>
    <2>1. Onward
      BY <1>1, <1>5 DEF Onward, Early, Late, Waits, Before, Exposing
    <2>2. Walk
      BY <1>1, <1>3, <1>5, <2>1 DEF Walk, DeployTypes
    <2> QED BY <1>1, <1>5, <2>2 DEF Early
  <1> QED BY <1>1, <1>2, <1>4, <1>5

\* What an update leaves alone, and what the agent wrote, is kept.
LEMMA PackageEffect ==
    ASSUME DeployTypes, FlowInv, Package
    PROVE  /\ pc = "package"
           /\ \/ Failing
              \/ /\ Walk /\ pc' \in Early \ {"openclaw.put"} /\ store'.openclaw = store.openclaw
                 /\ "read" \notin env.faults =>
                       /\ store.soul = "agent" => store'.soul = "agent"
                       /\ store.agents.user = "agent" => store'.agents.user = "agent"
                       /\ store.other = "agent" => store'.other = "agent"
  <1> DEFINE S(missed) == IF work.update THEN store.soul ELSE Seed(store.soul, missed = "soul")
             A(missed) == IF work.update THEN store.agents
                          ELSE SeedAgents(store.agents, missed = "agents")
             O(missed) == Seed(store.other, missed = "other")
             L == IF work.update THEN local.soul ELSE Seed(local.soul, FALSE)
             M == Seed(local.other, FALSE)
  <1>1. pc = "package" /\ UNCHANGED <<legacy, resource, archive, gateway>>
    BY DEF Package
  <1>2. PICK missed \in {"none", "soul", "agents", "other"}, failed \in BOOLEAN :
           /\ missed # "none" => "read" \in env.faults
           /\ Fault(IF failed THEN "write" ELSE "read", failed \/ missed # "none")
           /\ \/ failed /\ Fail(TRUE) /\ UNCHANGED <<store, local>>
              \/ /\ store' = [store EXCEPT !.soul = S(missed), !.agents = A(missed),
                                           !.other = O(missed)]
                 /\ local' = [local EXCEPT !.soul = L, !.other = M]
                 /\ pc' = "inline" /\ UNCHANGED <<work, seen>>
    BY DEF Package
  <1>3. Counts /\ (failed => faults' # 0)
    BY <1>2, FaultCounts
  <1>4. CASE failed /\ Fail(TRUE) /\ UNCHANGED <<store, local>>
    BY <1>1, <1>3, <1>4 DEF Failing, Early
  <1>5. CASE /\ store' = [store EXCEPT !.soul = S(missed), !.agents = A(missed),
                                       !.other = O(missed)]
             /\ local' = [local EXCEPT !.soul = L, !.other = M]
             /\ pc' = "inline" /\ UNCHANGED <<work, seen>>
    <2>1. /\ S(missed) \in Authors /\ A(missed) \in AgentsMD
          /\ O(missed) \in {"absent", "package", "agent"}
          /\ L \in Authors /\ M \in {"absent", "package"}
      <3>1. \A b \in BOOLEAN : /\ SeedAgents(store.agents, b) \in AgentsMD
                               /\ Seed(store.soul, b) \in Authors
                               /\ Seed(local.soul, b) \in Authors
                               /\ Seed(store.other, b) \in {"absent", "package", "agent"}
                               /\ Seed(local.other, b) \in {"absent", "package"}
        BY Fields DEF Seed, SeedAgents, Authors, AgentsMD
      <3> QED BY <3>1, Fields
    <2>2. /\ store' \in Files /\ local' \in Local
      BY <1>5, <2>1, StoreTypes
    <2>3. /\ store'.openclaw = store.openclaw /\ store'.soul = S(missed)
          /\ store'.agents = A(missed) /\ store'.other = O(missed)
      BY <1>5 DEF DeployTypes, Files
    <2>4. "read" \notin env.faults =>
             /\ store.soul = "agent" => store'.soul = "agent"
             /\ store.agents.user = "agent" => store'.agents.user = "agent"
             /\ store.other = "agent" => store'.other = "agent"
      BY <1>2, <2>3 DEF Seed, SeedAgents, NoAgentsMD
    <2>5. Onward
      BY <1>1, <1>5 DEF Onward, Early, Late, Waits, Before, Exposing
    <2>6. Walk
      BY <1>1, <1>3, <1>5, <2>2, <2>5 DEF Walk, DeployTypes
    <2> QED BY <1>1, <1>5, <2>3, <2>4, <2>6 DEF Early
  <1> QED BY <1>1, <1>2, <1>4, <1>5

LEMMA InlineEffect ==
    ASSUME DeployTypes, FlowInv, Inline
    PROVE  pc = "inline" /\ Walk /\ store' = store /\ pc' = "seed"
  <1>1. /\ pc = "inline" /\ pc' = "seed"
        /\ UNCHANGED <<legacy, resource, work, seen, archive, store, gateway, faults>>
        /\ local' = [local EXCEPT !.soul = IF work.spec.soul = "none" THEN local.soul
                                           ELSE work.spec.soul]
    BY DEF Inline
  <1>2. (IF work.spec.soul = "none" THEN local.soul ELSE work.spec.soul) \in Authors
    BY Fields DEF Authors
  <1>3. local' \in Local
    BY <1>1, <1>2, StoreTypes
  <1>4. Onward
    BY <1>1 DEF Onward, Early, Late, Waits, Before, Exposing
  <1> QED BY <1>1, <1>3, <1>4 DEF Walk, DeployTypes, Counts

LEMMA SeedLocalEffect ==
    ASSUME DeployTypes, FlowInv, SeedLocal
    PROVE  /\ pc = "seed" /\ Walk /\ pc' = "openclaw"
           /\ store'.openclaw = store.openclaw /\ store'.soul = store.soul
           /\ store'.agents = store.agents
           /\ "read" \notin env.faults /\ store.other = "agent" => store'.other = "agent"
  <1>1. pc = "seed" /\ pc' = "openclaw"
        /\ UNCHANGED <<legacy, resource, work, seen, archive, local, gateway>>
    BY DEF SeedLocal
  <1> DEFINE O(missed) == IF local.other = "absent" THEN store.other ELSE Seed(store.other, missed)
  <1>2. PICK missed \in BOOLEAN :
           Fault("read", missed) /\ store' = [store EXCEPT !.other = O(missed)]
    BY DEF SeedLocal
  <1>3. Counts /\ (missed => "read" \in env.faults)
    BY <1>2, FaultCounts
  <1>4. O(missed) \in {"absent", "package", "agent"}
    BY Fields DEF Seed
  <1>5. /\ store' \in Files /\ store'.openclaw = store.openclaw /\ store'.soul = store.soul
        /\ store'.agents = store.agents /\ store'.other = O(missed)
    <2>1. ASSUME NEW a \in {"absent", "package", "agent"}
          PROVE  /\ [store EXCEPT !.other = a].openclaw = store.openclaw
                 /\ [store EXCEPT !.other = a].soul = store.soul
                 /\ [store EXCEPT !.other = a].agents = store.agents
                 /\ [store EXCEPT !.other = a].other = a
      BY DEF DeployTypes, Files
    <2> HIDE DEF O
    <2> QED BY <1>2, <1>4, <2>1, StoreTypes
  <1>6. "read" \notin env.faults /\ store.other = "agent" => store'.other = "agent"
    BY <1>3, <1>5 DEF Seed
  <1>7. Onward
    BY <1>1 DEF Onward, Early, Late, Waits, Before, Exposing
  <1> QED BY <1>1, <1>3, <1>5, <1>6, <1>7 DEF Walk, DeployTypes

\* The plugin entries that an update finds are read.
LEMMA GetOpenClawEffect ==
    ASSUME DeployTypes, FlowInv, GetOpenClaw
    PROVE  /\ pc = "openclaw" /\ Walk /\ store' = store /\ pc' = "openclaw.put"
           /\ "read" \notin env.faults /\ work.update => seen'.openclaw = store.openclaw
  <1>1. pc = "openclaw" /\ pc' = "openclaw.put"
        /\ UNCHANGED <<legacy, resource, work, files, gateway>>
    BY DEF GetOpenClaw
  <1>2. PICK missed \in BOOLEAN :
           Fault("read", missed) /\ seen' = [seen EXCEPT !.openclaw = ReadOpenClaw(missed)]
    BY DEF GetOpenClaw
  <1>3. Counts /\ (missed => "read" \in env.faults)
    BY <1>2, FaultCounts
  <1>4. /\ ReadOpenClaw(missed) \in OpenClaw
        /\ ~missed /\ work.update => ReadOpenClaw(missed) = store.openclaw
    BY Fields DEF ReadOpenClaw, NoOpenClaw, OpenClaw
  <1>5. seen' \in Sight /\ seen'.openclaw = ReadOpenClaw(missed)
    <2>1. ASSUME NEW a \in OpenClaw PROVE [seen EXCEPT !.openclaw = a].openclaw = a
      BY DEF DeployTypes, Sight
    <2> QED BY <1>2, <1>4, <2>1, StoreTypes
  <1>6. Onward
    BY <1>1 DEF Onward, Early, Late, Waits, Before, Exposing, files
  <1> QED BY <1>1, <1>3, <1>4, <1>5, <1>6 DEF Walk, DeployTypes, files

LEMMA PutOpenClawEffect ==
    ASSUME DeployTypes, FlowInv, PutOpenClaw
    PROVE  /\ pc = "openclaw.put"
           /\ \/ Failing
              \/ /\ Walk /\ pc' = "soul" /\ work' = work
                 /\ store'.openclaw.here /\ store'.openclaw.custom = seen.openclaw.custom
                 /\ store'.soul = store.soul /\ store'.agents = store.agents
                 /\ store'.other = store.other
  <1> DEFINE new == [here |-> TRUE, custom |-> seen.openclaw.custom]
  <1>1. pc = "openclaw.put" /\ UNCHANGED <<legacy, resource, archive, local, gateway>>
    BY DEF PutOpenClaw
  <1>2. PICK failed \in BOOLEAN :
           /\ Fault("write", failed)
           /\ \/ failed /\ Fail(TRUE) /\ UNCHANGED store
              \/ /\ store' = [store EXCEPT !.openclaw = new] /\ pc' = "soul"
                 /\ UNCHANGED <<work, seen>>
    BY DEF PutOpenClaw
  <1>3. Counts /\ (failed => faults' # 0)
    BY <1>2, FaultCounts
  <1>4. CASE failed /\ Fail(TRUE) /\ UNCHANGED store
    BY <1>1, <1>3, <1>4 DEF Failing, Early
  <1>5. CASE /\ store' = [store EXCEPT !.openclaw = new] /\ pc' = "soul"
             /\ UNCHANGED <<work, seen>>
    <2>1. new \in OpenClaw /\ new.here /\ new.custom = seen.openclaw.custom
      BY Fields DEF OpenClaw
    <2>2. ASSUME NEW a \in OpenClaw
          PROVE  /\ [store EXCEPT !.openclaw = a].openclaw = a
                 /\ [store EXCEPT !.openclaw = a].soul = store.soul
                 /\ [store EXCEPT !.openclaw = a].agents = store.agents
                 /\ [store EXCEPT !.openclaw = a].other = store.other
      BY DEF DeployTypes, Files
    <2> HIDE DEF new
    <2>3. /\ store' \in Files /\ store'.openclaw = new /\ store'.soul = store.soul
          /\ store'.agents = store.agents /\ store'.other = store.other
      BY <1>5, <2>1, <2>2, StoreTypes
    <2>4. Onward
      BY <1>1, <1>5 DEF Onward, Early, Late, Waits, Before, Exposing
    <2>5. Walk
      BY <1>1, <1>3, <1>5, <2>3, <2>4 DEF Walk, DeployTypes
    <2> QED BY <1>1, <1>5, <2>1, <2>3, <2>5
  <1> QED BY <1>1, <1>2, <1>4, <1>5

\* SOUL.md is written over the agent's only by the text of the spec.
LEMMA PutSoulEffect ==
    ASSUME DeployTypes, FlowInv, PutSoul
    PROVE  /\ pc = "soul" /\ Walk /\ pc' = "agents" /\ store'.openclaw = store.openclaw
           /\ store'.agents = store.agents /\ store'.other = store.other
           /\ Leader => store'.soul = store.soul
           /\ "read" \notin env.faults /\ store.soul = "agent" /\ work.spec.soul = "none"
                 => store'.soul = "agent"
  <1>1. pc = "soul" /\ pc' = "agents"
        /\ UNCHANGED <<legacy, resource, work, seen, archive, local, gateway>>
    BY DEF PutSoul
  <1>2. PICK missed \in BOOLEAN, failed \in BOOLEAN :
           /\ missed => "read" \in env.faults
           /\ Fault(IF failed THEN "write" ELSE "read", failed \/ missed)
           /\ store' = IF failed \/ Leader THEN store ELSE [store EXCEPT !.soul = Soul(missed)]
    BY DEF PutSoul
  <1>3. Counts
    BY <1>2, FaultCounts
  <1>4. /\ Soul(missed) \in Authors
        /\ ~missed /\ store.soul = "agent" /\ work.spec.soul = "none" => Soul(missed) = "agent"
    BY Fields DEF Soul, Authors
  <1>5. \/ store' = store /\ store' \in Files
        \/ /\ ~Leader /\ store' \in Files /\ store'.soul = Soul(missed)
           /\ store'.openclaw = store.openclaw /\ store'.agents = store.agents
           /\ store'.other = store.other
    <2>1. ASSUME NEW a \in Authors
          PROVE  /\ [store EXCEPT !.soul = a].openclaw = store.openclaw
                 /\ [store EXCEPT !.soul = a].soul = a
                 /\ [store EXCEPT !.soul = a].agents = store.agents
                 /\ [store EXCEPT !.soul = a].other = store.other
      BY DEF DeployTypes, Files
    <2>2. store \in Files
      BY DEF DeployTypes
    <2> QED BY <1>2, <1>4, <2>1, <2>2, StoreTypes
  <1>6. Onward
    BY <1>1 DEF Onward, Early, Late, Waits, Before, Exposing
  <1>7. Walk
    BY <1>1, <1>3, <1>5, <1>6 DEF Walk, DeployTypes
  <1> QED BY <1>1, <1>2, <1>4, <1>5, <1>7

LEMMA GetAgentsEffect ==
    ASSUME DeployTypes, FlowInv, GetAgents
    PROVE  /\ pc = "agents" /\ Walk /\ store' = store /\ pc' = "agents.put" /\ work' = work
           /\ "read" \notin env.faults /\ work.spec.agents = "none" => seen'.agents = store.agents
  <1> DEFINE A(missed) == CASE work.spec.agents # "none" -> [NoAgentsMD EXCEPT !.user = work.spec.agents]
                            [] work.spec.agents = "none" /\ missed -> NoAgentsMD
                            [] OTHER -> store.agents
  <1>1. pc = "agents" /\ pc' = "agents.put"
        /\ UNCHANGED <<legacy, resource, work, files, gateway>>
    BY DEF GetAgents
  <1>2. PICK missed \in BOOLEAN :
           Fault("read", missed) /\ seen' = [seen EXCEPT !.agents = A(missed)]
    BY DEF GetAgents
  <1>3. Counts /\ (missed => "read" \in env.faults)
    BY <1>2, FaultCounts
  <1>4. A(missed) \in AgentsMD /\ (work.spec.agents = "none" /\ ~missed => A(missed) = store.agents)
    <2>1. NoAgentsMD \in AgentsMD /\ [NoAgentsMD EXCEPT !.user = "a1"] \in AgentsMD
      BY DEF NoAgentsMD, AgentsMD
    <2> QED BY <2>1, Fields
  <1>5. seen' \in Sight /\ seen'.agents = A(missed)
    <2>1. ASSUME NEW a \in AgentsMD PROVE [seen EXCEPT !.agents = a].agents = a
      BY DEF DeployTypes, Sight
    <2> HIDE DEF A
    <2> QED BY <1>2, <1>4, <2>1, StoreTypes
  <1>6. Onward
    BY <1>1 DEF Onward, Early, Late, Waits, Before, Exposing, files
  <1>7. Walk
    BY <1>1, <1>3, <1>5, <1>6 DEF Walk, DeployTypes, files
  <1> HIDE DEF A
  <1> QED BY <1>1, <1>3, <1>4, <1>5, <1>7 DEF files

\* The sections are replaced in what was read; the user's part is that of it.
LEMMA PutAgentsEffect ==
    ASSUME DeployTypes, FlowInv, PutAgents
    PROVE  /\ pc = "agents.put" /\ Walk /\ pc' = "container" /\ store'.openclaw = store.openclaw
           /\ store'.soul = store.soul /\ store'.other = store.other
           /\ store'.agents = store.agents \/ store'.agents.user = seen.agents.user
  <1> DEFINE A == LET merged == MergeBuiltinSection(seen.agents)
                  IN IF Leader THEN merged ELSE InjectContext(merged)
  <1>1. pc = "agents.put" /\ pc' = "container" /\ seen' = Unread
        /\ UNCHANGED <<legacy, resource, work, archive, local, gateway>>
    BY DEF PutAgents
  <1>2. PICK failed \in BOOLEAN :
           /\ Fault("write", failed)
           /\ store' = IF failed THEN store ELSE [store EXCEPT !.agents = A]
    BY DEF PutAgents
  <1>3. Counts
    BY <1>2, FaultCounts
  <1>4. A \in AgentsMD /\ A.user = seen.agents.user
    BY Fields DEF MergeBuiltinSection, InjectContext, AgentsMD
  <1>5. /\ store' \in Files /\ store'.openclaw = store.openclaw /\ store'.soul = store.soul
        /\ store'.other = store.other
        /\ store'.agents = store.agents \/ store'.agents.user = seen.agents.user
    <2>1. ASSUME NEW a \in AgentsMD
          PROVE  /\ [store EXCEPT !.agents = a].openclaw = store.openclaw
                 /\ [store EXCEPT !.agents = a].soul = store.soul
                 /\ [store EXCEPT !.agents = a].agents = a
                 /\ [store EXCEPT !.agents = a].other = store.other
      BY DEF DeployTypes, Files
    <2>2. store \in Files
      BY DEF DeployTypes
    <2> HIDE DEF A
    <2> QED BY <1>2, <1>4, <2>1, <2>2, StoreTypes
  <1>6. Onward
    BY <1>1 DEF Onward, Early, Late, Waits, Before, Exposing
  <1>7. Walk
    BY <1>1, <1>3, <1>5, <1>6, Empty DEF Walk, DeployTypes
  <1> QED BY <1>1, <1>5, <1>7

LEMMA ContainerEffect ==
    ASSUME DeployTypes, FlowInv, Container
    PROVE  pc = "container" /\ (Failing \/ (Walk /\ store' = store /\ pc' \in {"row", "expose"}))
  <1>1. PICK failed \in BOOLEAN :
           /\ Fault("fatal", failed)
           /\ IF failed THEN Fail(TRUE)
              ELSE /\ pc' = IF Leader THEN "row" ELSE "expose"
                   /\ UNCHANGED <<work, seen>>
    BY DEF Container
  <1>2. /\ pc = "container" /\ UNCHANGED <<legacy, resource, files, gateway>>
        /\ Counts /\ (failed => "fatal" \in env.faults /\ faults' # 0)
    BY <1>1, FaultCounts DEF Container
  <1>3. CASE failed
    BY <1>1, <1>2, <1>3 DEF Failing, files
  <1>4. CASE ~failed
    <2>1. UNCHANGED <<work, seen>> /\ pc' = IF Leader THEN "row" ELSE "expose"
      BY <1>1, <1>4
    <2>2. Onward
      BY <1>2, <2>1 DEF Onward, Early, Late, Waits, Before, Exposing, files
    <2>3. Walk
      BY <1>2, <2>1, <2>2 DEF Walk, DeployTypes, files
    <2> QED BY <1>2, <2>1, <2>3 DEF files
  <1> QED BY <1>2, <1>3, <1>4

LEMMA GetContextEffect ==
    ASSUME DeployTypes, FlowInv, GetContext
    PROVE  /\ pc = "context" /\ Walk /\ store' = store /\ pc' = "context.put"
           /\ "read" \notin env.faults => seen'.agents = store.agents
  <1> DEFINE A(missed) == IF missed THEN NoAgentsMD ELSE store.agents
  <1>1. pc = "context" /\ pc' = "context.put" /\ Leader
        /\ UNCHANGED <<legacy, resource, work, files, gateway>>
    BY DEF GetContext, FlowInv
  <1>2. PICK missed \in BOOLEAN :
           Fault("read", missed) /\ seen' = [seen EXCEPT !.agents = A(missed)]
    BY DEF GetContext
  <1>3. Counts /\ (missed => "read" \in env.faults)
    BY <1>2, FaultCounts
  <1>4. A(missed) \in AgentsMD /\ (~missed => A(missed) = store.agents)
    BY Fields DEF NoAgentsMD, AgentsMD
  <1>5. seen' \in Sight /\ seen'.agents = A(missed)
    <2>1. ASSUME NEW a \in AgentsMD PROVE [seen EXCEPT !.agents = a].agents = a
      BY DEF DeployTypes, Sight
    <2> HIDE DEF A
    <2> QED BY <1>2, <1>4, <2>1, StoreTypes
  <1>6. Onward
    BY <1>1 DEF Onward, Early, Late, Waits, Before, Exposing, files
  <1>7. Walk
    BY <1>1, <1>3, <1>5, <1>6 DEF Walk, DeployTypes, files
  <1> HIDE DEF A
  <1> QED BY <1>1, <1>3, <1>4, <1>5, <1>7 DEF files

\* The leader's SOUL.md is seed-only.
LEMMA PutContextEffect ==
    ASSUME DeployTypes, FlowInv, PutContext
    PROVE  /\ pc = "context.put" /\ Walk /\ pc' = "allow" /\ store'.openclaw = store.openclaw
           /\ store'.other = store.other
           /\ "read" \notin env.faults /\ store.soul = "agent" => store'.soul = "agent"
           /\ store'.agents = store.agents \/ store'.agents.user = seen.agents.user
  <1> DEFINE S(missed) == CASE store.soul # "absent" /\ ~missed -> store.soul
                            [] OTHER -> IF work.spec.soul # "none" THEN work.spec.soul ELSE "default"
             A == InjectContext(seen.agents)
  <1>1. pc = "context.put" /\ pc' = "allow" /\ seen' = Unread /\ Leader
        /\ UNCHANGED <<legacy, resource, work, archive, local, gateway>>
    BY DEF PutContext, FlowInv
  <1>2. PICK missed \in BOOLEAN, failed \in BOOLEAN :
           /\ missed => "read" \in env.faults
           /\ Fault(IF failed THEN "write" ELSE "read", failed \/ missed)
           /\ store' = IF failed THEN store ELSE [store EXCEPT !.agents = A, !.soul = S(missed)]
    BY DEF PutContext
  <1>3. Counts
    BY <1>2, FaultCounts
  <1>4. /\ A \in AgentsMD /\ A.user = seen.agents.user
        /\ S(missed) \in Authors /\ (~missed /\ store.soul = "agent" => S(missed) = "agent")
    BY Fields DEF InjectContext, AgentsMD, Authors
  <1>5. \/ store' = store /\ store' \in Files
        \/ /\ store' \in Files /\ store'.openclaw = store.openclaw /\ store'.soul = S(missed)
           /\ store'.other = store.other /\ store'.agents = A
    <2>1. ASSUME NEW a \in AgentsMD, NEW b \in Authors
          PROVE  /\ [store EXCEPT !.agents = a, !.soul = b].openclaw = store.openclaw
                 /\ [store EXCEPT !.agents = a, !.soul = b].soul = b
                 /\ [store EXCEPT !.agents = a, !.soul = b].agents = a
                 /\ [store EXCEPT !.agents = a, !.soul = b].other = store.other
      BY DEF DeployTypes, Files
    <2>2. store \in Files
      BY DEF DeployTypes
    <2> HIDE DEF A, S
    <2> QED BY <1>2, <1>4, <2>1, <2>2, StoreTypes
  <1>6. Onward
    BY <1>1 DEF Onward, Early, Late, Waits, Before, Exposing
  <1>7. Walk
    BY <1>1, <1>3, <1>5, <1>6, Empty DEF Walk, DeployTypes
  <1> HIDE DEF A, S
  <1> QED BY <1>1, <1>2, <1>4, <1>5, <1>7

\* Without a failed call the gateway routes the ports of the spec and of what
\* was not recorded, and all of the former are recorded.
LEMMA ExposeEffect ==
    ASSUME DeployTypes, FlowInv, Expose
    PROVE  /\ pc = "expose" /\ pc' = "allow" /\ ~Leader
           /\ UNCHANGED <<legacy, resource, seen, files>> /\ Counts
           /\ work' \in Work /\ work'.user = work.user /\ work'.failed = work.failed
           /\ work'.base = work.base /\ work'.phase = work.phase /\ work'.update = work.update
           /\ gateway' \subseteq {"cr"} \X Ports
           /\ faults' = 0 /\ Open \subseteq work.exposed => Open' \subseteq work'.exposed
  <1>1. PICK broken \in SUBSET (work.spec.expose \ work.exposed) :
           /\ Fault("expose", broken # {})
           /\ LET r == ReconcileExpose(CRName, work.spec.expose, work.exposed, broken)
              IN /\ gateway' = r.gateway
                 /\ work' = [work EXCEPT !.exposed = IF broken # {} THEN work.exposed ELSE r.exposed]
    BY DEF Expose
  <1> DEFINE W == work.spec.expose
             C == work.exposed
             E == IF broken # {} THEN C ELSE W \ (broken \ C)
  <1>2. /\ gateway' = (gateway \cup {<<"cr", p>> : p \in W \ (C \cup broken)})
                         \ {<<"cr", p>> : p \in C \ W}
        /\ work' = [work EXCEPT !.exposed = E]
    BY <1>1 DEF ReconcileExpose, CRName
  <1>3. Counts /\ (broken # {} => faults' # 0)
    BY <1>1, FaultCounts
  <1>4. /\ pc = "expose" /\ pc' = "allow" /\ ~Leader
        /\ UNCHANGED <<legacy, resource, seen, files>>
        /\ W \subseteq Ports /\ C \subseteq Ports /\ gateway \subseteq {"cr"} \X Ports
    BY Fields DEF Expose, FlowInv
  <1>5. E \subseteq Ports
    BY <1>4
  <1>6. /\ work' \in Work /\ work'.user = work.user /\ work'.failed = work.failed
        /\ work'.base = work.base /\ work'.phase = work.phase /\ work'.update = work.update
        /\ work'.exposed = E
    <2> HIDE DEF E
    <2> QED BY <1>2, <1>5 DEF DeployTypes, Work
  <1>7. gateway' \subseteq {"cr"} \X Ports
    BY <1>2, <1>4
  <1>8. ASSUME faults' = 0, Open \subseteq C PROVE Open' \subseteq E
    <2>1. E = W
      BY <1>3, <1>8
    <2>2. ASSUME NEW p \in Ports, <<"cr", p>> \in gateway' PROVE p \in W
      <3>1. \/ p \in W
            \/ <<"cr", p>> \in gateway /\ p \notin C \ W
        BY <1>2, <2>2
      <3> QED BY <1>8, <3>1 DEF Open
    <2> QED BY <2>1, <2>2 DEF Open
  <1> QED BY <1>3, <1>4, <1>6, <1>7, <1>8

\* The patch of a pass that read the current status sets it to what the pass
\* computed.
LEMMA EndEffect ==
    ASSUME DeployTypes, FlowInv, PortInv, End
    PROVE  /\ pc = "end" /\ pc' = "idle"
           /\ UNCHANGED <<legacy, cache, env, edits, writes, seen, files, gateway>>
           /\ Counts /\ work' \in Work /\ api' \in Resource /\ watch' \subseteq Resource
           /\ Appended /\ UNCHANGED <<api.exists, api.fin, api.deleting>>
           /\ recorded' \in BOOLEAN
           /\ recorded' => /\ recorded
                           /\ api'.status.user = work.user
                           /\ api'.status.exposed = IF Leader THEN {} ELSE work.exposed
                           /\ ~Leader => api'.status.phase = IF work.failed THEN FailedPhase(work.user)
                                                            ELSE "Running"
  <1>1. PICK lost \in BOOLEAN :
           /\ Fault("patch", lost)
           /\ \/ ~lost /\ PatchAccepted(work, work.base) /\ Write([api EXCEPT !.status = PatchedStatus])
              \/ ~(~lost /\ PatchAccepted(work, work.base)) /\ UNCHANGED <<api, watch>>
           /\ recorded' = (recorded /\ ~lost /\ PatchAccepted(work, work.base))
    BY DEF End
  <1>2. /\ pc = "end" /\ pc' = "idle" /\ work' = NoWork
        /\ UNCHANGED <<legacy, cache, env, edits, writes, seen, files, gateway>>
    BY DEF End
  <1>3. Counts /\ work' \in Work /\ recorded \in BOOLEAN
    BY <1>1, <1>2, FaultCounts, Empty DEF DeployTypes
  <1>4. recorded' \in BOOLEAN /\ (recorded' => recorded /\ ~lost /\ PatchAccepted(work, work.base))
    BY <1>1, <1>3
  <1>5. NewStatus \in Status
    <2>1. FailedPhase(work.user) \in {"", "Pending", "Failed", "Running"}
      BY Fields DEF FailedPhase
    <2> QED BY <2>1, Fields DEF NewStatus, Status
  <1>6. PatchedStatus \in Status
    <2>1. work.base.status \in Status /\ api.status \in Status
      BY Fields
    <2> QED BY <1>5, <2>1 DEF PatchedStatus, Merged, Status
  <1>7. work.base.status = api.status => PatchedStatus = NewStatus
    <2>1. api.status \in Status
      BY Fields
    <2> QED BY <1>5, <2>1 DEF PatchedStatus, Merged, Status
  <1>8. /\ NewStatus.user = work.user
        /\ NewStatus.exposed = IF Leader THEN {} ELSE work.exposed
        /\ ~Leader => NewStatus.phase = IF work.failed THEN FailedPhase(work.user) ELSE "Running"
    BY Fields DEF NewStatus
  <1>9. recorded => work.base.status = api.status
    BY <1>2 DEF PortInv, Late
  <1>10. CASE Write([api EXCEPT !.status = PatchedStatus])
    <2>1. /\ [api EXCEPT !.status = PatchedStatus] \in Resource
          /\ [api EXCEPT !.status = PatchedStatus].status = PatchedStatus
          /\ [api EXCEPT !.status = PatchedStatus].exists = api.exists
          /\ [api EXCEPT !.status = PatchedStatus].fin = api.fin
          /\ [api EXCEPT !.status = PatchedStatus].deleting = api.deleting
      BY <1>6 DEF DeployTypes, Resource
    <2>2. /\ api' \in Resource /\ watch' \subseteq Resource /\ Appended
          /\ api'.exists = api.exists /\ api'.fin = api.fin /\ api'.deleting = api.deleting
          /\ api'.status = PatchedStatus
      BY <1>10, <2>1, WriteEffect
    <2>3. recorded' => api'.status = NewStatus
      BY <1>4, <1>7, <1>9, <2>2
    <2> QED BY <1>2, <1>3, <1>4, <1>8, <2>2, <2>3
  <1>11. CASE UNCHANGED <<api, watch>> /\ ~(~lost /\ PatchAccepted(work, work.base))
    BY <1>2, <1>3, <1>4, <1>11 DEF DeployTypes, Appended
  <1> QED BY <1>1, <1>10, <1>11

\* The finalizer is there before anything else is made.
LEMMA AddFinalizerEffect ==
    ASSUME DeployTypes, FlowInv, AddFinalizer
    PROVE  /\ pc = "finalizer" /\ Counts /\ work' \in Work /\ seen' \in Sight
           /\ UNCHANGED <<legacy, cache, env, edits, writes, recorded, files, gateway>>
           /\ \/ /\ pc' = "end" /\ ~Leader /\ UNCHANGED <<api, watch>> /\ faults' # 0
                 /\ "fatal" \in env.faults /\ work'.base = work.base
                 /\ work'.update = work.update /\ work'.phase = work.phase
              \/ /\ pc' = "infra" /\ api' \in Resource /\ watch' \subseteq Resource
                 /\ Appended /\ api'.fin /\ api'.exists
                 /\ api'.deleting = api.deleting /\ api'.status = api.status
                 /\ work'.exposed = api.status.exposed /\ work'.failed = FALSE
                 /\ work'.base.status = IF Leader THEN api.status ELSE work.base.status
                 /\ ~Leader => (work'.update <=> work'.phase = "Running")
                 /\ work'.update <=> Ready
              \/ pc' = "idle" /\ UNCHANGED <<api, watch>>
  <1> DEFINE o == [api EXCEPT !.fin = TRUE]
             b == IF Leader THEN api' ELSE work.base
  <1>1. PICK failed \in BOOLEAN :
           /\ Fault("fatal", failed)
           /\ \/ failed /\ ~Leader /\ Fail(work.user) /\ UNCHANGED <<api, watch>>
              \/ /\ FinalizerAccepted /\ Write(o) /\ work' = Copy(api', b)
                 /\ pc' = "infra" /\ UNCHANGED seen
              \/ pc' = "idle" /\ work' = NoWork /\ UNCHANGED <<api, watch, seen>>
    BY DEF AddFinalizer
  <1>2. /\ pc = "finalizer"
        /\ UNCHANGED <<legacy, cache, env, edits, writes, recorded, files, gateway>>
    BY DEF AddFinalizer
  <1>3. Counts /\ (failed => "fatal" \in env.faults /\ faults' # 0) /\ seen \in Sight
    BY <1>1, FaultCounts DEF DeployTypes
  <1>4. CASE failed /\ ~Leader /\ Fail(work.user) /\ UNCHANGED <<api, watch>>
    <2>1. work.user \in BOOLEAN
      BY Fields
    <2> QED BY <1>2, <1>3, <1>4, <2>1, FailEffect
  <1>5. CASE FinalizerAccepted /\ Write(o) /\ work' = Copy(api', b) /\ pc' = "infra" /\ UNCHANGED seen
    <2>1. /\ o \in Resource /\ o.fin = TRUE /\ o.exists = api.exists
          /\ o.deleting = api.deleting /\ o.status = api.status
      BY DEF DeployTypes, Resource
    <2>2. api.exists
      BY <1>5 DEF FinalizerAccepted, UpdateAccepted
    <2> HIDE DEF o
    <2>3. /\ api' \in Resource /\ watch' \subseteq Resource /\ Appended
          /\ api'.fin = TRUE /\ api'.exists /\ api'.deleting = api.deleting
          /\ api'.status = api.status
      BY <1>5, <2>1, <2>2, WriteEffect
    <2>4. /\ b.rv \in Nat /\ b.status \in Status
          /\ b.status = IF Leader THEN api.status ELSE work.base.status
      <3>1. api'.rv \in Nat /\ api'.status \in Status /\ work.base.rv \in Nat
            /\ work.base.status \in Status
        BY <2>3 DEF DeployTypes, Resource, Work
      <3> QED BY <2>3, <3>1
    <2> HIDE DEF b
    <2>5. /\ Copy(api', b) \in Work /\ Copy(api', b).exposed = api'.status.exposed
          /\ Copy(api', b).failed = FALSE /\ Copy(api', b).base.status = b.status
          /\ Copy(api', b).phase = api'.status.phase
          /\ Copy(api', b).update <=> IF Leader THEN api'.status.user ELSE api'.status.phase = "Running"
      BY <2>3, <2>4, CopyTypes
    <2> QED BY <1>2, <1>3, <1>5, <2>3, <2>4, <2>5 DEF Ready
  <1>6. CASE pc' = "idle" /\ work' = NoWork /\ UNCHANGED <<api, watch, seen>>
    BY <1>2, <1>3, <1>6, Empty
  <1> QED BY <1>1, <1>4, <1>5, <1>6

LEMMA UnexposeEffect ==
    ASSUME DeployTypes, FlowInv, Unexpose
    PROVE  /\ pc = "unexpose" /\ pc' = "cleanup"
           /\ UNCHANGED <<legacy, resource, work, seen, files, faults>>
           /\ gateway' \subseteq gateway
           /\ ~env.renamed /\ Open \subseteq work.exposed => gateway' = {}
  <1> DEFINE C == IF work.exposed = {} THEN work.spec.expose ELSE work.exposed
  <1>1. /\ pc = "unexpose" /\ pc' = "cleanup"
        /\ UNCHANGED <<legacy, resource, work, seen, files, faults>>
        /\ gateway' = gateway \ {<<RuntimeName, p>> : p \in C}
        /\ gateway \subseteq {"cr"} \X Ports
    BY DEF Unexpose, ReconcileExpose, FlowInv
  <1>2. ASSUME ~env.renamed, Open \subseteq work.exposed PROVE gateway' = {}
    <2>1. RuntimeName = "cr" /\ Open \subseteq C
      BY <1>2 DEF RuntimeName
    <2>2. ASSUME NEW g \in gateway PROVE g \in {<<"cr", p>> : p \in C}
      <3>1. PICK p \in Ports : g = <<"cr", p>>
        BY <1>1
      <3> QED BY <2>1, <3>1 DEF Open
    <2> QED BY <1>1, <2>1, <2>2
  <1> QED BY <1>1, <1>2

LEMMA CleanupEffect ==
    ASSUME DeployTypes, Cleanup
    PROVE  /\ pc = "cleanup" /\ pc' = IF Leader THEN "unrow" ELSE "deny"
           /\ UNCHANGED <<legacy, resource, work, seen, archive, local, gateway>>
           /\ Counts /\ store' \in Files
           /\ (store' = store /\ faults' # 0) \/ store' = NoFiles
  <1>1. PICK failed \in BOOLEAN :
           Fault("write", failed) /\ store' = IF failed THEN store ELSE NoFiles
    BY DEF Cleanup
  <1>2. Counts /\ (failed => faults' # 0)
    BY <1>1, FaultCounts
  <1> QED BY <1>1, <1>2, Empty DEF Cleanup, DeployTypes

LEMMA UnfinalizeEffect ==
    ASSUME DeployTypes, FlowInv, Unfinalize
    PROVE  /\ pc = "unfinalize" /\ pc' = "idle" /\ work' \in Work
           /\ UNCHANGED <<legacy, cache, env, edits, writes, recorded, seen, files, gateway, faults>>
           /\ \/ UNCHANGED <<api, watch>>
              \/ /\ api' \in Resource /\ watch' \subseteq Resource /\ Appended /\ ~api'.fin
                 /\ api'.deleting = api.deleting /\ api'.status = api.status
  <1> DEFINE o == Unfinalized(api)
  <1>1. /\ o \in Resource /\ o.fin = FALSE /\ o.deleting = api.deleting /\ o.status = api.status
    BY DEF Unfinalized, DeployTypes, Resource
  <1> HIDE DEF o
  <1>2. CASE Write(o)
    <2>1. /\ api' \in Resource /\ watch' \subseteq Resource /\ Appended
          /\ api'.fin = FALSE /\ api'.deleting = api.deleting /\ api'.status = api.status
      BY <1>1, <1>2, WriteEffect
    <2> QED BY <2>1, Empty DEF Unfinalize
  <1>3. CASE UNCHANGED <<api, watch>>
    BY <1>3, Empty DEF Unfinalize
  <1> QED BY <1>2, <1>3 DEF Unfinalize, o

-----------------------------------------------------------------------------
(***************************************************************************)
(* What a call does to the entries of the shared files.                    *)
(***************************************************************************)
LEMMA EnterEffect ==
    ASSUME LegacyInv, NEW c \in Callers, NEW op, Enter(c, op)
    PROVE  /\ conf' = conf /\ rows' = rows
           /\ call'[c] # Idle /\ call'[c].at = "read" /\ call'[c].op = op
           /\ \A d \in Callers \ {c} : call'[d] = call[d]
           /\ SeenInv => SeenInv'
  <1> DEFINE new == [at |-> "read", op |-> op, seen |-> Nothing]
  <1>1. /\ conf' = conf /\ rows' = rows /\ call \in [Callers -> {Idle} \cup Call]
        /\ call' = [call EXCEPT ![c] = new]
    BY DEF Enter, LegacyInv, LegacyTypeOK
  <1>2. new # Idle /\ new.at = "read" /\ new.op = op
    BY DEF Idle
  <1>3. call'[c] = new /\ \A d \in Callers \ {c} : call'[d] = call[d]
    BY <1>1
  <1> HIDE DEF new
  <1>4. SeenInv => SeenInv'
    BY <1>1, <1>2, <1>3 DEF SeenInv
  <1> QED BY <1>1, <1>2, <1>3, <1>4

\* A call that ends with its read has nothing to write.
LEMMA ReadEffect ==
    ASSUME LegacyInv, NEW c \in Callers, NEW failed \in BOOLEAN, Read(c, failed)
    PROVE  /\ conf' = conf /\ rows' = rows /\ call[c] # Idle
           /\ \A d \in Callers \ {c} : call'[d] = call[d]
           /\ call'[c] = Idle \/ (call'[c] # Idle /\ call'[c].op = call[c].op)
           /\ SeenInv /\ ~failed =>
                 /\ SeenInv'
                 /\ call'[c] = Idle /\ call[c].op.kind = "deny" => conf.allow = {}
                 /\ call'[c] = Idle => call[c].op.kind # "remove"
  <1> DEFINE op == call[c].op
             s == Seen(op, failed)
             new == [call[c] EXCEPT !.at = "write", !.seen = s]
  <1>1. /\ call[c].at = "read" /\ call[c] # Idle /\ conf' = conf /\ rows' = rows
    BY Starting DEF Read
  <1>2. /\ call[c] \in Call /\ call \in [Callers -> {Idle} \cup Call]
        /\ \A d \in Callers \ {c} : call[d] = Idle
        /\ op \in Op /\ (~OnConfig(op) => op.file \in Registries)
    BY <1>1, OthersIdle DEF LegacyInv, LegacyTypeOK, Call
  <1>3. /\ s \in [conf : Config, rows : SUBSET Ids]
        /\ ~failed => IF OnConfig(op) THEN s.conf = conf ELSE s.rows = rows[op.file]
    BY <1>2, SeenIs
  <1>4. CASE NothingToDo(op, s) /\ Return(c)
    <2>1. call'[c] = Idle /\ \A d \in Callers \ {c} : call'[d] = call[d]
      BY <1>2, <1>4 DEF Return
    <2>2. op.kind \in {"allow", "deny"} /\ OnConfig(op) /\ (op.kind = "deny" => ~s.conf.here)
      BY <1>4 DEF NothingToDo, OnConfig
    <2>3. SeenInv => SeenInv'
      BY <1>1, <2>1, Starting DEF SeenInv
    <2> QED BY <1>1, <1>3, <2>1, <2>2, <2>3 DEF SeenInv
  <1>5. CASE /\ ~NothingToDo(op, s)
             /\ call' = [call EXCEPT ![c].at = "write", ![c].seen = s]
    <2>1. new \in Call /\ new.op = op /\ new.seen = s /\ new # Idle
      BY <1>2, <1>3, Starting DEF Call
    <2>2. call'[c] = new /\ \A d \in Callers \ {c} : call'[d] = call[d]
      BY <1>2, <1>5
    <2>3. op.kind \in {"allow", "deny"} => s.conf.here
      BY <1>5 DEF NothingToDo
    <2>4. ASSUME SeenInv, ~failed PROVE SeenInv'
      <3>1. IF OnConfig(op) THEN s.conf.allow = conf.allow ELSE s.rows = rows[op.file]
        BY <1>3, <2>4
      <3>2. call'[c].op = op /\ call'[c].seen = s
        BY <2>1, <2>2
      <3>3. \A d \in Callers \ {c} : call'[d].at # "write"
        BY <1>2, <2>2, Starting
      <3> HIDE DEF new, s, op
      <3>4. conf' = conf /\ rows' = rows /\ (~conf.here => conf.allow = {})
        BY <1>1, <2>4 DEF SeenInv
      <3> QED BY <2>3, <3>1, <3>2, <3>3, <3>4 DEF SeenInv, OnConfig
    <2> QED BY <1>1, <2>1, <2>2, <2>4
  <1> QED BY <1>4, <1>5 DEF Read

\* A write that succeeds settles the entry of its operation, and only that.
LEMMA StoreEffect ==
    ASSUME LegacyInv, NEW c \in Callers, NEW failed \in BOOLEAN, Store(c, failed)
    PROVE  /\ call[c] # Idle /\ call'[c] = Idle
           /\ \A d \in Callers \ {c} : call'[d] = call[d]
           /\ SeenInv /\ ~failed =>
                 /\ SeenInv'
                 /\ conf'.allow \ Mine(call[c].op) = conf.allow \ Mine(call[c].op)
                 /\ \A f \in Registries :
                       rows'[f] \ Mine(call[c].op) = rows[f] \ Mine(call[c].op)
                 /\ IF OnConfig(call[c].op) THEN rows' = rows ELSE conf' = conf
                 /\ call[c].op.kind = "deny" => call[c].op.id \notin conf'.allow
                 /\ call[c].op.kind = "remove" =>
                       call[c].op.id \notin rows'[call[c].op.file]
  <1> DEFINE op == call[c].op
             old == call[c].seen
  <1>1. call[c].at = "write" /\ call[c] # Idle /\ Return(c)
    BY Starting DEF Store
  <1>2. /\ call[c] \in Call /\ call \in [Callers -> {Idle} \cup Call]
        /\ \A d \in Callers \ {c} : call[d] = Idle
        /\ op \in Op /\ (~OnConfig(op) => op.file \in Registries)
        /\ old.conf \in Config /\ old.rows \in SUBSET Ids
        /\ conf \in Config /\ rows \in [Registries -> SUBSET Ids]
    BY <1>1, OthersIdle DEF LegacyInv, LegacyTypeOK, Call
  <1>3. call'[c] = Idle /\ \A d \in Callers \ {c} : call'[d] = call[d]
    BY <1>1, <1>2 DEF Return
  <1>4. \A d \in Callers : call'[d].at # "write"
    BY <1>2, <1>3, Starting
  <1>5. ASSUME SeenInv, ~failed
        PROVE  /\ SeenInv'
               /\ conf'.allow \ Mine(op) = conf.allow \ Mine(op)
               /\ \A f \in Registries : rows'[f] \ Mine(op) = rows[f] \ Mine(op)
               /\ IF OnConfig(op) THEN rows' = rows ELSE conf' = conf
               /\ op.kind = "deny" => op.id \notin conf'.allow
               /\ op.kind = "remove" => op.id \notin rows'[op.file]
    <2>1. CASE OnConfig(op)
      <3>1. conf' = NewConfig(op, old.conf) /\ rows' = rows
        BY <1>5, <2>1 DEF Store
      <3>2. /\ old.conf.allow = conf.allow
            /\ op.kind \in {"allow", "deny"} => old.conf.here
        BY <1>1, <1>5, <2>1 DEF SeenInv
      <3>3. NewConfig(op, old.conf).allow \ Mine(op) = old.conf.allow \ Mine(op)
        BY <1>2, <2>1, NewIsOwn
      <3>4. /\ NewConfig(op, old.conf).here
            /\ op.kind = "deny" => op.id \notin NewConfig(op, old.conf).allow
        BY <1>2, <2>1, <3>2 DEF OnConfig, NewConfig, MergedConfig, Config
      <3>5. op.kind # "remove"
        BY <2>1 DEF OnConfig
      <3>6. SeenInv'
        BY <1>4, <3>1, <3>4 DEF SeenInv
      <3> QED BY <2>1, <3>1, <3>2, <3>3, <3>4, <3>5, <3>6
    <2>2. CASE ~OnConfig(op)
      <3>1. conf' = conf /\ rows' = [rows EXCEPT ![op.file] = NewRows(op, old.rows)]
        BY <1>5, <2>2 DEF Store
      <3>2. old.rows = rows[op.file] /\ (~conf.here => conf.allow = {})
        BY <1>1, <1>5, <2>2 DEF SeenInv
      <3>3. NewRows(op, old.rows) \ Mine(op) = old.rows \ Mine(op)
        BY <1>2, <2>2, NewIsOwn
      <3>4. op.kind = "remove" => op.id \notin NewRows(op, old.rows)
        BY DEF NewRows
      <3>5. op.kind # "deny"
        BY <2>2 DEF OnConfig
      <3>6. SeenInv'
        BY <1>4, <3>1, <3>2 DEF SeenInv
      <3>7. \A f \in Registries : rows'[f] = IF f = op.file THEN NewRows(op, old.rows) ELSE rows[f]
        BY <1>2, <2>2, <3>1
      <3> QED BY <1>2, <2>2, <3>1, <3>2, <3>3, <3>4, <3>5, <3>6, <3>7
    <2> QED BY <2>1, <2>2
  <1> QED BY <1>1, <1>3, <1>5

-----------------------------------------------------------------------------
(***************************************************************************)
(* The normal path and its failures.                                       *)
(***************************************************************************)
LEMMA WalkKeeps ==
    ASSUME PassInv, Walk
    PROVE  DeployTypes' /\ FlowInv' /\ PortInv' /\ GoneInv'
  <1>1. /\ UNCHANGED <<conf, rows, mu, call, env, api, cache, watch, gateway, edits, writes, recorded>>
        /\ (faults' = 0 => faults = 0) /\ (Leader' <=> Leader)
    BY DEF Walk, legacy, resource, kube, Counts, Leader
  <1>2. DeployTypes'
    BY <1>1 DEF PassInv, DeployTypes, Walk, Onward, Counts, Early, Late, Steps
  <1>3. /\ pc \notin Waits /\ pc # "idle" /\ pc' # "idle" /\ pc' \notin Waits
        /\ pc \notin Deleting /\ pc' \notin Deleting
        /\ pc \in (Early \cup Late) \ {"end"} /\ pc' \in Early \cup Late
    BY DEF Walk, Onward, Early, Late, Waits, Deleting
  <1>4. FlowInv'
    <2>1. WatchInv'
      BY <1>1 DEF PassInv, FlowInv, WatchInv
    <2> QED BY <1>1, <1>3, <2>1 DEF PassInv, FlowInv, Walk, Onward
  <1>5. PortInv'
    <2>1. Open' = Open
      BY <1>1 DEF Open
    <2>2. Leader => Open = {}
      BY DEF PassInv, FlowInv, Open
    <2>3. /\ pc \notin Exposing \/ Leader
          /\ pc' \in Exposing => Leader
      BY DEF Walk, Onward, Early, Exposing
    <2>4. pc' # "unexpose" /\ pc' # "finalizer" /\ (pc' \in Before => pc \in Before)
      BY <1>3 DEF Walk, Onward, Deleting, Early, Late
    <2>5. work'.exposed = work.exposed /\ work'.base = work.base
          /\ (archive' = "partial" => pc' = "download" \/ (archive = "partial" /\ pc # "download"))
      BY DEF Walk, Onward
    <2> QED BY <1>1, <1>3, <2>1, <2>2, <2>3, <2>4, <2>5 DEF PassInv, PortInv, Before
  <1>6. GoneInv'
    <2>1. api'.fin
      BY <1>1, <1>3 DEF PassInv, FlowInv
    <2>2. pc' \notin Denied' /\ pc' \notin Unrowed' /\ pc' \notin {"deny.wait", "unrow.wait"}
      BY <1>3 DEF Denied, Unrowed, Deleting
    <2>3. SeenInv => SeenInv'
      BY <1>1 DEF SeenInv
    <2> QED BY <1>1, <1>3, <2>1, <2>2, <2>3 DEF PassInv, GoneInv
  <1> QED BY <1>2, <1>4, <1>5, <1>6

\* What the next pass will know of openclaw.json.
LEMMA WalkReady ==
    ASSUME PassInv, Walk, store'.openclaw = store.openclaw, pc \in Early <=> pc' \in Early
    PROVE  ReadyInv'
  <1>1. /\ env' = env /\ api' = api /\ recorded' = recorded
        /\ (Leader' <=> Leader) /\ (Ready' <=> Ready)
    BY DEF Walk, resource, kube, Leader, Ready
  <1>2. /\ pc \in Late <=> pc' \in Late
        /\ pc \in (Early \cup Late) \ {"end"} /\ pc' # "infra"
    BY DEF Walk, Onward, Early, Late
  <1>3. work'.update = work.update /\ work'.failed = work.failed /\ work'.phase = work.phase
        /\ (work'.user \/ (pc # "infra" /\ work'.user = work.user))
    BY DEF Walk
  <1> QED BY <1>1, <1>2, <1>3 DEF PassInv, ReadyInv

LEMMA FailingKeeps == ASSUME PassInv, Failing PROVE PassInv'
  <1>1. /\ UNCHANGED <<conf, rows, mu, call, env, api, cache, watch, edits, writes, recorded,
                       local, store, gateway>>
        /\ (Leader' <=> Leader) /\ archive' \in {archive, "none"}
    BY DEF Failing, legacy, resource, kube, Leader
  <1>2. PICK user \in BOOLEAN : Fail(user) /\ (user \/ "fatal" \in env.faults)
    BY DEF Failing
  <1>3. /\ work' \in Work /\ seen' \in Sight
        /\ pc' = IF Leader THEN "context" ELSE "end"
        /\ work'.user = user /\ work'.failed = TRUE /\ work'.base = work.base
        /\ work'.phase = work.phase /\ work'.update = work.update
    BY <1>2, FailEffect DEF PassInv
  <1>4. faults' # 0
    BY DEF Failing, Counts, PassInv, PortInv
  <1>5. DeployTypes'
    BY <1>1, <1>3 DEF PassInv, DeployTypes, Failing, Counts, Steps
  <1>6. /\ pc \notin Waits /\ (pc = "container" => "fatal" \in env.faults)
        /\ (pc \in Early \/ pc = "container") /\ pc \in (Early \cup Late) \ {"end"}
    BY DEF Failing, Early, Late, Waits
  <1>7. FlowInv'
    <2>1. WatchInv'
      BY <1>1 DEF PassInv, FlowInv, WatchInv
    <2> QED BY <1>1, <1>3, <1>6, <2>1 DEF PassInv, FlowInv, Waits, Deleting, Early, Late
  <1>8. PortInv' /\ GoneInv'
    BY <1>1, <1>3, <1>4, <1>6 DEF PassInv, PortInv, GoneInv
  <1>9. FreshInv'
    BY <1>3 DEF FreshInv
  <1>10. ReadyInv'
    <2>1. store.openclaw.custom => store.openclaw.here
      BY DEF PassInv, ReadyInv
    <2>2. ~Leader => (work.update <=> work.phase = "Running")
      BY <1>6 DEF PassInv, ReadyInv
    <2>3. pc' \in Late /\ pc' \notin Early /\ (~Leader => pc' = "end")
      BY <1>3 DEF Early, Late
    <2>4. ASSUME recorded, "fatal" \notin env.faults
          PROVE  user /\ (store.openclaw.here => work.update)
      BY <1>2, <1>6, <2>4 DEF PassInv, ReadyInv
    <2> QED BY <1>1, <1>3, <2>1, <2>2, <2>3, <2>4 DEF ReadyInv
  <1> QED BY <1>5, <1>7, <1>8, <1>9, <1>10 DEF PassInv

\* Nothing read is in use after such a step.
LEMMA WalkFresh ==
    ASSUME pc' \notin {"agents.put", "context.put", "openclaw.put"} PROVE FreshInv'
  BY DEF FreshInv

LEMMA WalkInv ==
    ASSUME PassInv, Walk, store'.openclaw = store.openclaw, pc \in Early <=> pc' \in Early,
           pc' \notin {"agents.put", "context.put", "openclaw.put"}
    PROVE  PassInv'
  BY WalkKeeps, WalkReady, WalkFresh DEF PassInv

LEMMA NormalKeeps ==
    ASSUME PassInv,
           Infra \/ Resolve \/ Download \/ Package \/ Inline \/ SeedLocal \/ GetOpenClaw
              \/ PutOpenClaw \/ PutSoul \/ GetAgents \/ PutAgents \/ Container \/ GetContext
              \/ PutContext
    PROVE  PassInv'
  <1>1. DeployTypes /\ FlowInv
    BY DEF PassInv
  <1>2. CASE Infra
    <2>1. pc = "infra" /\ (Failing \/ (Walk /\ store' = store /\ pc' \in Early \ {"openclaw.put"}))
      BY <1>1, <1>2, InfraEffect
    <2> QED BY <2>1, FailingKeeps, WalkInv DEF Early
  <1>3. CASE Resolve
    BY <1>1, <1>3, ResolveEffect, FailingKeeps, WalkInv DEF Early
  <1>4. CASE Download
    BY <1>1, <1>4, DownloadEffect, FailingKeeps, WalkInv DEF Early
  <1>5. CASE Package
    BY <1>1, <1>5, PackageEffect, FailingKeeps, WalkInv DEF Early
  <1>6. CASE Inline
    BY <1>1, <1>6, InlineEffect, WalkInv DEF Early
  <1>7. CASE SeedLocal
    BY <1>1, <1>7, SeedLocalEffect, WalkInv DEF Early
  <1>8. CASE GetOpenClaw
    <2>1. /\ pc = "openclaw" /\ Walk /\ store' = store /\ pc' = "openclaw.put"
          /\ "read" \notin env.faults /\ work.update => seen'.openclaw = store.openclaw
      BY <1>1, <1>8, GetOpenClawEffect
    <2>2. work'.update = work.update /\ env' = env
      BY <2>1 DEF Walk, resource
    <2>3. FreshInv'
      BY <2>1, <2>2 DEF FreshInv, Trusted
    <2>4. ReadyInv'
      BY <2>1, WalkReady DEF Early
    <2> QED BY <2>1, <2>3, <2>4, WalkKeeps DEF PassInv
  <1>9. CASE PutOpenClaw
    <2>1. CASE Failing
      BY <2>1, FailingKeeps
    <2>2. CASE ~Failing
      <3>1. /\ pc = "openclaw.put" /\ Walk /\ pc' = "soul" /\ work' = work
            /\ store'.openclaw.here
        BY <1>1, <1>9, <2>2, PutOpenClawEffect
      <3>2. env' = env /\ recorded' = recorded /\ (Leader' <=> Leader)
        BY <3>1 DEF Walk, resource, Leader
      <3>3. ReadyInv'
        BY <3>1, <3>2 DEF PassInv, ReadyInv, Early, Late
      <3> QED BY <3>1, <3>3, WalkKeeps, WalkFresh DEF PassInv
    <2> QED BY <2>1, <2>2
  <1>10. CASE PutSoul
    BY <1>1, <1>10, PutSoulEffect, WalkInv DEF Early
  <1>11. CASE GetAgents
    <2>1. /\ pc = "agents" /\ Walk /\ store' = store /\ pc' = "agents.put" /\ work' = work
          /\ "read" \notin env.faults /\ work.spec.agents = "none" => seen'.agents = store.agents
      BY <1>1, <1>11, GetAgentsEffect
    <2>2. env' = env
      BY <2>1 DEF Walk, resource
    <2>3. FreshInv'
      BY <2>1, <2>2 DEF FreshInv, Trusted
    <2>4. ReadyInv'
      BY <2>1, WalkReady DEF Early
    <2> QED BY <2>1, <2>3, <2>4, WalkKeeps DEF PassInv
  <1>12. CASE PutAgents
    BY <1>1, <1>12, PutAgentsEffect, WalkInv DEF Early
  <1>13. CASE Container
    BY <1>1, <1>13, ContainerEffect, FailingKeeps, WalkInv DEF Early
  <1>14. CASE GetContext
    <2>1. /\ pc = "context" /\ Walk /\ store' = store /\ pc' = "context.put"
          /\ "read" \notin env.faults => seen'.agents = store.agents
      BY <1>1, <1>14, GetContextEffect
    <2>2. env' = env
      BY <2>1 DEF Walk, resource
    <2>3. FreshInv'
      BY <2>1, <2>2 DEF FreshInv, Trusted
    <2>4. ReadyInv'
      BY <2>1, WalkReady DEF Early
    <2> QED BY <2>1, <2>3, <2>4, WalkKeeps DEF PassInv
  <1>15. CASE PutContext
    BY <1>1, <1>15, PutContextEffect, WalkInv DEF Early
  <1> QED BY <1>2, <1>3, <1>4, <1>5, <1>6, <1>7, <1>8, <1>9, <1>10, <1>11, <1>12, <1>13, <1>14,
             <1>15

-----------------------------------------------------------------------------
(***************************************************************************)
(* The ends of a pass, and the ports.                                      *)
(***************************************************************************)
LEMMA BeginKeeps == ASSUME PassInv, Begin PROVE PassInv'
  <1>1. /\ pc = "idle" /\ work' \in Work /\ work'.failed = FALSE
        /\ recorded' \in BOOLEAN /\ (recorded' => recorded)
        /\ recorded' => /\ work'.exposed = api.status.exposed
                        /\ work'.base.status = api.status
                        /\ work'.update <=> Ready
        /\ ~Leader => (work'.update <=> work'.phase = "Running")
        /\ UNCHANGED <<legacy, kube, env, edits, writes, seen, files, gateway, faults>>
    BY ReadsEffect DEF PassInv, Begin
  <1>2. /\ UNCHANGED <<conf, rows, mu, call, env, api, cache, watch, seen, archive, local, store,
                       gateway, edits, writes, faults>>
        /\ (Leader' <=> Leader)
    BY <1>1 DEF legacy, kube, files, Leader
  <1>3. ~cache.deleting /\ pc' = IF cache.fin THEN "infra" ELSE "finalizer"
    BY DEF Begin
  <1>4. DeployTypes'
    BY <1>1, <1>2, <1>3 DEF PassInv, DeployTypes, Steps
  <1>5. FlowInv'
    <2>1. WatchInv' /\ (cache.fin => api.fin)
      BY <1>2, <1>3 DEF PassInv, FlowInv, WatchInv
    <2> QED BY <1>1, <1>2, <1>3, <2>1 DEF PassInv, FlowInv, Waits, Deleting, Early, Late
  <1>6. PortInv'
    BY <1>1, <1>2, <1>3 DEF PassInv, PortInv, Open, Exposing
  <1>7. GoneInv'
    <2>1. SeenInv => SeenInv'
      BY <1>2 DEF SeenInv
    <2> QED BY <1>1, <1>2, <1>3, <2>1 DEF PassInv, GoneInv, Deleting, Denied, Unrowed
  <1>8. ReadyInv'
    BY <1>1, <1>2, <1>3 DEF PassInv, ReadyInv, Ready, Early, Late
  <1> QED BY <1>3, <1>4, <1>5, <1>6, <1>7, <1>8, WalkFresh DEF PassInv

LEMMA AddFinalizerKeeps == ASSUME PassInv, AddFinalizer PROVE PassInv'
  <1> DEFINE Failed == /\ pc' = "end" /\ ~Leader /\ UNCHANGED <<api, watch>> /\ faults' # 0
                       /\ "fatal" \in env.faults /\ work'.base = work.base
                       /\ work'.update = work.update /\ work'.phase = work.phase
             Added == /\ pc' = "infra" /\ api' \in Resource /\ watch' \subseteq Resource
                      /\ Appended /\ api'.fin /\ api'.exists
                      /\ api'.deleting = api.deleting /\ api'.status = api.status
                      /\ work'.exposed = api.status.exposed /\ work'.failed = FALSE
                      /\ work'.base.status = IF Leader THEN api.status ELSE work.base.status
                      /\ ~Leader => (work'.update <=> work'.phase = "Running")
                      /\ work'.update <=> Ready
             Refused == pc' = "idle" /\ UNCHANGED <<api, watch>>
  <1>1. /\ pc = "finalizer" /\ Counts /\ work' \in Work /\ seen' \in Sight
        /\ UNCHANGED <<legacy, cache, env, edits, writes, recorded, files, gateway>>
        /\ Failed \/ Added \/ Refused
    BY AddFinalizerEffect DEF PassInv
  <1>2. /\ UNCHANGED <<conf, rows, mu, call, env, cache, recorded, archive, local, store,
                       gateway, edits, writes>>
        /\ (Leader' <=> Leader) /\ (faults' = 0 => faults = 0)
    BY <1>1 DEF legacy, files, Leader, Counts
  <1>3. pc' \in {"end", "infra", "idle"} /\ (api' = api \/ api'.fin)
        /\ api'.status = api.status
    BY <1>1
  <1>4. DeployTypes'
    <2>1. api' \in Resource /\ watch' \subseteq Resource
      BY <1>1 DEF PassInv, DeployTypes
    <2> QED BY <1>1, <1>2, <1>3, <2>1 DEF PassInv, DeployTypes, Steps, Counts
  <1>5. WatchInv'
    <2>1. WatchInv /\ DeployTypes
      BY DEF PassInv, FlowInv
    <2>2. CASE Added
      BY <1>2, <2>1, <2>2, WatchKeeps
    <2>3. CASE UNCHANGED <<api, watch>>
      BY <1>2, <2>1, <2>3 DEF WatchInv
    <2> QED BY <1>1, <2>2, <2>3
  <1>6. FlowInv'
    BY <1>1, <1>2, <1>5 DEF PassInv, FlowInv, Waits, Deleting, Early, Late
  <1>7. PortInv'
    <2>1. Open' = Open
      BY <1>2 DEF Open
    <2>2. faults = 0 => archive # "partial"
      BY <1>1 DEF PassInv, PortInv
    <2>3. recorded => work.base.status = api.status
      BY <1>1 DEF PassInv, PortInv
    <2>4. recorded /\ faults = 0 => Open \subseteq api.status.exposed
      BY <1>1 DEF PassInv, PortInv, Exposing
    <2> QED BY <1>1, <1>2, <1>3, <2>1, <2>2, <2>3, <2>4 DEF PortInv, Exposing, Early, Late
  <1>8. GoneInv'
    <2>1. SeenInv => SeenInv'
      BY <1>2 DEF SeenInv
    <2>2. pc' \notin Deleting /\ pc' \notin Denied' /\ pc' \notin Unrowed'
      BY <1>3 DEF Deleting, Denied, Unrowed
    <2>3. ~api'.fin => ~api.fin
      BY <1>3
    <2> QED BY <1>2, <1>3, <2>1, <2>2, <2>3 DEF PassInv, GoneInv
  <1>9. ReadyInv'
    <2>1. Ready' <=> Ready
      BY <1>2, <1>3 DEF Ready
    <2>2. ~Leader => (work.update <=> work.phase = "Running")
      BY <1>1 DEF PassInv, ReadyInv
    <2>3. store.openclaw.custom => store.openclaw.here
      BY DEF PassInv, ReadyInv
    <2>4. recorded /\ "fatal" \notin env.faults /\ store.openclaw.here => Ready
      BY <1>1 DEF PassInv, ReadyInv, Late
    <2> QED BY <1>1, <1>2, <2>1, <2>2, <2>3, <2>4 DEF ReadyInv, Early, Late
  <1> QED BY <1>3, <1>4, <1>6, <1>7, <1>8, <1>9, WalkFresh DEF PassInv

LEMMA ExposeKeeps == ASSUME PassInv, Expose PROVE PassInv'
  <1>1. /\ pc = "expose" /\ pc' = "allow" /\ ~Leader
        /\ UNCHANGED <<legacy, resource, seen, files>> /\ Counts
        /\ work' \in Work /\ work'.user = work.user /\ work'.failed = work.failed
        /\ work'.base = work.base /\ work'.phase = work.phase /\ work'.update = work.update
        /\ gateway' \subseteq {"cr"} \X Ports
        /\ faults' = 0 /\ Open \subseteq work.exposed => Open' \subseteq work'.exposed
    BY ExposeEffect DEF PassInv
  <1>2. /\ UNCHANGED <<conf, rows, mu, call, env, api, cache, watch, seen, archive, local, store,
                       edits, writes, recorded>>
        /\ ~Leader' /\ (faults' = 0 => faults = 0)
    BY <1>1 DEF legacy, resource, kube, files, Leader, Counts
  <1>3. DeployTypes'
    BY <1>1, <1>2 DEF PassInv, DeployTypes, Steps, Counts
  <1>4. FlowInv'
    <2>1. WatchInv'
      BY <1>2 DEF PassInv, FlowInv, WatchInv
    <2> QED BY <1>1, <1>2, <2>1 DEF PassInv, FlowInv, Waits, Deleting, Late
  <1>5. PortInv'
    BY <1>1, <1>2 DEF PassInv, PortInv, Exposing, Early, Late
  <1>6. GoneInv'
    <2>1. SeenInv => SeenInv'
      BY <1>2 DEF SeenInv
    <2>2. api.fin
      BY <1>1 DEF PassInv, FlowInv, Late
    <2> QED BY <1>1, <1>2, <2>1, <2>2 DEF PassInv, GoneInv, Deleting, Denied, Unrowed
  <1>7. ReadyInv'
    BY <1>1, <1>2 DEF PassInv, ReadyInv, Early, Late
  <1> QED BY <1>1, <1>3, <1>4, <1>5, <1>6, <1>7, WalkFresh DEF PassInv

LEMMA EndKeeps == ASSUME PassInv, End PROVE PassInv'
  <1>1. /\ pc = "end" /\ pc' = "idle"
        /\ UNCHANGED <<legacy, cache, env, edits, writes, seen, files, gateway>>
        /\ Counts /\ work' \in Work /\ api' \in Resource /\ watch' \subseteq Resource
        /\ Appended /\ UNCHANGED <<api.exists, api.fin, api.deleting>>
        /\ recorded' \in BOOLEAN
        /\ recorded' => /\ recorded
                        /\ api'.status.user = work.user
                        /\ api'.status.exposed = IF Leader THEN {} ELSE work.exposed
                        /\ ~Leader => api'.status.phase = IF work.failed THEN FailedPhase(work.user)
                                                         ELSE "Running"
    BY EndEffect DEF PassInv
  <1>2. /\ UNCHANGED <<conf, rows, mu, call, env, cache, seen, archive, local, store,
                       gateway, edits, writes>>
        /\ (Leader' <=> Leader) /\ (faults' = 0 => faults = 0)
    BY <1>1 DEF legacy, files, Leader, Counts
  <1>3. DeployTypes'
    BY <1>1, <1>2 DEF PassInv, DeployTypes, Counts
  <1>4. FlowInv'
    <2>1. WatchInv /\ DeployTypes
      BY DEF PassInv, FlowInv
    <2>2. \A v \in watch \cup {cache} : v.fin /\ ~v.deleting => api'.fin
      BY <1>1, <2>1 DEF WatchInv
    <2>3. (api'.fin => api'.exists) /\ (api.deleting => api'.deleting)
      BY <1>1, <2>1 DEF WatchInv
    <2>4. WatchInv'
      BY <1>1, <1>2, <2>1, <2>2, <2>3, WatchKeeps
    <2> QED BY <1>1, <1>2, <2>4 DEF PassInv, FlowInv, Waits, Deleting, Early, Late
  <1>5. PortInv'
    <2>1. Leader => Open = {}
      BY DEF PassInv, FlowInv, Open
    <2>2. Open' = Open
      BY <1>2 DEF Open
    <2> QED BY <1>1, <1>2, <2>1, <2>2 DEF PassInv, PortInv, Exposing, Early, Late
  <1>6. GoneInv'
    <2>1. SeenInv => SeenInv'
      BY <1>2 DEF SeenInv
    <2>2. pc' \notin Deleting /\ pc' \notin Denied' /\ pc' \notin Unrowed'
      BY <1>1 DEF Deleting, Denied, Unrowed
    <2>3. ~api'.fin => ~api.fin
      BY <1>1
    <2> QED BY <1>1, <1>2, <2>1, <2>2, <2>3 DEF PassInv, GoneInv
  <1>7. ReadyInv'
    <2>1. store.openclaw.custom => store.openclaw.here
      BY DEF PassInv, ReadyInv
    <2>2. ASSUME recorded', "fatal" \notin env.faults, store.openclaw.here PROVE Ready'
      <3>1. recorded /\ work.user
            /\ (~Leader /\ work.failed => work.phase = "Running")
        BY <1>1, <2>2 DEF PassInv, ReadyInv, Late
      <3>2. ~Leader => api'.status.phase = "Running"
        BY <1>1, <2>2, <3>1 DEF FailedPhase
      <3> QED BY <1>1, <1>2, <2>2, <3>1, <3>2 DEF Ready
    <2> QED BY <1>1, <1>2, <2>1, <2>2 DEF ReadyInv, Early, Late
  <1> QED BY <1>1, <1>3, <1>4, <1>5, <1>6, <1>7, WalkFresh DEF PassInv

LEMMA BeginDeleteKeeps == ASSUME PassInv, BeginDelete PROVE PassInv'
  <1>1. /\ pc = "idle" /\ work' \in Work
        /\ recorded' \in BOOLEAN /\ (recorded' => recorded)
        /\ recorded' => work'.exposed = api.status.exposed
        /\ UNCHANGED <<legacy, kube, env, edits, writes, seen, files, gateway, faults>>
    BY ReadsEffect DEF PassInv, BeginDelete
  <1>2. /\ UNCHANGED <<conf, rows, mu, call, env, api, cache, watch, seen, archive, local, store,
                       gateway, edits, writes, faults>>
        /\ (Leader' <=> Leader)
    BY <1>1 DEF legacy, kube, files, Leader
  <1>3. cache.deleting /\ pc' = "unexpose"
    BY DEF BeginDelete
  <1>4. DeployTypes'
    BY <1>1, <1>2, <1>3 DEF PassInv, DeployTypes, Steps
  <1>5. FlowInv'
    <2>1. WatchInv'
      BY <1>2 DEF PassInv, FlowInv, WatchInv
    <2> QED BY <1>1, <1>2, <1>3, <2>1 DEF PassInv, FlowInv, Waits, Deleting, Early, Late
  <1>6. PortInv'
    BY <1>1, <1>2, <1>3 DEF PassInv, PortInv, Open, Exposing, Early, Late
  <1>7. GoneInv'
    <2>1. SeenInv => SeenInv'
      BY <1>2 DEF SeenInv
    <2> QED BY <1>1, <1>2, <1>3, <2>1 DEF PassInv, GoneInv, Deleting, Denied, Unrowed
  <1>8. ReadyInv'
    BY <1>1, <1>2, <1>3 DEF PassInv, ReadyInv, Ready, Early, Late
  <1> QED BY <1>3, <1>4, <1>5, <1>6, <1>7, <1>8, WalkFresh DEF PassInv

LEMMA UnexposeKeeps == ASSUME PassInv, Unexpose PROVE PassInv'
  <1>1. /\ pc = "unexpose" /\ pc' = "cleanup"
        /\ UNCHANGED <<legacy, resource, work, seen, files, faults>>
        /\ gateway' \subseteq gateway
        /\ ~env.renamed /\ Open \subseteq work.exposed => gateway' = {}
    BY UnexposeEffect DEF PassInv
  <1>2. /\ UNCHANGED <<conf, rows, mu, call, env, api, cache, watch, work, seen, archive, local,
                       store, edits, writes, recorded, faults>>
        /\ (Leader' <=> Leader)
    BY <1>1 DEF legacy, resource, kube, files, Leader
  <1>3. DeployTypes'
    BY <1>1, <1>2 DEF PassInv, DeployTypes, Steps
  <1>4. FlowInv'
    <2>1. WatchInv'
      BY <1>2 DEF PassInv, FlowInv, WatchInv
    <2> QED BY <1>1, <1>2, <2>1 DEF PassInv, FlowInv, Waits, Deleting, Early, Late
  <1>5. PortInv'
    <2>1. Open' \subseteq Open
      BY <1>1 DEF Open
    <2> QED BY <1>1, <1>2, <2>1 DEF PassInv, PortInv, Exposing, Early, Late
  <1>6. GoneInv'
    <2>1. SeenInv => SeenInv'
      BY <1>2 DEF SeenInv
    <2>3. faults = 0 /\ recorded => Open \subseteq work.exposed
      BY <1>1 DEF PassInv, PortInv, Exposing
    <2> QED BY <1>1, <1>2, <2>1, <2>3 DEF PassInv, GoneInv, Deleting, Denied, Unrowed
  <1>7. ReadyInv'
    BY <1>1, <1>2 DEF PassInv, ReadyInv, Ready, Early, Late
  <1> QED BY <1>1, <1>3, <1>4, <1>5, <1>6, <1>7, WalkFresh DEF PassInv

LEMMA CleanupKeeps == ASSUME PassInv, Cleanup PROVE PassInv'
  <1>1. /\ pc = "cleanup" /\ pc' = IF Leader THEN "unrow" ELSE "deny"
        /\ UNCHANGED <<legacy, resource, work, seen, archive, local, gateway>>
        /\ Counts /\ store' \in Files
        /\ (store' = store /\ faults' # 0) \/ store' = NoFiles
    BY CleanupEffect DEF PassInv
  <1>2. /\ UNCHANGED <<conf, rows, mu, call, env, api, cache, watch, work, seen, archive, local,
                       gateway, edits, writes, recorded>>
        /\ (Leader' <=> Leader) /\ (faults' = 0 => faults = 0)
    BY <1>1 DEF legacy, resource, kube, Leader, Counts
  <1>3. DeployTypes'
    BY <1>1, <1>2 DEF PassInv, DeployTypes, Steps, Counts
  <1>4. FlowInv'
    <2>1. WatchInv'
      BY <1>2 DEF PassInv, FlowInv, WatchInv
    <2> QED BY <1>1, <1>2, <2>1 DEF PassInv, FlowInv, Waits, Deleting, Early, Late
  <1>5. PortInv'
    BY <1>1, <1>2 DEF PassInv, PortInv, Exposing, Early, Late, Open
  <1>6. GoneInv'
    <2>1. SeenInv => SeenInv'
      BY <1>2 DEF SeenInv
    <2> QED BY <1>1, <1>2, <2>1 DEF PassInv, GoneInv, Deleting, Denied, Unrowed
  <1>7. ReadyInv'
    <2>1. store' = store \/ (store'.openclaw.here = FALSE /\ store'.openclaw.custom = FALSE)
      BY <1>1 DEF NoFiles, NoOpenClaw
    <2> QED BY <1>1, <1>2, <2>1 DEF PassInv, ReadyInv, Ready, Early, Late
  <1> QED BY <1>1, <1>3, <1>4, <1>5, <1>6, <1>7, WalkFresh DEF PassInv

LEMMA UnfinalizeKeeps == ASSUME PassInv, Unfinalize PROVE PassInv'
  <1>1. /\ pc = "unfinalize" /\ pc' = "idle" /\ work' \in Work
        /\ UNCHANGED <<legacy, cache, env, edits, writes, recorded, seen, files, gateway, faults>>
        /\ \/ UNCHANGED <<api, watch>>
           \/ /\ api' \in Resource /\ watch' \subseteq Resource /\ Appended /\ ~api'.fin
              /\ api'.deleting = api.deleting /\ api'.status = api.status
    BY UnfinalizeEffect DEF PassInv
  <1>2. /\ UNCHANGED <<conf, rows, mu, call, env, cache, recorded, seen, archive, local, store,
                       gateway, edits, writes, faults>>
        /\ (Leader' <=> Leader) /\ api'.status = api.status
    BY <1>1 DEF legacy, files, Leader
  <1>3. DeployTypes'
    <2>1. api' \in Resource /\ watch' \subseteq Resource
      BY <1>1 DEF PassInv, DeployTypes
    <2> QED BY <1>1, <1>2, <2>1 DEF PassInv, DeployTypes
  <1>4. FlowInv'
    <2>1. WatchInv /\ DeployTypes /\ cache.deleting
      BY <1>1 DEF PassInv, FlowInv, Deleting
    <2>2. WatchInv'
      <3>1. CASE UNCHANGED <<api, watch>>
        BY <1>2, <2>1, <3>1 DEF WatchInv
      <3>2. CASE Appended /\ ~api'.fin /\ api'.deleting = api.deleting
        <4>1. \A v \in watch \cup {cache} : v.deleting
          BY <2>1 DEF WatchInv
        <4> QED BY <1>2, <2>1, <3>2, <4>1, WatchKeeps
      <3> QED BY <1>1, <3>1, <3>2
    <2> QED BY <1>1, <1>2, <2>2 DEF PassInv, FlowInv, Waits, Deleting, Early, Late
  <1>5. PortInv'
    BY <1>1, <1>2 DEF PassInv, PortInv, Exposing, Early, Late, Open
  <1>6. GoneInv'
    <2>1. SeenInv => SeenInv'
      BY <1>2 DEF SeenInv
    <2> QED BY <1>1, <1>2, <2>1 DEF PassInv, GoneInv, Deleting, Denied, Unrowed
  <1>7. ReadyInv'
    BY <1>1, <1>2 DEF PassInv, ReadyInv, Ready, Early, Late
  <1> QED BY <1>1, <1>3, <1>4, <1>5, <1>6, <1>7, WalkFresh DEF PassInv

-----------------------------------------------------------------------------
(***************************************************************************)
(* The pass's calls of LegacyCompat.                                       *)
(***************************************************************************)
LEMMA CallStarts ==
    ASSUME PassInv, LegacyInv, NEW op, Enter("worker", op),
           UNCHANGED <<resource, work, seen, files, gateway, faults>>,
           \/ pc = "allow" /\ pc' = "allow.wait"
           \/ pc = "row" /\ pc' = "row.wait"
           \/ pc = "deny" /\ pc' = "deny.wait" /\ op.kind = "deny" /\ (env.renamed \/ op.id = "cr")
           \/ /\ pc = "unrow" /\ pc' = "unrow.wait" /\ op.kind = "remove"
              /\ op.file = "workers" /\ (env.renamed \/ op.id = "cr")
    PROVE  PassInv'
  <1>1. /\ UNCHANGED <<env, api, cache, watch, work, seen, archive, local, store,
                       gateway, edits, writes, recorded, faults>>
        /\ (Leader' <=> Leader)
    BY DEF resource, kube, files, Leader
  <1>2. /\ conf' = conf /\ rows' = rows
        /\ call'["worker"] # Idle /\ call'["worker"].op = op
        /\ \A d \in Callers \ {"worker"} : call'[d] = call[d]
        /\ SeenInv => SeenInv'
    BY EnterEffect, NamesAssumption
  <1>3. DeployTypes'
    BY <1>1 DEF PassInv, DeployTypes, Steps
  <1>4. FlowInv'
    <2>1. WatchInv'
      BY <1>1 DEF PassInv, FlowInv, WatchInv
    <2> QED BY <1>1, <1>2, <2>1 DEF PassInv, FlowInv, Waits, Deleting, Early, Late
  <1>5. PortInv'
    BY <1>1 DEF PassInv, PortInv, Exposing, Early, Late, Open
  <1>6. GoneInv'
    BY <1>1, <1>2 DEF PassInv, GoneInv, Deleting, Denied, Unrowed
  <1>7. ReadyInv'
    BY <1>1 DEF PassInv, ReadyInv, Ready, Early, Late
  <1> QED BY <1>3, <1>4, <1>5, <1>6, <1>7, WalkFresh DEF PassInv

LEMMA CallEnds ==
    ASSUME PassInv, call["worker"] = Idle,
           UNCHANGED <<legacy, resource, work, seen, files, gateway, faults>>,
           \/ pc = "allow.wait" /\ pc' = IF Leader THEN "end" ELSE "row"
           \/ pc = "row.wait" /\ pc' = IF Leader THEN "context" ELSE "end"
           \/ pc = "deny.wait" /\ pc' = IF Leader THEN "unfinalize" ELSE "unrow"
           \/ pc = "unrow.wait" /\ pc' = IF Leader THEN "deny" ELSE "unfinalize"
    PROVE  PassInv'
  <1>1. /\ UNCHANGED <<conf, rows, mu, call, env, api, cache, watch, work, seen, archive, local,
                       store, gateway, edits, writes, recorded, faults>>
        /\ (Leader' <=> Leader)
    BY DEF legacy, resource, kube, files, Leader
  <1>2. DeployTypes'
    BY <1>1 DEF PassInv, DeployTypes, Steps
  <1>3. FlowInv'
    <2>1. WatchInv'
      BY <1>1 DEF PassInv, FlowInv, WatchInv
    <2> QED BY <1>1, <2>1 DEF PassInv, FlowInv, Waits, Deleting, Early, Late
  <1>4. PortInv'
    <2>1. Leader => Open = {}
      BY DEF PassInv, FlowInv, Open
    <2>2. Open' = Open
      BY <1>1 DEF Open
    <2> QED BY <1>1, <2>1, <2>2 DEF PassInv, PortInv, Exposing, Early, Late
  <1>5. GoneInv'
    <2>1. SeenInv => SeenInv'
      BY <1>1 DEF SeenInv
    <2> QED BY <1>1, <2>1 DEF PassInv, GoneInv, Deleting, Denied, Unrowed
  <1>6. ReadyInv'
    BY <1>1 DEF PassInv, ReadyInv, Ready, Early, Late
  <1>7. pc' \notin {"agents.put", "context.put", "openclaw.put"}
    OBVIOUS
  <1> QED BY <1>2, <1>3, <1>4, <1>5, <1>6, <1>7, WalkFresh DEF PassInv

LEMMA CallsKeep == ASSUME PassInv, LegacyInv, Allow \/ Row \/ Deny \/ Unrow PROVE PassInv'
  <1>1. CRName = "cr" /\ (env.renamed \/ RuntimeName = "cr")
    BY DEF CRName, RuntimeName
  <1>2. CASE Allow
    BY <1>2, CallStarts, CallEnds DEF Allow, LegacyStep
  <1>3. CASE Row
    BY <1>3, CallStarts, CallEnds DEF Row, LegacyStep
  <1>4. CASE Deny
    <2> DEFINE op == [kind |-> "deny", file |-> "openclaw.json",
                      id |-> IF Leader THEN RuntimeName ELSE CRName]
    <2>1. op.kind = "deny" /\ (env.renamed \/ op.id = "cr")
      BY <1>1
    <2>2. \/ /\ pc = "deny" /\ Enter("worker", op) /\ pc' = "deny.wait"
             /\ UNCHANGED <<resource, work, seen, files, gateway, faults>>
          \/ /\ pc = "deny.wait" /\ call["worker"] = Idle
             /\ pc' = IF Leader THEN "unfinalize" ELSE "unrow"
             /\ UNCHANGED <<legacy, resource, work, seen, files, gateway, faults>>
      BY <1>4 DEF Deny, LegacyStep
    <2> HIDE DEF op
    <2> QED BY <2>1, <2>2, CallStarts, CallEnds
  <1>5. CASE Unrow
    <2> DEFINE op == [kind |-> "remove", file |-> "workers", id |-> RuntimeName]
    <2>1. op.kind = "remove" /\ op.file = "workers" /\ (env.renamed \/ op.id = "cr")
      BY <1>1
    <2>2. \/ /\ pc = "unrow" /\ Enter("worker", op) /\ pc' = "unrow.wait"
             /\ UNCHANGED <<resource, work, seen, files, gateway, faults>>
          \/ /\ pc = "unrow.wait" /\ call["worker"] = Idle
             /\ pc' = IF Leader THEN "deny" ELSE "unfinalize"
             /\ UNCHANGED <<legacy, resource, work, seen, files, gateway, faults>>
      BY <1>5 DEF Unrow, LegacyStep
    <2> HIDE DEF op
    <2> QED BY <2>1, <2>2, CallStarts, CallEnds
  <1> QED BY <1>2, <1>3, <1>4, <1>5

-----------------------------------------------------------------------------
(***************************************************************************)
(* Everyone else.                                                          *)
(***************************************************************************)
\* A version written by the user.
LEMMA EditKeeps == ASSUME PassInv, Edit \/ Remove PROVE PassInv'
  <1> DEFINE Edited == \E s \in Specs : Write([api EXCEPT !.spec = s])
  <1>1. /\ UNCHANGED <<conf, rows, mu, call, env, cache, recorded, pc, work, seen, archive, local,
                       store, gateway, writes, faults>>
        /\ (Leader' <=> Leader) /\ Live /\ edits' \in 0..MaxEdits
        /\ Edited \/ Write(Deleted(api))
    BY Constants DEF Edit, Remove, legacy, pass, files, Leader, PassInv, DeployTypes
  <1>2. DeployTypes /\ FlowInv /\ WatchInv
    BY DEF PassInv, FlowInv
  <1>3. /\ api' \in Resource /\ watch' \subseteq Resource /\ Appended
        /\ api'.fin = api.fin /\ api'.status = api.status
        /\ (api.deleting => api'.deleting) /\ (api'.fin => api'.exists)
    <2>1. ASSUME NEW s \in Specs
          PROVE  /\ [api EXCEPT !.spec = s] \in Resource
                 /\ [api EXCEPT !.spec = s].fin = api.fin
                 /\ [api EXCEPT !.spec = s].status = api.status
                 /\ [api EXCEPT !.spec = s].exists = api.exists
                 /\ [api EXCEPT !.spec = s].deleting = api.deleting
      BY <1>2 DEF DeployTypes, Resource
    <2>2. /\ Deleted(api) \in Resource /\ Deleted(api).fin = api.fin
          /\ Deleted(api).status = api.status /\ Deleted(api).exists = api.fin
          /\ Deleted(api).deleting = TRUE
      BY <1>2 DEF DeployTypes, Resource, Deleted
    <2>3. CASE Edited
      <3>1. PICK s \in Specs : Write([api EXCEPT !.spec = s])
        BY <2>3
      <3> QED BY <1>1, <1>2, <2>1, <3>1, WriteEffect DEF Live
    <2>4. CASE Write(Deleted(api))
      BY <1>2, <2>2, <2>4, WriteEffect
    <2> QED BY <1>1, <2>3, <2>4
  <1>4. DeployTypes'
    BY <1>1, <1>3 DEF PassInv, DeployTypes
  <1>5. FlowInv'
    <2>1. \A v \in watch \cup {cache} : v.fin /\ ~v.deleting => api'.fin
      BY <1>2, <1>3 DEF WatchInv
    <2>2. WatchInv'
      BY <1>1, <1>2, <1>3, <2>1, WatchKeeps
    <2> QED BY <1>1, <1>2, <1>3, <2>2 DEF FlowInv
  <1>6. PortInv'
    BY <1>1, <1>3 DEF PassInv, PortInv, Open
  <1>7. GoneInv'
    <2>1. SeenInv => SeenInv'
      BY <1>1 DEF SeenInv
    <2> QED BY <1>1, <1>3, <2>1 DEF PassInv, GoneInv, Denied, Unrowed
  <1>8. FreshInv' /\ ReadyInv'
    BY <1>1, <1>3 DEF PassInv, FreshInv, ReadyInv, Ready, Trusted
  <1> QED BY <1>4, <1>5, <1>6, <1>7, <1>8 DEF PassInv

\* A version that the informer receives is followed by the later ones only.
LEMMA DeliverKeeps == ASSUME PassInv, Deliver PROVE PassInv'
  <1>1. /\ UNCHANGED <<conf, rows, mu, call, env, api, recorded, pc, work, seen, archive, local,
                       store, gateway, edits, writes, faults>>
        /\ (Leader' <=> Leader)
    BY DEF Deliver, Receive, legacy, pass, files, Leader
  <1>2. PICK v \in watch : cache' = v /\ watch' = {u \in watch : u.rv > v.rv}
    BY DEF Deliver, Receive
  <1>3. DeployTypes /\ FlowInv /\ WatchInv
    BY DEF PassInv, FlowInv
  <1>4. v.rv \in Nat /\ \A u \in watch : u.rv \in Nat
    BY <1>3 DEF DeployTypes, Resource
  <1>5. DeployTypes'
    BY <1>1, <1>2 DEF PassInv, DeployTypes
  <1>6. FlowInv'
    <2>1. \A u \in watch' : u \in watch /\ v.rv < u.rv
      BY <1>2, <1>4
    <2>2. WatchInv'
      BY <1>1, <1>2, <1>3, <2>1 DEF WatchInv
    <2>3. pc \in Deleting => cache'.deleting
      BY <1>2, <1>3 DEF FlowInv, WatchInv
    <2> QED BY <1>1, <1>3, <2>2, <2>3 DEF FlowInv
  <1>7. PortInv'
    BY <1>1 DEF PassInv, PortInv, Open
  <1>8. GoneInv'
    <2>1. SeenInv => SeenInv'
      BY <1>1 DEF SeenInv
    <2> QED BY <1>1, <2>1 DEF PassInv, GoneInv, Denied, Unrowed
  <1>9. FreshInv' /\ ReadyInv'
    BY <1>1 DEF PassInv, FreshInv, ReadyInv, Ready, Trusted
  <1> QED BY <1>5, <1>6, <1>7, <1>8, <1>9 DEF PassInv

\* What the agent and the user write.
LEMMA AgentEffect ==
    ASSUME DeployTypes, AgentWrites
    PROVE  /\ Live /\ (env.race \/ pc = "idle")
           /\ UNCHANGED <<rows, mu, call, env, api, cache, watch, recorded, pc, work, seen, archive,
                          local, gateway, edits, faults>>
           /\ writes' \in 0..MaxWrites /\ store' \in Files
           /\ conf'.allow = conf.allow /\ conf'.here = conf.here
           /\ store = NoFiles => store' = NoFiles
           /\ store'.openclaw.here = store.openclaw.here
           /\ store.openclaw.custom => store'.openclaw.custom
           /\ store'.openclaw.custom => store'.openclaw.here \/ store.openclaw.custom
           /\ store.soul = "agent" => store'.soul = "agent"
           /\ store.agents.user = "agent" => store'.agents.user = "agent"
           /\ store.other = "agent" => store'.other = "agent"
  <1>1. /\ Live /\ (env.race \/ pc = "idle") /\ writes' \in 0..MaxWrites
        /\ UNCHANGED <<env, api, cache, watch, recorded, pc, work, seen, archive, local, gateway,
                       edits, faults>>
    BY Constants DEF AgentWrites, DeployTypes, pass, kube
  <1>2. CASE CustomiseManager /\ UNCHANGED store
    <2>1. conf' = [conf EXCEPT !.custom = TRUE] /\ UNCHANGED <<rows, mu, call>>
      BY <1>2 DEF CustomiseManager
    <2>2. conf'.allow = conf.allow /\ conf'.here = conf.here
      BY <2>1
    <2> QED BY <1>1, <1>2, <2>1, <2>2 DEF DeployTypes
  <1>3. CASE UNCHANGED legacy /\ AgentFile
    <2>1. store.agents \in AgentsMD /\ store.openclaw \in OpenClaw
      BY Fields
    <2>2. store' \in Files
      <3>1. [store.agents EXCEPT !.user = "agent"] \in AgentsMD
        BY <2>1 DEF AgentsMD
      <3>2. [store.openclaw EXCEPT !.custom = TRUE] \in OpenClaw
        BY <2>1 DEF OpenClaw
      <3> QED BY <1>3, <3>1, <3>2 DEF AgentFile, DeployTypes, Files, Authors
    <2>3. /\ store'.openclaw.here = store.openclaw.here
          /\ store.openclaw.custom => store'.openclaw.custom
          /\ store'.openclaw.custom => store'.openclaw.here \/ store.openclaw.custom
      BY <1>3, <2>1 DEF AgentFile, DeployTypes, Files, OpenClaw
    <2>4. /\ store.soul = "agent" => store'.soul = "agent"
          /\ store.agents.user = "agent" => store'.agents.user = "agent"
          /\ store.other = "agent" => store'.other = "agent"
      BY <1>3, <2>1 DEF AgentFile, DeployTypes, Files, AgentsMD
    <2>5. store # NoFiles
      BY <1>3 DEF AgentFile, NoFiles, NoAgentsMD, NoOpenClaw
    <2> QED BY <1>1, <1>3, <2>2, <2>3, <2>4, <2>5 DEF legacy
  <1> QED BY <1>2, <1>3 DEF AgentWrites

LEMMA AgentKeeps == ASSUME PassInv, LegacyInv, AgentWrites PROVE PassInv'
  <1>1. /\ Live /\ (env.race \/ pc = "idle")
        /\ UNCHANGED <<rows, mu, call, env, api, cache, watch, recorded, pc, work, seen, archive,
                       local, gateway, edits, faults>>
        /\ store = NoFiles => store' = NoFiles
        /\ writes' \in 0..MaxWrites /\ store' \in Files
        /\ conf'.allow = conf.allow /\ conf'.here = conf.here
        /\ store'.openclaw.here = store.openclaw.here
        /\ store'.openclaw.custom => store'.openclaw.here \/ store.openclaw.custom
    BY AgentEffect DEF PassInv
  <1>2. (Leader' <=> Leader) /\ (Ready' <=> Ready)
    BY <1>1 DEF Leader, Ready
  <1>3. DeployTypes'
    BY <1>1 DEF PassInv, DeployTypes
  <1>4. FlowInv'
    <2>1. WatchInv'
      BY <1>1 DEF PassInv, FlowInv, WatchInv
    <2> QED BY <1>1, <1>2, <2>1 DEF PassInv, FlowInv
  <1>5. PortInv'
    BY <1>1, <1>2 DEF PassInv, PortInv, Open
  <1>6. GoneInv'
    <2>1. SeenInv => SeenInv'
      BY <1>1 DEF SeenInv
    <2>2. pc \notin Deleting
      BY <1>1 DEF PassInv, FlowInv, WatchInv, Live
    <2> QED BY <1>1, <1>2, <2>1, <2>2 DEF PassInv, GoneInv, Denied, Unrowed, Deleting
  <1>7. FreshInv'
    BY <1>1 DEF FreshInv, Trusted
  <1>8. ReadyInv'
    BY <1>1, <1>2 DEF PassInv, ReadyInv
  <1> QED BY <1>3, <1>4, <1>5, <1>6, <1>7, <1>8 DEF PassInv

\* A call of another reconciler, or a step of a call in progress.
LEMMA SharedKeeps ==
    ASSUME PassInv, UNCHANGED <<resource, pass, files, gateway>>, Counts,
           FlowInv', faults' = 0 /\ ~env.renamed => GoneInv'
    PROVE  PassInv'
  <1>1. /\ UNCHANGED <<env, api, cache, watch, recorded, pc, work, seen, archive, local, store,
                       gateway, edits, writes>>
        /\ (Leader' <=> Leader) /\ (faults' = 0 => faults = 0)
    BY DEF resource, kube, pass, files, Leader, Counts
  <1>2. DeployTypes'
    BY <1>1 DEF PassInv, DeployTypes, Counts
  <1>3. PortInv'
    BY <1>1 DEF PassInv, PortInv, Open
  <1>4. GoneInv'
    BY <1>1 DEF GoneInv
  <1>5. FreshInv' /\ ReadyInv'
    BY <1>1 DEF PassInv, FreshInv, ReadyInv, Ready, Trusted
  <1> QED BY <1>2, <1>3, <1>4, <1>5 DEF PassInv

LEMMA OthersKeep == ASSUME PassInv, LegacyInv, Others PROVE PassInv'
  <1>1. UNCHANGED <<resource, pass, files, gateway, faults>>
    BY DEF Others
  <1>2. \E op : \E c \in {"manager", "team"} : Enter(c, op) /\ op.id = "leader"
    <2>1. ASSUME Enter("manager", [kind |-> "put", file |-> "openclaw.json", id |-> "leader"])
          PROVE  \E op : \E c \in {"manager", "team"} : Enter(c, op) /\ op.id = "leader"
      BY <2>1
    <2>2. ASSUME NEW k, NEW f, Enter("team", [kind |-> k, file |-> f, id |-> "leader"])
          PROVE  \E op : \E c \in {"manager", "team"} : Enter(c, op) /\ op.id = "leader"
      BY <2>2
    <2> QED BY <2>1, <2>2 DEF Others
  <1> PICK op : \E c \in {"manager", "team"} : Enter(c, op) /\ op.id = "leader"
    BY <1>2
  <1> PICK c \in {"manager", "team"} : Enter(c, op) /\ op.id = "leader"
    OBVIOUS
  <1>3. c \in Callers /\ c # "worker" /\ "worker" \in Callers
    BY NamesAssumption
  <1>4. /\ conf' = conf /\ rows' = rows /\ call'[c].op.id = "leader"
        /\ \A d \in Callers \ {c} : call'[d] = call[d]
        /\ SeenInv => SeenInv'
    BY <1>3, EnterEffect
  <1>5. Counts /\ UNCHANGED <<env, api, cache, watch, recorded, pc, gateway, store>>
    BY <1>1 DEF PassInv, DeployTypes, Counts, resource, kube, pass, files
  <1>6. FlowInv'
    <2>1. WatchInv'
      BY <1>5 DEF PassInv, FlowInv, WatchInv
    <2> QED BY <1>3, <1>4, <1>5, <2>1 DEF PassInv, FlowInv, Leader
  <1>7. GoneInv'
    BY <1>1, <1>3, <1>4, <1>5 DEF PassInv, GoneInv, Denied, Unrowed, Leader
  <1> QED BY <1>1, <1>5, <1>6, <1>7, SharedKeeps

LEMMA ReadFileKeeps == ASSUME PassInv, LegacyInv, NEW c \in Callers, ReadFile(c) PROVE PassInv'
  <1>1. PICK missed \in BOOLEAN : Fault("read", missed) /\ Read(c, missed)
    BY DEF ReadFile
  <1>2. UNCHANGED <<resource, pass, files, gateway>>
    BY DEF ReadFile
  <1>3. /\ UNCHANGED <<env, api, cache, watch, recorded, pc, gateway, store>>
        /\ (Leader' <=> Leader)
    BY <1>2 DEF resource, kube, pass, files, Leader
  <1>4. Counts /\ (missed => faults' # 0) /\ (~missed => faults' = faults)
    BY <1>1, FaultCounts DEF PassInv
  <1>5. /\ conf' = conf /\ rows' = rows /\ call[c] # Idle
        /\ \A d \in Callers \ {c} : call'[d] = call[d]
        /\ call'[c] = Idle \/ (call'[c] # Idle /\ call'[c].op = call[c].op)
        /\ SeenInv /\ ~missed =>
              /\ SeenInv'
              /\ call'[c] = Idle /\ call[c].op.kind = "deny" => conf.allow = {}
              /\ call'[c] = Idle => call[c].op.kind # "remove"
    BY <1>1, ReadEffect
  <1>6. FlowInv'
    <2>1. pc \notin Waits => call'["worker"] = Idle
      BY <1>5, NamesAssumption DEF PassInv, FlowInv
    <2>2. \A d \in Callers \ {"worker"} : call'[d] # Idle => call'[d].op.id = "leader"
      BY <1>5 DEF PassInv, FlowInv
    <2>3. WatchInv'
      BY <1>3 DEF PassInv, FlowInv, WatchInv
    <2> QED BY <1>3, <2>1, <2>2, <2>3 DEF PassInv, FlowInv
  <1>7. ASSUME faults' = 0, ~env.renamed PROVE GoneInv'
    <2>1. SeenInv /\ ~missed /\ faults = 0
      BY <1>4, <1>7 DEF PassInv, GoneInv
    <2>2. "worker" \in Callers
      BY NamesAssumption
    <2> QED BY <1>3, <1>5, <1>7, <2>1, <2>2 DEF PassInv, GoneInv, Denied, Unrowed
  <1> QED BY <1>2, <1>4, <1>6, <1>7, SharedKeeps

LEMMA StoreFileKeeps == ASSUME PassInv, LegacyInv, NEW c \in Callers, StoreFile(c) PROVE PassInv'
  <1>1. PICK failed \in BOOLEAN : Fault("write", failed) /\ Store(c, failed)
    BY DEF StoreFile
  <1>2. UNCHANGED <<resource, pass, files, gateway>>
    BY DEF StoreFile
  <1>3. /\ UNCHANGED <<env, api, cache, watch, recorded, pc, gateway, store>>
        /\ (Leader' <=> Leader)
    BY <1>2 DEF resource, kube, pass, files, Leader
  <1>4. Counts /\ (failed => faults' # 0) /\ (~failed => faults' = faults)
    BY <1>1, FaultCounts DEF PassInv
  <1>5. /\ call[c] # Idle /\ call'[c] = Idle
        /\ \A d \in Callers \ {c} : call'[d] = call[d]
        /\ SeenInv /\ ~failed =>
              /\ SeenInv'
              /\ conf'.allow \ Mine(call[c].op) = conf.allow \ Mine(call[c].op)
              /\ \A f \in Registries :
                    rows'[f] \ Mine(call[c].op) = rows[f] \ Mine(call[c].op)
              /\ IF OnConfig(call[c].op) THEN rows' = rows ELSE conf' = conf
              /\ call[c].op.kind = "deny" => call[c].op.id \notin conf'.allow
              /\ call[c].op.kind = "remove" =>
                    call[c].op.id \notin rows'[call[c].op.file]
    BY <1>1, StoreEffect
  <1>6. FlowInv'
    <2>1. pc \notin Waits => call'["worker"] = Idle
      BY <1>5, NamesAssumption DEF PassInv, FlowInv
    <2>2. \A d \in Callers \ {"worker"} : call'[d] # Idle => call'[d].op.id = "leader"
      BY <1>5 DEF PassInv, FlowInv
    <2>3. WatchInv'
      BY <1>3 DEF PassInv, FlowInv, WatchInv
    <2> QED BY <1>3, <2>1, <2>2, <2>3 DEF PassInv, FlowInv
  <1>7. ASSUME faults' = 0, ~env.renamed PROVE GoneInv'
    <2>1. SeenInv /\ ~failed /\ faults = 0
      BY <1>4, <1>7 DEF PassInv, GoneInv
    <2>2. "worker" \in Callers /\ "workers" \in Registries
      BY NamesAssumption
    <2>3. CASE c # "worker"
      <3>1. call[c].op.id = "leader"
        BY <1>5, <2>3 DEF PassInv, FlowInv
      <3>2. "cr" \notin Mine(call[c].op)
        BY <3>1 DEF Mine
      <3>3. /\ "cr" \in conf'.allow <=> "cr" \in conf.allow
            /\ "cr" \in rows'["workers"] <=> "cr" \in rows["workers"]
        BY <1>5, <2>1, <2>2, <3>2
      <3>4. SeenInv' /\ call'["worker"] = call["worker"]
        BY <1>5, <2>1, <2>2, <2>3
      <3> QED BY <1>3, <1>7, <2>1, <3>3, <3>4 DEF PassInv, GoneInv, Denied, Unrowed
    <2>4. CASE c = "worker"
      <3>1. pc \in Waits /\ (pc \in {"allow.wait", "row.wait"} => api.fin)
        BY <1>5, <2>4 DEF PassInv, FlowInv, Waits, Late
      <3>2. SeenInv' /\ call'["worker"] = Idle
        BY <1>5, <2>1, <2>4
      <3>3. CASE pc \in {"allow.wait", "row.wait"}
        BY <1>3, <1>7, <2>1, <3>1, <3>2, <3>3 DEF PassInv, GoneInv, Denied, Unrowed, Deleting
      <3>4. CASE pc = "deny.wait"
        <4>1. call["worker"].op.kind = "deny" /\ call["worker"].op.id = "cr"
          BY <1>5, <1>7, <2>1, <2>4, <3>4 DEF PassInv, GoneInv
        <4>2. "cr" \notin conf'.allow /\ rows' = rows
          BY <1>5, <2>1, <2>4, <4>1 DEF OnConfig
        <4> QED BY <1>3, <1>7, <2>1, <3>1, <3>2, <3>4, <4>2 DEF PassInv, GoneInv, Denied, Unrowed
      <3>5. CASE pc = "unrow.wait"
        <4>1. call["worker"].op.kind = "remove" /\ call["worker"].op.id = "cr"
              /\ call["worker"].op.file = "workers"
          BY <1>5, <1>7, <2>1, <2>4, <3>5 DEF PassInv, GoneInv
        <4>2. "cr" \notin rows'["workers"] /\ conf' = conf
          BY <1>5, <2>1, <2>4, <4>1 DEF OnConfig
        <4> QED BY <1>3, <1>7, <2>1, <3>1, <3>2, <3>5, <4>2 DEF PassInv, GoneInv, Denied, Unrowed
      <3> QED BY <3>1, <3>3, <3>4, <3>5 DEF Waits
    <2> QED BY <2>3, <2>4
  <1> QED BY <1>2, <1>4, <1>6, <1>7, SharedKeeps

\* After a restart no pass is under way and what was recorded does not count.
LEMMA RestartKeeps == ASSUME PassInv, Crash PROVE PassInv'
  <1>1. /\ pc # "idle" /\ Fault("crash", TRUE) /\ pc' = "idle" /\ work' = NoWork /\ seen' = Unread
        /\ UNCHANGED <<env, api, edits, writes, archive, local, store, gateway>>
        /\ call' = [c \in Callers |-> Idle] /\ cache' = api /\ watch' = {} /\ recorded' = FALSE
    BY DEF Crash, LegacyCrash, Relist, files
  <1>2. Counts /\ "crash" \in env.faults /\ faults' # 0
    BY <1>1, FaultCounts DEF PassInv
  <1>3. (Leader' <=> Leader) /\ "worker" \in Callers
    BY <1>1, NamesAssumption DEF Leader
  <1>4. DeployTypes'
    BY <1>1, <1>2, Empty DEF PassInv, DeployTypes, Counts
  <1>5. FlowInv'
    <2>1. WatchInv'
      BY <1>1 DEF PassInv, FlowInv, WatchInv
    <2> QED BY <1>1, <1>3, <2>1 DEF PassInv, FlowInv, Deleting, Early, Late
  <1>6. PortInv' /\ GoneInv' /\ FreshInv'
    BY <1>1, <1>2 DEF PortInv, GoneInv, FreshInv
  <1>7. ReadyInv'
    BY <1>1, <1>2 DEF PassInv, ReadyInv, Early, Late
  <1> QED BY <1>4, <1>5, <1>6, <1>7 DEF PassInv

LEMMA IdleKeeps == ASSUME PassInv, UNCHANGED vars PROVE PassInv'
  <1>1. UNCHANGED <<conf, rows, mu, call, env, api, cache, watch, recorded, pc, work, seen, archive,
                    local, store, gateway, edits, writes, faults>>
    BY DEF vars, legacy, kube
  <1>2. DeployTypes' /\ FlowInv'
    BY <1>1 DEF PassInv, DeployTypes, FlowInv, WatchInv, Leader
  <1>3. PortInv' /\ GoneInv'
    BY <1>1 DEF PassInv, PortInv, GoneInv, Open, SeenInv, Denied, Unrowed, Leader
  <1>4. FreshInv' /\ ReadyInv'
    BY <1>1 DEF PassInv, FreshInv, ReadyInv, Ready, Trusted, Leader
  <1> QED BY <1>2, <1>3, <1>4 DEF PassInv

-----------------------------------------------------------------------------
(***************************************************************************)
(* The inductive invariant.                                                *)
(***************************************************************************)
LEMMA DeployInit == Init => DeployInv
  <1> SUFFICES ASSUME Init PROVE DeployInv
    OBVIOUS
  <1>1. LegacyInv
    BY InitEstablishes
  <1>2. /\ pc = "idle" /\ env \in Env /\ gateway = {} /\ cache = api /\ watch = {}
        /\ api \in [rv : {1}, exists : {TRUE}, fin : {FALSE}, deleting : {FALSE},
                   spec : Specs, status : {NoStatus}]
        /\ call = [c \in Callers |-> Idle] /\ conf.allow = {} /\ archive = "none"
        /\ store = NoFiles /\ "worker" \in Callers /\ rows = [f \in Registries |-> {}]
        /\ local = [soul |-> "absent", other |-> "absent"]
        /\ work = NoWork /\ seen = Unread /\ edits = 0 /\ writes = 0 /\ faults = 0
        /\ recorded = TRUE
    BY Constants, NamesAssumption DEF Init, LegacyInit, NoConfig
  <1>3. /\ api.exists = TRUE /\ api.fin = FALSE /\ api.deleting = FALSE
        /\ api.status = NoStatus /\ api \in Resource
    <2>1. NoStatus \in Status
      BY DEF NoStatus, Status
    <2> DEFINE none == NoStatus
    <2> HIDE DEF none
    <2>2. api \in [rv : {1}, exists : {TRUE}, fin : {FALSE}, deleting : {FALSE},
                   spec : Specs, status : {none}]
      BY <1>2 DEF none
    <2>3. /\ api.exists = TRUE /\ api.fin = FALSE /\ api.deleting = FALSE /\ api.status = none
          /\ api.rv = 1 /\ api.spec \in Specs
          /\ api = [rv |-> api.rv, exists |-> api.exists, fin |-> api.fin,
                    deleting |-> api.deleting, spec |-> api.spec, status |-> api.status]
      BY <2>2
    <2>4. api \in Resource
      <3>1. none \in Status
        BY <2>1 DEF none
      <3>2. /\ api.rv \in Nat /\ api.exists \in BOOLEAN /\ api.fin \in BOOLEAN
            /\ api.deleting \in BOOLEAN /\ api.spec \in Specs /\ api.status \in Status
        <4>1. api.exists \in BOOLEAN /\ api.fin \in BOOLEAN /\ api.deleting \in BOOLEAN
          BY <2>3, Zenon
        <4>2. api.rv \in Nat
          <5>1. 1 \in Nat
            OBVIOUS
          <5> QED BY <2>3, <5>1, Zenon
        <4>3. api.spec \in Specs /\ api.status \in Status
          BY <2>3, <3>1, Zenon
        <4> QED BY <4>1, <4>2, <4>3
      <3> QED BY <2>3, <3>2 DEF Resource
    <2> QED BY <2>3, <2>4 DEF none
  <1>4. DeployTypes
    <2>1. edits \in 0..MaxEdits /\ writes \in 0..MaxWrites /\ faults \in 0..MaxFaults
      <3>1. \A n \in Nat : 0 \in 0..n
        OBVIOUS
      <3> QED BY <1>2, <3>1, Constants
    <2>2. local \in Local /\ seen \in Sight /\ store \in Files
      BY <1>2 DEF Local, Authors, Unread, Sight, NoFiles, Files, NoOpenClaw, OpenClaw, NoAgentsMD,
         AgentsMD
    <2>3. work \in Work
      <3>1. (CHOOSE s \in Specs : TRUE) \in Specs
        BY <1>2
      <3> QED BY <1>2, <3>1 DEF NoWork, Work, NoStatus, Status
    <2> QED BY <1>2, <1>3, <2>1, <2>2, <2>3 DEF DeployTypes
  <1>5. FlowInv
    BY <1>2, <1>3 DEF FlowInv, WatchInv, Waits, Deleting, Early, Late
  <1>6. PortInv
    BY <1>2 DEF PortInv, Early, Late, Exposing, Open
  <1>7. GoneInv
    <2>1. rows["workers"] = {}
      BY <1>2, NamesAssumption
    <2> QED BY <1>2, <2>1, Starting DEF GoneInv, SeenInv, Deleting, Denied, Unrowed
  <1>8. FreshInv /\ ReadyInv
    BY <1>2 DEF FreshInv, ReadyInv, Early, Late, NoFiles, NoOpenClaw
  <1> QED BY <1>1, <1>4, <1>5, <1>6, <1>7, <1>8 DEF DeployInv, PassInv

LEMMA DeployStep == DeployInv /\ [Next]_vars => DeployInv'
  <1> SUFFICES ASSUME DeployInv, [Next]_vars PROVE DeployInv'
    OBVIOUS
  <1>1. LegacyInv /\ PassInv /\ LegacyInv'
    BY StepKeeps DEF DeployInv
  <1>2. CASE UNCHANGED vars
    BY <1>1, <1>2, IdleKeeps DEF DeployInv
  <1>3. CASE Pass
    <2>1. \/ Begin \/ AddFinalizer \/ Expose \/ End \/ BeginDelete \/ Unexpose \/ Cleanup \/ Unfinalize
          \/ Allow \/ Row \/ Deny \/ Unrow
          \/ Infra \/ Resolve \/ Download \/ Package \/ Inline \/ SeedLocal \/ GetOpenClaw
          \/ PutOpenClaw \/ PutSoul \/ GetAgents \/ PutAgents \/ Container \/ GetContext
          \/ PutContext
      BY <1>3 DEF Pass
    <2> QED BY <1>1, <2>1, BeginKeeps, AddFinalizerKeeps, ExposeKeeps, EndKeeps, BeginDeleteKeeps, UnexposeKeeps,
               CleanupKeeps, UnfinalizeKeeps, CallsKeep, NormalKeeps DEF DeployInv
  <1>4. CASE Calls
    BY <1>1, <1>4, ReadFileKeeps, StoreFileKeeps DEF Calls, DeployInv
  <1>5. CASE Others \/ Deliver \/ Edit \/ Remove \/ AgentWrites \/ Crash
    BY <1>1, <1>5, OthersKeep, DeliverKeeps, EditKeeps, AgentKeeps, RestartKeeps DEF DeployInv
  <1> QED BY <1>2, <1>3, <1>4, <1>5 DEF Next

LEMMA DeployAlways == Spec => []DeployInv
  BY DeployInit, DeployStep, PTL DEF Spec

-----------------------------------------------------------------------------
(***************************************************************************)
(* What a step does to the agent's own files.                              *)
(***************************************************************************)
\* What AgentOwnsItsFiles asks of a step.
OwnFilesKept ==
    /\ store.soul = "agent" /\ work.spec.soul = "none" => store'.soul = "agent"
    /\ store.soul = "agent" /\ Leader => store'.soul = "agent"
    /\ store.agents.user = "agent" /\ work.spec.agents = "none" => store'.agents.user = "agent"
    /\ store.other = "agent" => store'.other = "agent"
    /\ \/ ~recorded \/ "fatal" \in env.faults
       \/ store.openclaw.custom => store'.openclaw.custom

LEMMA FilesStep ==
    ASSUME DeployInv, [Next]_vars, Trusted, Live
    PROVE  OwnFilesKept
  <1>1. DeployTypes /\ FlowInv /\ FreshInv /\ ReadyInv /\ "read" \notin env.faults /\ ~env.race
    BY DEF DeployInv, PassInv, Trusted
  <1>2. CASE store' = store
    BY <1>2 DEF OwnFilesKept
  <1>3. CASE Failing
    BY <1>2, <1>3 DEF Failing
  <1>4. CASE Infra \/ Resolve \/ Download \/ Inline \/ GetOpenClaw \/ GetAgents \/ Container
               \/ GetContext
    <2>1. store' = store
      BY <1>4 DEF Infra, Resolve, Download, Inline, GetOpenClaw, GetAgents, Container,
         GetContext, files
    <2> QED BY <1>2, <2>1
  <1>5. CASE Package
    BY <1>1, <1>3, <1>5, PackageEffect DEF OwnFilesKept
  <1>6. CASE SeedLocal
    BY <1>1, <1>6, SeedLocalEffect DEF OwnFilesKept
  \* A stored openclaw.json is an update's, which has read its plugin entries.
  <1>7. CASE PutOpenClaw /\ ~Failing
    <2>1. /\ pc = "openclaw.put" /\ store'.openclaw.custom = seen.openclaw.custom
          /\ store'.soul = store.soul /\ store'.agents = store.agents
          /\ store'.other = store.other
      BY <1>1, <1>7, PutOpenClawEffect
    <2>2. ASSUME recorded, "fatal" \notin env.faults, store.openclaw.custom
          PROVE  store'.openclaw.custom
      <3>1. work.update
        BY <1>1, <2>1, <2>2 DEF ReadyInv, Early
      <3> QED BY <1>1, <2>1, <2>2, <3>1 DEF FreshInv, Trusted
    <2> QED BY <2>1, <2>2 DEF OwnFilesKept
  <1>8. CASE PutSoul
    BY <1>1, <1>8, PutSoulEffect DEF OwnFilesKept
  <1>9. CASE PutAgents
    <2>1. /\ pc = "agents.put" /\ store'.openclaw = store.openclaw
          /\ store'.soul = store.soul /\ store'.other = store.other
          /\ store'.agents = store.agents \/ store'.agents.user = seen.agents.user
      BY <1>1, <1>9, PutAgentsEffect
    <2>2. work.spec.agents = "none" => seen.agents = store.agents
      BY <1>1, <2>1 DEF FreshInv, Trusted
    <2> QED BY <2>1, <2>2 DEF OwnFilesKept
  <1>10. CASE PutContext
    <2>1. /\ pc = "context.put" /\ store'.openclaw = store.openclaw
          /\ store'.other = store.other
          /\ store.soul = "agent" => store'.soul = "agent"
          /\ store'.agents = store.agents \/ store'.agents.user = seen.agents.user
      BY <1>1, <1>10, PutContextEffect
    <2>2. seen.agents = store.agents
      BY <1>1, <2>1 DEF FreshInv, Trusted
    <2> QED BY <2>1, <2>2 DEF OwnFilesKept
  <1>11. CASE Begin \/ AddFinalizer \/ Expose \/ Allow \/ Row \/ End \/ BeginDelete \/ Unexpose \/ Deny
                \/ Unrow \/ Unfinalize
    <2>1. store' = store
      BY <1>11 DEF Begin, ReadsCache, AddFinalizer, Expose, Allow, Row, End, BeginDelete, Unexpose, Deny, Unrow, Unfinalize,
         LegacyStep, files
    <2> QED BY <1>2, <2>1
  <1>12. ~Cleanup
    <2>1. ~(pc = "cleanup")
      BY <1>1 DEF FlowInv, WatchInv, Deleting, Live
    <2> QED BY <2>1 DEF Cleanup
  <1>13. CASE AgentWrites
    BY <1>1, <1>13, AgentEffect DEF OwnFilesKept
  <1>14. CASE Calls \/ Others \/ Deliver \/ Edit \/ Remove \/ Crash
    <2>1. store' = store
      BY <1>14 DEF Calls, ReadFile, StoreFile, Others, Deliver, Edit, Remove, Crash, files
    <2> QED BY <1>2, <2>1
  <1>15. CASE UNCHANGED vars
    BY <1>2, <1>15 DEF vars
  <1>16. CASE PutOpenClaw
    BY <1>3, <1>7, <1>16
  <1> QED BY <1>4, <1>5, <1>6, <1>8, <1>9, <1>10, <1>11, <1>12, <1>13, <1>14, <1>15, <1>16
          DEF Next, Pass

-----------------------------------------------------------------------------
(***************************************************************************)
(* The theorems.                                                           *)
(***************************************************************************)
\* The pass, what it has read, the agent's prefix, the ports and the shared
\* files stay in their types, whatever goes wrong.
THEOREM DeployTypeCorrect == Spec => []TypeOK
  <1>1. DeployInv => TypeOK
    BY DEF DeployInv, PassInv, LegacyInv, DeployTypes, TypeOK, Work, Sight, Local
  <1> QED BY <1>1, DeployAlways, PTL

\* A port that the gateway routes for a worker at rest is in its status
\* (provisioner_expose.go, ReconcileExpose, and the deferred patch of
\* worker_controller.go), for every set of specs and ports, however the spec is
\* edited while a pass runs: as long as no call has failed and each pass so far
\* read the status that was recorded and had its patch accepted.  What is open
\* is in the pass's copy from ReconcileMemberExpose to the patch, and in the
\* status otherwise.
THEOREM PortsAreTracked == Spec => []PortsTracked
  <1>1. DeployInv => PortsTracked
    BY DEF DeployInv, PassInv, PortInv, PortsTracked, Open, CRName, Exposing
  <1> QED BY <1>1, DeployAlways, PTL

\* When the finalizer of a worker that was not renamed goes and no call has
\* failed, its prefix in storage, its row and its right to speak to the Manager
\* are gone (CleanupOSSData, reconcileDelete), however late the cache is and
\* whatever the Team's and the Manager's reconcilers do to the shared files
\* meanwhile; and its ports (DeprovisionWorker), if they were recorded.
THEOREM DeletionIsComplete == Spec => []DeletedLeavesNothing
  <1>1. DeployInv => DeletedLeavesNothing
    BY DEF DeployInv, PassInv, FlowInv, WatchInv, GoneInv, DeletedLeavesNothing
  <1> QED BY <1>1, DeployAlways, PTL

\* Unless a read fails or the agent writes during a pass, a pass overwrites
\* nothing that the agent wrote, for every spec and whatever writes fail
\* (deployer.go, DeployWorkerConfig): what a push is computed from is what the
\* prefix still holds.  The plugin entries are kept by a pass that knows from
\* its status that openclaw.json exists.
THEOREM AgentKeepsItsFiles == Spec => AgentOwnsItsFiles
  <1>1. DeployInv /\ [Next]_vars =>
          [/\ ~env.race
           /\ "read" \notin env.faults
           /\ Live
           => /\ store.soul = "agent" /\ work.spec.soul = "none" => store'.soul = "agent"
              /\ store.soul = "agent" /\ Leader => store'.soul = "agent"
              /\ store.agents.user = "agent" /\ work.spec.agents = "none" =>
                    store'.agents.user = "agent"
              /\ store.other = "agent" => store'.other = "agent"
              /\ \/ ~recorded \/ "fatal" \in env.faults
                 \/ store.openclaw.custom => store'.openclaw.custom]_vars
    BY FilesStep DEF Trusted, OwnFilesKept
  <1> QED BY <1>1, DeployInit, DeployStep, PTL DEF Spec, AgentOwnsItsFiles
=============================================================================
