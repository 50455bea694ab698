---------------------------- MODULE Provisioning ----------------------------
(***************************************************************************)
(* The Provisioner (provisioner.go) setting up and taking down what a      *)
(* Worker, a team member or the Manager needs outside its container: the   *)
(* stored credentials, the Matrix account and room, the MinIO user, the    *)
(* gateway consumer with its AI routes and the ServiceAccount.  The CRs    *)
(* belong to different controllers, so their passes interleave.            *)
(*                                                                         *)
(* A secret is a number, 0 none: what GenerateCredentials makes at once    *)
(* (password, MinIO password, gateway key) is one number in three fields.  *)
(* Rooms are reduced to the alias that identifies them and to whether the  *)
(* agent has joined its own.                                               *)
(***************************************************************************)
EXTENDS AIRoutes, Sequences, FiniteSets

CONSTANTS
    Managers,     \* the CRs among Clients that are Managers; the others are members
    Renamed,      \* the CRs whose runtime name is not their own
    DefaultAPI,   \* the model API of the cloud gateway's configuration
    Envs,         \* what the environment may do: see Env
    MaxSecrets,   \* bound on the secrets made for one CR
    MaxFaults     \* bound on the faults of a behaviour

FaultKinds == {"matrix",   \* a request to the homeserver fails
               "slow",     \* the admin bot takes longer than the retries
               "oss",      \* MinIO refuses or cannot be reached
               "gateway",  \* a request to the gateway fails
               "key",      \* the cloud gateway does not tell a consumer's key
               "save",     \* the credential store refuses a write
               "torn",     \* the process stops while it writes a credentials file
               "join",     \* the agent cannot join its room
               "api",      \* a request to the API server fails
               "cleanup",  \* a step of the teardown fails
               "crash"}    \* the controller process restarts

\* cloud: AIGatewayClient and no MinIO administration; otherwise Higress and
\* MinIO.  versioned: the console answers 409 to outdated writes.  legacy:
\* the CRs set up by an earlier release, with the credentials stored under
\* the runtime name.  lives: bound on how often a CR of one name is created.
\* edits: bound on the writes of others to the AI routes.
Env == [faults : SUBSET FaultKinds, cloud : BOOLEAN, versioned : BOOLEAN,
        legacy : SUBSET Clients, lives : [Clients -> Nat], edits : Nat]

ASSUME ProvisioningAssumption ==
    /\ Managers \subseteq Clients /\ Renamed \subseteq Clients \ Managers
    /\ DefaultAPI \in Routes
    /\ Envs \subseteq Env /\ \A e \in Envs : e.legacy \subseteq Renamed
    /\ MaxSecrets \in Nat /\ MaxFaults \in Nat

VARIABLES
    env,        \* the environment, chosen once
    cr,         \* the CRs, with whether status.matrixUserID is set
    creds,      \* the credential store, by CR name
    users,      \* the password of each Matrix account
    botq,       \* reset-password commands the admin bot has not executed
    aliases,    \* the CRs whose room alias is claimed
    joined,     \* the agents that are in their own room
    oss,        \* the password of each MinIO user
    consumers,  \* the key of each gateway consumer
    sas,        \* the ServiceAccounts
    held,       \* the secrets in each agent's deployed configuration
    pc,         \* where the pass over each CR is
    w,          \* the credentials that pass works with
    serial,     \* the last secret made for each CR
    faults, edits

store == <<creds, users, botq, aliases, joined, oss, consumers, sas>>
vars == <<env, cr, creds, users, botq, aliases, joined, oss, consumers, sas, held,
          pc, w, serial, faults, edits, routes, holder, calls>>

Creds == [saved : BOOLEAN, pw : Nat, os : Nat, key : Nat, tok : BOOLEAN]

NoCreds == [saved |-> FALSE, pw |-> 0, os |-> 0, key |-> 0, tok |-> FALSE]

\* base: the last secret of the CR's earlier lives.
CR == [exists : BOOLEAN, deleting : BOOLEAN, known : BOOLEAN, lives : Nat, base : Nat]

PCs == {"idle", "register", "recover", "storage", "room", "consumer", "ensure",
        "authorize", "routes", "finish", "deauthorize", "unroute", "cleanup", "finalize"}

TypeOK ==
    /\ env \in Envs
    /\ cr \in [Clients -> CR]
    /\ creds \in [Clients -> Creds] /\ w \in [Clients -> Creds] /\ held \in [Clients -> Creds]
    /\ users \in [Clients -> Nat] /\ oss \in [Clients -> Nat] /\ consumers \in [Clients -> Nat]
    /\ botq \in Seq([user : Clients, pw : Nat])
    /\ aliases \subseteq Clients /\ joined \subseteq Clients /\ sas \subseteq Clients
    /\ pc \in [Clients -> PCs]
    /\ serial \in [Clients -> Nat] /\ faults \in 0 .. MaxFaults /\ edits \in 0 .. env.edits
    /\ RoutesTypeOK

\* The routes a consumer is meant to be on.
Wanted(c) ==
    IF Provider[c] # {} THEN Provider[c] ELSE IF env.cloud THEN {DefaultAPI} ELSE Routes

\* A CR of an earlier release has everything, from secret 1.
Init ==
    /\ env \in Envs
    /\ cr = [c \in Clients |-> [exists |-> c \in env.legacy, deleting |-> FALSE,
                                known |-> c \in env.legacy,
                                lives |-> IF c \in env.legacy THEN 1 ELSE 0, base |-> 0]]
    /\ serial = [c \in Clients |-> IF c \in env.legacy THEN 1 ELSE 0]
    /\ users = serial /\ consumers = serial
    /\ oss = IF env.cloud THEN [c \in Clients |-> 0] ELSE serial
    /\ held = [c \in Clients |-> IF c \in env.legacy
                                 THEN [saved |-> TRUE, pw |-> 1, os |-> 1, key |-> 1, tok |-> TRUE]
                                 ELSE NoCreds]
    /\ creds = [c \in Clients |-> NoCreds]
    /\ aliases = env.legacy /\ joined = env.legacy /\ sas = env.legacy
    /\ routes = [r \in Routes |-> {c \in env.legacy : r \in Wanted(c)} \cup {Other}]
    /\ botq = <<>>
    /\ pc = [c \in Clients |-> "idle"] /\ w = [c \in Clients |-> NoCreds]
    /\ holder = Nobody /\ calls = [c \in Clients |-> NoCall]
    /\ faults = 0 /\ edits = 0

-----------------------------------------------------------------------------
(***************************************************************************)
(* The environment.                                                        *)
(***************************************************************************)
Fault(k) ==
    /\ k \in env.faults
    /\ faults < MaxFaults
    /\ faults' = faults + 1

Goto(c, l) == pc' = [pc EXCEPT ![c] = l]

Hold(c, cs) == w' = [w EXCEPT ![c] = cs]

\* The pass ends, done or failed.
Stop(c) == Goto(c, "idle") /\ Hold(c, NoCreds)

\* ReconcileMemberInfra and reconcileManagerInfrastructure: provision once,
\* refresh from then on.
Starts(c, known) == pc[c] = "idle" /\ cr[c].exists /\ ~cr[c].deleting /\ cr[c].known = known

CreateCR(c) ==
    /\ ~cr[c].exists /\ cr[c].lives < env.lives[c]
    /\ cr' = [cr EXCEPT ![c] = [exists |-> TRUE, deleting |-> FALSE, known |-> FALSE,
                                lives |-> @.lives + 1, base |-> serial[c]]]
    /\ held' = [held EXCEPT ![c] = NoCreds]
    /\ UNCHANGED <<env, store, pc, w, serial, faults, edits, routeVars>>

DeleteCR(c) ==
    /\ cr[c].exists /\ ~cr[c].deleting
    /\ cr' = [cr EXCEPT ![c].deleting = TRUE]
    /\ UNCHANGED <<env, store, held, pc, w, serial, faults, edits, routeVars>>

\* The admin bot executes the next command of the admin room.
BotRuns ==
    /\ botq # <<>>
    /\ users' = [users EXCEPT ![Head(botq).user] = Head(botq).pw]
    /\ botq' = Tail(botq)
    /\ UNCHANGED <<env, cr, creds, aliases, joined, oss, consumers, sas, held, pc, w, serial,
                   faults, edits, routeVars>>

ConsoleEdits ==
    /\ env.versioned /\ edits < env.edits
    /\ \E r \in Routes : OtherWrites(r)
    /\ edits' = edits + 1
    /\ UNCHANGED <<env, cr, store, held, pc, w, serial, faults>>

Restarted ==
    /\ pc' = [c \in Clients |-> "idle"] /\ w' = [c \in Clients |-> NoCreds]
    /\ holder' = Nobody /\ calls' = [c \in Clients |-> NoCall]

Crash ==
    /\ \E c \in Clients : pc[c] # "idle"
    /\ Fault("crash")
    /\ Restarted
    /\ UNCHANGED <<env, cr, store, held, serial, edits, routes>>

\* FileCredentialStore truncates the file and then writes it: a process that
\* stops in between leaves it empty, and Load reads empty secrets from it.
TornSave(c) ==
    /\ (Starts(c, FALSE) /\ ~creds[c].saved) \/ pc[c] = "room"
    /\ Fault("torn")
    /\ creds' = [creds EXCEPT ![c] = [NoCreds EXCEPT !.saved = TRUE]]
    /\ Restarted
    /\ UNCHANGED <<env, cr, users, botq, aliases, joined, oss, consumers, sas, held, serial,
                   edits, routes>>

-----------------------------------------------------------------------------
(***************************************************************************)
(* A pass over a live CR.                                                  *)
(***************************************************************************)
\* loadWorkerCredentials: the CR's own credentials, or those of an earlier
\* release, which have to be saved again before they are used.
Legacy(c) == [saved |-> TRUE, pw |-> 1, os |-> 1, key |-> 1, tok |-> TRUE]

Found(c) ==
    IF creds[c].saved THEN creds[c] ELSE IF c \in env.legacy THEN Legacy(c) ELSE NoCreds

\* GenerateCredentials.
Generated(c) ==
    [saved |-> TRUE, pw |-> serial[c] + 1, os |-> serial[c] + 1, key |-> serial[c] + 1,
     tok |-> FALSE]

\* Mutant: generated credentials are saved with the token, after registration.
LoadUnsaved(c) ==
    /\ Starts(c, FALSE)
    /\ Hold(c, IF Found(c).saved THEN Found(c) ELSE Generated(c))
    /\ serial' = [serial EXCEPT ![c] = IF Found(c).saved THEN @ ELSE @ + 1]
    /\ Goto(c, "register")
    /\ UNCHANGED <<env, cr, store, held, faults, edits, routeVars>>

\* Step 1 of ProvisionWorker and of ProvisionManager: secrets are stored
\* before they are used anywhere.
LoadOrGenerate(c) ==
    /\ Starts(c, FALSE)
    /\ LET cs == IF Found(c).saved THEN Found(c) ELSE Generated(c) IN
       \/ /\ creds' = [creds EXCEPT ![c] = cs] /\ Hold(c, cs)
          /\ serial' = [serial EXCEPT ![c] = IF Found(c).saved THEN @ ELSE @ + 1]
          /\ Goto(c, "register")
          /\ UNCHANGED faults
       \/ /\ ~creds[c].saved /\ Fault("save")
          /\ UNCHANGED <<creds, pc, w, serial>>
    /\ UNCHANGED <<env, cr, users, botq, aliases, joined, oss, consumers, sas, held, edits,
                   routeVars>>

\* EnsureUser makes up a password if it is given none.
Password(c) == IF w[c].pw = 0 THEN serial[c] + 1 ELSE w[c].pw

\* TuwunelClient.EnsureUser: register; or log in to the account that is
\* there; or have the admin bot reset its password.  A request that fails
\* may have been executed.
Register(c) ==
    /\ pc[c] = "register"
    /\ serial[c] < MaxSecrets \/ w[c].pw # 0
    /\ LET pw == Password(c)
           in == [w[c] EXCEPT !.pw = pw, !.tok = TRUE]
       IN
       /\ \/ /\ users[c] = 0
             /\ \/ Goto(c, "storage") /\ Hold(c, in) /\ UNCHANGED faults
                \/ Fault("matrix") /\ Stop(c)
             /\ users' = [users EXCEPT ![c] = pw]
             /\ UNCHANGED botq
          \/ /\ users[c] = pw
             /\ Goto(c, "storage") /\ Hold(c, in)
             /\ UNCHANGED <<users, botq, faults>>
          \/ /\ users[c] \notin {0, pw}
             /\ botq' = Append(botq, [user |-> c, pw |-> pw])
             /\ Goto(c, "recover") /\ Hold(c, [w[c] EXCEPT !.pw = pw])
             /\ UNCHANGED <<users, faults>>
       /\ serial' = [serial EXCEPT ![c] = IF w[c].pw = 0 THEN @ + 1 ELSE @]
    /\ UNCHANGED <<env, cr, creds, aliases, joined, oss, consumers, sas, held, edits, routeVars>>

\* The login attempts after the reset command.
Recover(c) ==
    /\ pc[c] = "recover"
    /\ \/ /\ users[c] = w[c].pw
          /\ Goto(c, "storage") /\ Hold(c, [w[c] EXCEPT !.tok = TRUE])
          /\ UNCHANGED faults
       \/ /\ users[c] # w[c].pw /\ Fault("slow")
          /\ Stop(c)
    /\ UNCHANGED <<env, cr, store, held, serial, edits, routeVars>>

\* Step 3, with a MinIO administration client only: EnsureUser sets the
\* password also of a user that exists, EnsurePolicy replaces the policy.
\* MinIO refuses an empty password.
Storage(c) ==
    /\ pc[c] = "storage"
    /\ \/ /\ env.cloud \/ w[c].os # 0
          /\ oss' = IF env.cloud THEN oss ELSE [oss EXCEPT ![c] = w[c].os]
          /\ Goto(c, "room")
          /\ UNCHANGED <<w, faults>>
       \/ /\ ~env.cloud /\ w[c].os = 0
          /\ Stop(c) /\ UNCHANGED <<oss, faults>>
       \/ /\ ~env.cloud /\ Fault("oss")
          /\ Stop(c) /\ UNCHANGED oss
    /\ UNCHANGED <<env, cr, creds, users, botq, aliases, joined, consumers, sas, held, serial,
                   edits, routeVars>>

\* Step 4: CreateRoom claims the alias or resolves it; the credentials are
\* saved again, for the token, and a worker joins.  Only CreateRoom can fail
\* the pass.
Room(c) ==
    /\ pc[c] = "room"
    /\ \/ /\ aliases' = aliases \cup {c}
          /\ \/ UNCHANGED faults
                /\ creds' = [creds EXCEPT ![c] = w[c]] /\ joined' = joined \cup {c}
             \/ Fault("save") /\ UNCHANGED creds /\ joined' = joined \cup {c}
             \/ c \notin Managers /\ Fault("join")
                /\ creds' = [creds EXCEPT ![c] = w[c]] /\ UNCHANGED joined
          /\ Goto(c, "consumer") /\ UNCHANGED w
       \/ /\ Fault("matrix")
          /\ Stop(c) /\ UNCHANGED <<aliases, creds, joined>>
    /\ UNCHANGED <<env, cr, users, botq, oss, consumers, sas, held, serial, edits, routeVars>>

\* EnsureConsumer: the key the consumer has from now on.  Higress takes the
\* key it is given, the cloud gateway makes one; neither changes the key of
\* a consumer that is there.
ConsumerKey(c) ==
    IF consumers[c] # 0 THEN consumers[c] ELSE IF env.cloud THEN serial[c] + 1 ELSE w[c].key

\* The key EnsureConsumer returns: Higress repeats the one it was given, also
\* when the console answers that the consumer exists.
Answer(c) == IF env.cloud THEN ConsumerKey(c) ELSE w[c].key

\* Mutant: the key the gateway returns is not stored.
ConsumerUnsaved(c) ==
    /\ pc[c] = "consumer"
    /\ consumers' = [consumers EXCEPT ![c] = ConsumerKey(c)]
    /\ Hold(c, [w[c] EXCEPT !.key = Answer(c)])
    /\ Goto(c, "authorize")
    /\ serial' = [serial EXCEPT ![c] = IF env.cloud /\ consumers[c] = 0 THEN @ + 1 ELSE @]
    /\ UNCHANGED <<env, cr, creds, users, botq, aliases, joined, oss, sas, held, edits, faults, routeVars>>

\* Step 5: a returned key that differs is used and stored; an error of that
\* Save is ignored, and so is a key the cloud gateway does not tell.
Consumer(c) ==
    /\ pc[c] = "consumer"
    /\ \/ /\ consumers' = [consumers EXCEPT ![c] = ConsumerKey(c)]
          /\ LET ws == [w[c] EXCEPT !.key = Answer(c)] IN
             \/ /\ Hold(c, ws)
                /\ creds' = IF ws = w[c] THEN creds ELSE [creds EXCEPT ![c] = ws]
                /\ UNCHANGED faults
             \/ /\ ws # w[c] /\ Fault("save") /\ Hold(c, ws) /\ UNCHANGED creds
             \/ /\ env.cloud /\ Fault("key") /\ UNCHANGED <<w, creds>>
          /\ Goto(c, "authorize")
          /\ serial' = [serial EXCEPT ![c] = IF env.cloud /\ consumers[c] = 0 THEN @ + 1 ELSE @]
       \/ /\ Fault("gateway")
          /\ Stop(c) /\ UNCHANGED <<consumers, creds, serial>>
    /\ UNCHANGED <<env, cr, users, botq, aliases, joined, oss, sas, held, edits, routeVars>>

\* EnsureManagerGatewayAuth: the same call, but its answer is not looked at.
Ensure(c) ==
    /\ pc[c] = "ensure"
    /\ \/ /\ consumers' = [consumers EXCEPT ![c] = ConsumerKey(c)]
          /\ serial' = [serial EXCEPT ![c] = IF env.cloud /\ consumers[c] = 0 THEN @ + 1 ELSE @]
          /\ Goto(c, "authorize") /\ UNCHANGED <<w, faults>>
       \/ /\ Fault("gateway")
          /\ Stop(c) /\ UNCHANGED <<consumers, serial>>
    /\ UNCHANGED <<env, cr, creds, users, botq, aliases, joined, oss, sas, held, edits,
                   routeVars>>

\* AuthorizeAIRoutes.  The cloud gateway adds one rule, and only for a
\* consumer that it has.
Authorize(c) ==
    /\ pc[c] = "authorize"
    /\ \/ /\ ~env.cloud /\ Enter(c, TRUE)
          /\ Goto(c, "routes") /\ UNCHANGED <<w, faults>>
       \/ /\ env.cloud /\ consumers[c] # 0
          /\ routes' = [r \in Routes |-> IF r \in Wanted(c) THEN routes[r] \cup {c} ELSE routes[r]]
          /\ Goto(c, "finish") /\ UNCHANGED <<w, holder, calls, faults>>
       \/ /\ env.cloud /\ Fault("gateway")
          /\ Stop(c) /\ UNCHANGED routeVars
    /\ UNCHANGED <<env, cr, store, held, serial, edits>>

\* The iterations of modifyAIRoutes, for both directions.
RouteStep(c) ==
    /\ pc[c] \in {"routes", "unroute"}
    /\ \/ (GetRoute(c) \/ PutRoute(c, env.versioned)) /\ UNCHANGED faults
       \/ RouteFails(c, env.versioned) /\ Fault("gateway")
    /\ UNCHANGED <<env, cr, store, held, pc, w, serial, edits>>

\* An error fails the pass when authorizing and is logged when tearing down.
RoutesDone(c) ==
    /\ pc[c] \in {"routes", "unroute"}
    /\ Leave(c)
    /\ IF pc[c] = "routes" /\ calls[c].err
       THEN Stop(c)
       ELSE Goto(c, IF pc[c] = "unroute" THEN "cleanup" ELSE "finish") /\ UNCHANGED w
    /\ UNCHANGED <<env, cr, store, held, serial, faults, edits>>

\* EnsureMemberServiceAccount, the deployed configuration, and the status
\* patch that records the Matrix ID.
Finish(c) ==
    /\ pc[c] = "finish"
    /\ \/ /\ sas' = sas \cup {c} /\ held' = [held EXCEPT ![c] = w[c]]
          /\ cr' = [cr EXCEPT ![c].known = TRUE]
          /\ UNCHANGED faults
       \/ /\ sas' = sas \cup {c} /\ held' = [held EXCEPT ![c] = w[c]]
          /\ Fault("api") /\ UNCHANGED cr
       \/ /\ Fault("api") /\ UNCHANGED <<sas, held>>
          /\ cr' = [cr EXCEPT ![c].known = TRUE]
    /\ Stop(c)
    /\ UNCHANGED <<env, creds, users, botq, aliases, joined, oss, consumers, serial, edits,
                   routeVars>>

\* RefreshWorkerCredentials and RefreshManagerCredentials: the stored token
\* is reused; a new login is stored or the pass fails.  A Manager, and a
\* member with a model provider, have their gateway authorization renewed.
Refresh(c) ==
    /\ Starts(c, TRUE)
    /\ LET cs == Found(c)
           logged == [cs EXCEPT !.tok = TRUE]
           ok == cs.saved /\ (cs.tok \/ users[c] = cs.pw)
       IN
       \/ /\ ok
          /\ Hold(c, logged) /\ creds' = [creds EXCEPT ![c] = logged]
          /\ Goto(c, IF c \in Managers THEN "ensure"
                     ELSE IF Provider[c] # {} THEN "authorize" ELSE "finish")
          /\ UNCHANGED faults
       \/ /\ ok /\ creds[c] # logged /\ Fault("save")
          /\ UNCHANGED <<pc, w, creds>>
    /\ UNCHANGED <<env, cr, users, botq, aliases, joined, oss, consumers, sas, held, serial,
                   edits, routeVars>>

-----------------------------------------------------------------------------
(***************************************************************************)
(* ReconcileMemberDelete and reconcileManagerDelete: no step is fatal.     *)
(***************************************************************************)
\* leaveAllRooms, with the credentials found under the runtime name.
LeaveRooms(c) ==
    /\ pc[c] = "idle" /\ cr[c].exists /\ cr[c].deleting
    /\ LET cs == IF c \in Renamed THEN IF c \in env.legacy THEN Legacy(c) ELSE NoCreds
                 ELSE creds[c]
       IN \/ /\ joined' = IF cs.saved /\ (cs.tok \/ users[c] = cs.pw) THEN joined \ {c} ELSE joined
             /\ UNCHANGED faults
          \/ /\ Fault("cleanup") /\ UNCHANGED joined
    /\ Goto(c, "deauthorize")
    /\ UNCHANGED <<env, cr, creds, users, botq, aliases, oss, consumers, sas, held, w, serial,
                   edits, routeVars>>

\* DeprovisionWorker and DeprovisionManager: DeauthorizeAIRoutes has no
\* filter; the cloud gateway removes the rule of the default API.
Deauthorize(c) ==
    /\ pc[c] = "deauthorize"
    /\ \/ /\ ~env.cloud /\ Enter(c, FALSE)
          /\ Goto(c, "unroute") /\ UNCHANGED faults
       \/ /\ env.cloud
          /\ routes' = [routes EXCEPT ![DefaultAPI] = @ \ {c}]
          /\ Goto(c, "cleanup") /\ UNCHANGED <<holder, calls, faults>>
       \/ /\ Fault("cleanup")
          /\ Goto(c, "cleanup") /\ UNCHANGED routeVars
    /\ UNCHANGED <<env, cr, store, held, w, serial, edits>>

\* Mutant: the credentials are kept for a CR that may come back.
CleanupKeepsSecrets(c) ==
    /\ pc[c] = "cleanup"
    /\ consumers' = [consumers EXCEPT ![c] = 0] /\ oss' = [oss EXCEPT ![c] = 0]
    /\ sas' = sas \ {c} /\ aliases' = aliases \ {c}
    /\ Goto(c, "finalize")
    /\ UNCHANGED <<env, cr, creds, users, botq, joined, held, w, serial, faults, edits, routeVars>>

\* The rest of the teardown.  Each of its steps may fail by itself.
Cleanup(c) ==
    /\ pc[c] = "cleanup"
    /\ \E failed \in SUBSET {"consumer", "oss", "creds", "sa", "alias"} :
          /\ IF failed = {} THEN UNCHANGED faults ELSE Fault("cleanup")
          /\ consumers' = IF "consumer" \in failed THEN consumers ELSE [consumers EXCEPT ![c] = 0]
          /\ oss' = IF "oss" \in failed THEN oss ELSE [oss EXCEPT ![c] = 0]
          /\ creds' = IF "creds" \in failed THEN creds ELSE [creds EXCEPT ![c] = NoCreds]
          /\ sas' = IF "sa" \in failed THEN sas ELSE sas \ {c}
          /\ aliases' = IF "alias" \in failed THEN aliases ELSE aliases \ {c}
    /\ Goto(c, "finalize")
    /\ UNCHANGED <<env, cr, users, botq, joined, held, w, serial, edits, routeVars>>

Finalize(c) ==
    /\ pc[c] = "finalize"
    /\ \/ cr' = [cr EXCEPT ![c].exists = FALSE, ![c].known = FALSE] /\ UNCHANGED faults
       \/ Fault("api") /\ UNCHANGED cr
    /\ Goto(c, "idle")
    /\ UNCHANGED <<env, store, held, w, serial, edits, routeVars>>

-----------------------------------------------------------------------------
Pass(c) ==
    \/ LoadOrGenerate(c) \/ Register(c) \/ Recover(c) \/ Storage(c)
    \/ Room(c) \/ Consumer(c) \/ Ensure(c) \/ Authorize(c) \/ RouteStep(c)
    \/ RoutesDone(c) \/ Finish(c) \/ Refresh(c) \/ LeaveRooms(c)
    \/ Deauthorize(c) \/ Cleanup(c) \/ Finalize(c)

Next ==
    \/ BotRuns \/ ConsoleEdits \/ Crash
    \/ \E c \in Clients : CreateCR(c) \/ DeleteCR(c) \/ TornSave(c) \/ Pass(c)

Spec == Init /\ [][Next]_vars

\* The controllers keep reconciling (the periodic requeue, the queue's
\* retries); sync.Mutex lets nobody wait forever; the bot works off its
\* queue.  Nothing is assumed of users, of other writers and of failures.
FairSpec ==
    /\ Spec
    /\ WF_vars(BotRuns)
    /\ \A c \in Clients : WF_vars(Pass(c)) /\ SF_vars(Authorize(c) \/ Deauthorize(c))

-----------------------------------------------------------------------------
\* No secret is in use that is not in the store, unless it is left over from
\* an earlier CR of that name: whatever fails or is lost after a secret was
\* made, the next pass finds it again.  The consumer of a cloud gateway has
\* a key of its own.
SecretsPersisted ==
    \A c \in Clients : cr[c].exists /\ ~cr[c].deleting /\ "torn" \notin env.faults =>
       /\ users[c] > cr[c].base => users[c] = Found(c).pw
       /\ oss[c] > cr[c].base => oss[c] = Found(c).os
       /\ consumers[c] > cr[c].base /\ ~env.cloud => consumers[c] = Found(c).key

\* A CR that is gone has left no way in: no consumer, no route, no MinIO
\* user, no credentials.  Only a failing teardown step leaves something, or
\* others that write the AI routes as often as the console's conflicts are
\* retried.  On a cloud gateway the worker's default model API only is covered:
\* DeprovisionWorker names no other, and a rule for another model API is left
\* behind, of a consumer that is gone.
NothingLeft ==
    (env.faults \cap {"cleanup", "gateway"} = {} /\ env.edits < MaxRetries) =>
    \A c \in Clients : ~cr[c].exists =>
       /\ consumers[c] = 0 /\ oss[c] = 0 /\ creds[c] = NoCreds
       /\ c \notin sas /\ c \notin aliases
       /\ \A r \in Routes : c \notin routes[r] \/ (env.cloud /\ r # DefaultAPI)

\* Changing one consumer's authorization changes nobody else's, although a
\* whole route is read and written and others write it too.
RoutesAtomic == RouteSets!Spec

\* What an agent holds is what the services accept.
Served(c) ==
    /\ cr[c].known /\ held[c].saved /\ held[c].pw = users[c] /\ c \in joined
    /\ env.cloud \/ held[c].os = oss[c]
    /\ consumers[c] # 0 /\ held[c].key = consumers[c]
    /\ \A r \in Routes : r \in Wanted(c) => c \in routes[r]
    /\ \A r \in Routes : c \in routes[r] => r \in Wanted(c)

\* The failures after which the next passes put everything right.
Recoverable == env.faults \cap {"cleanup", "torn", "join", "key"} = {}

\* Once failures and edits stop, every agent is served with what it holds,
\* also under a name that was in use before, and a deleted CR goes away.
Provisioned ==
    Recoverable /\ (env.cloud => "save" \notin env.faults)
       => <>[](\A c \in Clients : /\ cr[c].exists /\ ~cr[c].deleting => Served(c)
                                  /\ cr[c].deleting => ~cr[c].exists)
=============================================================================
