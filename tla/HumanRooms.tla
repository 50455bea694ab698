----------------------------- MODULE HumanRooms -----------------------------
(***************************************************************************)
(* One Human CR, its Matrix account and its membership in the rooms of the *)
(* Teams and Workers it may access.  The HumanReconciler                   *)
(* (human_controller.go, human_reconcile_*.go) invites, joins and kicks    *)
(* it; the reconcilers that own the rooms set the members of theirs        *)
(* (ReconcileRoomMembershipWithActorToken); the homeserver's admin bot     *)
(* executes commands later.                                                *)
(*                                                                         *)
(* A password is a number, 0 none.  spec.username stays what it is; the    *)
(* reads of the Workers and Teams are current.                             *)
(***************************************************************************)
EXTENDS KubeApi, SequencesExt

CONSTANTS
    Rooms,      \* the rooms of the Teams and Workers the Human may access
    Envs,       \* what the environment may do: see Env
    MaxPw,      \* bound on the passwords made (see Begin)
    MaxGen,     \* bound on metadata.generation, over the CR's lives
    MaxFaults

FaultKinds == {"matrix",   \* a request to the homeserver fails
               "join",     \* the user's login or join fails after the invite
               "bot",      \* a command to the admin bot is not accepted
               "slow",     \* the admin bot takes longer than the retries
               "api",      \* a request to the API server fails
               "crash"}    \* the controller process restarts

\* lag: how far the informer may be behind when a pass starts ("none": it has
\* caught up, "account": it has received the account the status names, if any,
\* "any").  start: the access a new CR grants.  edits: whether access is
\* granted, revoked.  rotates: the user changes the password.  up: the rooms
\* that are there from the start.  listed: the rooms whose owner has the Human
\* among its members (Team spec.humanMembers).  swept: the rooms whose owner
\* sets their members on every pass, as a Team does.  led: the rooms of Teams
\* with an admin of their own (spec.admin).  lives: bound on how often the CR
\* is created.
Env == [faults : SUBSET FaultKinds, lag : {"none", "account", "any"}, start : SUBSET Rooms,
        edits : SUBSET {"grant", "revoke"}, rotates : BOOLEAN, up : SUBSET Rooms,
        listed : SUBSET Rooms, swept : SUBSET Rooms, led : SUBSET Rooms, lives : Nat]

ASSUME HumanAssumption ==
    /\ Envs \subseteq Env /\ IsFiniteSet(Rooms)
    /\ MaxPw \in Nat /\ MaxGen \in Nat /\ MaxFaults \in Nat

VARIABLES
    env,      \* the environment, chosen once
    acct,     \* the password of the Matrix account, 0: not registered
    shown,    \* the generation whose displayName the profile shows
    botq,     \* admin commands the bot has not executed
    mem,      \* the Human's membership in each room
    up,       \* the rooms that their owner's status names
    left,     \* the rooms the global admin has left
    sweep,    \* the members lists owners are working with: what they read
    row,      \* the Human is in humans-registry.json
    pc, w, base,   \* the pass, its working copy and its patch base
    tok,      \* humanScope.userToken is there
    desired,  \* buildDesiredHumanRooms
    todo,     \* the rooms of the current loop that are left
    cur,      \* the room that is being joined
    made, lives, faults

world == <<acct, shown, botq, mem, up, left, sweep, row>>
local == <<pc, w, base, tok, desired, todo, cur>>
counts == <<made, lives, faults>>
vars == <<api, cache, watch, env, acct, shown, botq, mem, up, left, sweep, row,
          pc, w, base, tok, desired, todo, cur, made, lives, faults>>

Human == [exists : BOOLEAN, rv : Nat, gen : Nat, fin : BOOLEAN, deleting : BOOLEAN,
          access : SUBSET Rooms, id : BOOLEAN, pw : Nat, synced : Nat,
          rooms : SUBSET Rooms, phase : {"", "Pending", "Active", "Failed"}]

Nil == [exists |-> FALSE, rv |-> 0, gen |-> 0, fin |-> FALSE, deleting |-> FALSE,
        access |-> {}, id |-> FALSE, pw |-> 0, synced |-> 0, rooms |-> {}, phase |-> ""]

NewHuman(access) == [Nil EXCEPT !.exists = TRUE, !.gen = api.gen + 1, !.access = access]

NoRoom == "none"

Command == [op : {"reset"}, pw : Nat] \cup [op : {"leave"}, room : Rooms]

PCs == {"idle", "finalizer", "infra", "recover", "name", "invite", "join", "kick",
        "patch", "leave", "unfinalize"}

TypeOK ==
    /\ api \in Human /\ cache \in Human /\ watch \subseteq Human
    /\ env \in Envs
    /\ acct \in 0 .. MaxPw /\ shown \in Nat /\ botq \in Seq(Command)
    /\ mem \in [Rooms -> {"out", "invited", "joined"}]
    /\ up \subseteq Rooms /\ left \subseteq Rooms /\ row \in BOOLEAN
    /\ sweep \in [Rooms -> {"idle", "out", "invited", "joined"}]
    /\ pc \in PCs /\ w \in Human /\ base \in Human /\ tok \in BOOLEAN
    /\ desired \subseteq Rooms /\ todo \subseteq Rooms /\ cur \in Rooms \cup {NoRoom}
    /\ made \in 0 .. MaxPw /\ lives \in Nat /\ faults \in 0 .. MaxFaults

Init ==
    /\ env \in Envs
    /\ api = Nil /\ cache = Nil /\ watch = {}
    /\ acct = 0 /\ shown = 0 /\ botq = <<>> /\ row = FALSE
    /\ mem = [r \in Rooms |-> "out"] /\ up = env.up /\ left = {} /\ sweep = [r \in Rooms |-> "idle"]
    /\ pc = "idle" /\ w = Nil /\ base = Nil /\ tok = FALSE
    /\ desired = {} /\ todo = {} /\ cur = NoRoom
    /\ made = 0 /\ lives = 0 /\ faults = 0

-----------------------------------------------------------------------------
(***************************************************************************)
(* The environment: failures, users, owners of rooms, the admin bot.       *)
(***************************************************************************)
Fault(k) ==
    /\ k \in env.faults
    /\ faults < MaxFaults
    /\ faults' = faults + 1

Deliver == Receive /\ UNCHANGED <<env, world, local, counts>>

CreateCR ==
    /\ ~api.exists /\ lives < env.lives /\ api.gen < MaxGen
    /\ Write([NewHuman(env.start) EXCEPT !.rv = api.rv])
    /\ lives' = lives + 1
    /\ UNCHANGED <<cache, env, world, local, made, faults>>

\* kubectl or hiclaw apply: one access is granted or revoked.
Edit ==
    /\ api.exists /\ api.gen < MaxGen
    /\ \E r \in Rooms :
          \/ "grant" \in env.edits /\ r \notin api.access
             /\ Write([api EXCEPT !.access = @ \cup {r}, !.gen = @ + 1])
          \/ "revoke" \in env.edits /\ r \in api.access
             /\ Write([api EXCEPT !.access = @ \ {r}, !.gen = @ + 1])
    /\ UNCHANGED <<cache, env, world, local, counts>>

DeleteCR ==
    /\ api.exists /\ ~api.deleting /\ lives < env.lives
    /\ Write(Deleted(api))
    /\ UNCHANGED <<cache, env, world, local, counts>>

\* The user, who knows the initial password from the status, changes it.
UserRotates ==
    /\ env.rotates /\ made < MaxPw
    /\ acct # 0 /\ acct = api.pw
    /\ acct' = made + 1 /\ made' = made + 1
    /\ UNCHANGED <<kube, env, shown, botq, mem, up, left, sweep, row, local, lives, faults>>

\* The owner creates the room, which invites its members, and names it in
\* its status.
Publish(r) ==
    /\ r \notin up
    /\ up' = up \cup {r}
    /\ mem' = IF r \in env.listed THEN [mem EXCEPT ![r] = "invited"] ELSE mem
    /\ UNCHANGED <<kube, env, acct, shown, botq, left, sweep, row, local, counts>>

\* The pass of a Team with an admin of its own makes the global admin leave.
AdminLeaves(r) ==
    /\ r \in env.led \cap up /\ r \notin left
    /\ left' = left \cup {r}
    /\ UNCHANGED <<kube, env, acct, shown, botq, mem, up, sweep, row, local, counts>>

\* ReconcileRoomMembershipWithActorToken, called by the owner of room r:
\* the members are read first, joined and invited ones.
ReadMembers(r) ==
    /\ r \in up /\ r \in env.swept /\ sweep[r] = "idle"
    /\ sweep' = [sweep EXCEPT ![r] = mem[r]]
    /\ UNCHANGED <<kube, env, acct, shown, botq, mem, up, left, row, local, counts>>

\* Then whoever is missing is invited and whoever is too many is kicked.
\* Both calls are idempotent.
SetMembers(r) ==
    /\ sweep[r] # "idle"
    /\ mem' = [mem EXCEPT ![r] =
                 CASE r \in env.listed /\ sweep[r] = "out" /\ @ = "out" -> "invited"
                   [] r \notin env.listed /\ sweep[r] # "out" -> "out"
                   [] OTHER -> @]
    /\ sweep' = [sweep EXCEPT ![r] = "idle"]
    /\ UNCHANGED <<kube, env, acct, shown, botq, up, left, row, local, counts>>

\* The admin bot executes the next command of the admin room.
BotRuns ==
    /\ botq # <<>>
    /\ LET cmd == Head(botq) IN
       IF cmd.op = "reset"
       THEN acct' = cmd.pw /\ UNCHANGED mem
       ELSE mem' = [mem EXCEPT ![cmd.room] = "out"] /\ UNCHANGED acct
    /\ botq' = Tail(botq)
    /\ UNCHANGED <<kube, env, shown, up, left, sweep, row, local, counts>>

-----------------------------------------------------------------------------
(***************************************************************************)
(* HumanReconciler.Reconcile.                                              *)
(***************************************************************************)
Finish == /\ pc' = "idle" /\ w' = Nil /\ base' = Nil /\ tok' = FALSE
          /\ desired' = {} /\ todo' = {} /\ cur' = NoRoom

Begin ==
    /\ pc = "idle" /\ cache.exists
    /\ cache.deleting => cache.fin
    /\ (env.lag # "none" /\ made + 1 < MaxPw) \/ watch = {}
    /\ env.lag = "account" => (api.id => cache.id)
    /\ w' = cache /\ base' = cache
    /\ pc' = CASE cache.deleting -> "leave"
               [] ~cache.deleting /\ cache.fin -> "infra"
               [] OTHER -> "finalizer"
    /\ UNCHANGED <<kube, env, world, tok, desired, todo, cur, counts>>

\* Mutant: the reconcile error is reported by a phase of its own.
PhaseAfterErrorOwn(h) == IF ~h.id THEN "Error" ELSE h.phase

\* computeHumanPhase.
PhaseAfterError(h) == IF ~h.id THEN "Failed" ELSE IF h.phase = "" THEN "Pending" ELSE h.phase

\* Update refreshes the working copy and not the patch base.
AddFinalizer ==
    /\ pc = "finalizer"
    /\ \/ /\ UpdateAccepted(w)
          /\ Write([api EXCEPT !.fin = TRUE])
          /\ w' = api' /\ pc' = "infra"
          /\ UNCHANGED <<base, tok, desired, todo, cur, faults>>
       \/ ~UpdateAccepted(w) /\ pc' = "patch" /\ w' = [w EXCEPT !.phase = PhaseAfterError(w)]
          /\ UNCHANGED <<api, watch, base, tok, desired, todo, cur, faults>>
       \/ Fault("api") /\ pc' = "patch" /\ w' = [w EXCEPT !.phase = PhaseAfterError(w)]
          /\ UNCHANGED <<api, watch, base, tok, desired, todo, cur>>
    /\ UNCHANGED <<cache, env, world, made, lives>>

Provisioned(h, pw) == [h EXCEPT !.id = TRUE, !.pw = pw]

\* Mutant: the account is ensured again when its password is not known to work.
InfraAgain ==
    /\ pc = "infra"
    /\ IF w.id /\ acct = w.pw
       THEN pc' = "name" /\ UNCHANGED <<acct, botq, made, w, tok>>
       ELSE /\ made < MaxPw /\ made' = made + 1
            /\ IF acct = 0
               THEN /\ acct' = made + 1 /\ w' = Provisioned(w, made + 1) /\ tok' = TRUE
                    /\ pc' = "name" /\ UNCHANGED botq
               ELSE /\ botq' = Append(botq, [op |-> "reset", pw |-> made + 1])
                    /\ pc' = "recover" /\ w' = [w EXCEPT !.pw = made + 1]
                    /\ UNCHANGED <<acct, tok>>
    /\ UNCHANGED <<kube, env, shown, mem, up, left, sweep, row, base, desired, todo, cur, lives, faults>>

\* reconcileHumanInfra: a Human without a recorded ID gets an account with a
\* new password.  EnsureUser registers it; the login to an account that is
\* there fails, and the admin bot is asked to reset the password.
Infra ==
    /\ pc = "infra"
    /\ \/ w.id /\ pc' = "name" /\ UNCHANGED <<acct, botq, made, w, tok, faults>>
       \/ /\ ~w.id /\ made < MaxPw /\ made' = made + 1
          /\ \/ /\ acct = 0 /\ acct' = made + 1
                /\ \/ /\ w' = Provisioned(w, made + 1) /\ tok' = TRUE /\ pc' = "name"
                      /\ UNCHANGED faults
                   \/ /\ Fault("matrix") /\ w' = [w EXCEPT !.phase = PhaseAfterError(w)]
                      /\ pc' = "patch" /\ UNCHANGED tok
                /\ UNCHANGED botq
             \/ /\ acct # 0 /\ Fault("bot")
                /\ w' = [w EXCEPT !.phase = PhaseAfterError(w)] /\ pc' = "patch"
                /\ UNCHANGED <<acct, botq, tok>>
             \/ /\ acct # 0
                /\ botq' = Append(botq, [op |-> "reset", pw |-> made + 1])
                /\ w' = [w EXCEPT !.pw = made + 1] /\ pc' = "recover"
                /\ UNCHANGED <<acct, tok, faults>>
    /\ UNCHANGED <<kube, env, shown, mem, up, left, sweep, row, base, desired, todo, cur, lives>>

\* The login attempts after the reset command; an error of EnsureUser ends
\* the pass, and the password is forgotten.
Recover ==
    /\ pc = "recover"
    /\ \/ /\ acct = w.pw
          /\ w' = Provisioned(w, w.pw) /\ tok' = TRUE /\ pc' = "name"
          /\ UNCHANGED faults
       \/ /\ acct # w.pw /\ Fault("slow")
          /\ w' = [w EXCEPT !.pw = base.pw, !.phase = PhaseAfterError(w)] /\ pc' = "patch"
          /\ UNCHANGED tok
    /\ UNCHANGED <<kube, env, world, base, desired, todo, cur, made, lives>>

\* A login with the password in the status; it fails if the user changed it.
CanLogIn == tok \/ (w.pw # 0 /\ acct = w.pw)

\* buildDesiredHumanRooms, and the loop over the rooms not in the status.
ReadRooms ==
    /\ desired' = w.access \cap up
    /\ todo' = desired' \ w.rooms /\ pc' = "invite"

\* Mutant: the profile is written once, at registration.
SyncNameOnce ==
    /\ pc = "name" /\ ReadRooms
    /\ IF w.synced # 0 \/ ~CanLogIn
       THEN UNCHANGED <<shown, w, tok>>
       ELSE shown' = w.gen /\ w' = [w EXCEPT !.synced = w.gen] /\ tok' = TRUE
    /\ UNCHANGED <<kube, env, acct, botq, mem, up, left, sweep, row, base, cur, counts>>

\* The displayName is synced on first provisioning and per generation.
SyncName ==
    /\ pc = "name" /\ ReadRooms
    /\ \/ (~tok /\ w.synced = w.gen) /\ UNCHANGED <<shown, w, tok, faults>>
       \/ (tok \/ w.synced # w.gen) /\ ~CanLogIn /\ UNCHANGED <<shown, w, tok, faults>>
       \/ /\ (tok \/ w.synced # w.gen) /\ CanLogIn
          /\ shown' = w.gen /\ w' = [w EXCEPT !.synced = w.gen] /\ tok' = TRUE
          /\ UNCHANGED faults
       \/ /\ (tok \/ w.synced # w.gen) /\ CanLogIn /\ Fault("matrix")
          /\ UNCHANGED <<shown, w, tok>>
    /\ UNCHANGED <<kube, env, acct, botq, mem, up, left, sweep, row, base, cur, made, lives>>

\* The admin invites; a failure leaves the room for the next pass, and so does
\* a room the admin has left.
Invite ==
    /\ pc = "invite"
    /\ \/ \E r \in todo :
          /\ todo' = todo \ {r}
          /\ \/ /\ r \notin left
                /\ mem' = [mem EXCEPT ![r] = IF @ = "out" THEN "invited" ELSE @]
                /\ cur' = r /\ pc' = "join" /\ UNCHANGED faults
             \/ r \in left /\ UNCHANGED <<mem, cur, pc, faults>>
             \/ Fault("matrix") /\ UNCHANGED <<mem, cur, pc>>
       \/ /\ todo = {}
          /\ todo' = w.rooms \ desired /\ pc' = "kick"
          /\ UNCHANGED <<mem, cur, faults>>
    /\ UNCHANGED <<kube, env, acct, shown, botq, up, left, sweep, row, w, base, tok, desired, made, lives>>

\* Mutant: an invitation counts as membership.
JoinAssumed ==
    /\ pc = "join"
    /\ IF CanLogIn /\ mem[cur] # "out"
       THEN mem' = [mem EXCEPT ![cur] = "joined"] ELSE UNCHANGED mem
    /\ w' = [w EXCEPT !.rooms = @ \cup {cur}] /\ tok' = CanLogIn
    /\ pc' = "invite" /\ cur' = NoRoom
    /\ UNCHANGED <<kube, env, acct, shown, botq, up, left, sweep, row, base, desired, todo, counts>>

\* ensureUserToken and JoinRoomAs: only a room that was joined is recorded.
Join ==
    /\ pc = "join"
    /\ \/ /\ CanLogIn /\ mem[cur] # "out"
          /\ mem' = [mem EXCEPT ![cur] = "joined"]
          /\ w' = [w EXCEPT !.rooms = @ \cup {cur}] /\ tok' = TRUE
          /\ UNCHANGED faults
       \/ /\ CanLogIn /\ mem[cur] = "out"          \* kicked since the invite
          /\ tok' = TRUE /\ UNCHANGED <<mem, w, faults>>
       \/ ~CanLogIn /\ UNCHANGED <<mem, w, tok, faults>>
       \/ Fault("join") /\ UNCHANGED <<mem, w, tok>>
    /\ pc' = "invite" /\ cur' = NoRoom
    /\ UNCHANGED <<kube, env, acct, shown, botq, up, left, sweep, row, base, desired, todo, made, lives>>

\* reconcileHumanLegacy, whose failure is logged, and the phase.
Legacy ==
    /\ todo = {} /\ pc' = "patch"
    /\ \/ row' = TRUE /\ UNCHANGED faults
       \/ Fault("api") /\ UNCHANGED row
    /\ w' = [w EXCEPT !.phase = IF w.id THEN "Active" ELSE "Pending"]
    /\ UNCHANGED <<mem, todo>>

\* Mutant: a room whose kick failed is dropped from the status too.
KickOnce ==
    /\ pc = "kick"
    /\ \/ \E r \in todo :
          /\ todo' = todo \ {r} /\ w' = [w EXCEPT !.rooms = @ \ {r}]
          /\ \/ mem' = [mem EXCEPT ![r] = "out"] /\ UNCHANGED faults
             \/ Fault("matrix") /\ UNCHANGED mem
          /\ UNCHANGED <<row, pc>>
       \/ Legacy
    /\ UNCHANGED <<kube, env, acct, shown, botq, up, left, sweep, base, tok, desired, cur, made, lives>>

\* The admin kicks; a failed kick keeps the room in the status.  In a room it
\* has left the kick is refused: KickFromRoomWithToken reports some refusals
\* ("not in", "cannot kick") as success, others as failure.
Kick ==
    /\ pc = "kick"
    /\ \/ \E r \in todo :
          /\ todo' = todo \ {r}
          /\ \/ /\ r \notin left /\ mem' = [mem EXCEPT ![r] = "out"]
                /\ w' = [w EXCEPT !.rooms = @ \ {r}] /\ UNCHANGED faults
             \/ /\ r \in left
                /\ w' = [w EXCEPT !.rooms = @ \ {r}] /\ UNCHANGED <<mem, faults>>
             \/ r \in left /\ UNCHANGED <<mem, w, faults>>
             \/ Fault("matrix") /\ UNCHANGED <<mem, w>>
          /\ UNCHANGED <<row, pc>>
       \/ Legacy
    /\ UNCHANGED <<kube, env, acct, shown, botq, up, left, sweep, base, tok, desired, cur, made, lives>>

Merge(o, b, n) ==
    [o EXCEPT !.id = Merged(@, b.id, n.id), !.pw = Merged(@, b.pw, n.pw),
              !.synced = Merged(@, b.synced, n.synced),
              !.rooms = Merged(@, b.rooms, n.rooms), !.phase = Merged(@, b.phase, n.phase)]

\* The deferred status patch.
PatchStatus ==
    /\ pc = "patch"
    /\ \/ PatchAccepted(w, base) /\ Write(Merge(api, base, w)) /\ UNCHANGED faults
       \/ ~PatchAccepted(w, base) /\ UNCHANGED <<api, watch, faults>>
       \/ Fault("api") /\ UNCHANGED <<api, watch>>
    /\ Finish
    /\ UNCHANGED <<cache, env, world, made, lives>>

Leaves(rs) == LET q == SetToSeq(rs) IN
              [i \in DOMAIN q |-> [op |-> "leave", room |-> q[i]]]

\* reconcileHumanDelete: a force-leave command for every recorded room and
\* the registry; neither is fatal.
LeaveRooms ==
    /\ pc = "leave"
    /\ \/ botq' = botq \o Leaves(w.rooms) /\ row' = FALSE /\ UNCHANGED faults
       \/ Fault("api") /\ botq' = botq \o Leaves(w.rooms) /\ UNCHANGED row
       \/ /\ Fault("bot")
          /\ \E sent \in SUBSET w.rooms : botq' = botq \o Leaves(sent)
          /\ row' = FALSE
    /\ pc' = "unfinalize"
    /\ UNCHANGED <<kube, env, acct, shown, mem, up, left, sweep, w, base, tok, desired, todo, cur,
                   made, lives>>

RemoveFinalizer ==
    /\ pc = "unfinalize"
    /\ \/ UpdateAccepted(w) /\ Write(Unfinalized(api)) /\ UNCHANGED faults
       \/ ~UpdateAccepted(w) /\ UNCHANGED <<api, watch, faults>>
       \/ Fault("api") /\ UNCHANGED <<api, watch>>
    /\ Finish
    /\ UNCHANGED <<cache, env, world, made, lives>>

Crash ==
    /\ Fault("crash")
    /\ Finish /\ Relist
    /\ UNCHANGED <<env, world, made, lives>>

Reconcile ==
    \/ Begin \/ AddFinalizer \/ Infra \/ Recover \/ SyncName \/ Invite \/ Join
    \/ Kick \/ PatchStatus \/ LeaveRooms \/ RemoveFinalizer

Sweep(r) == ReadMembers(r) \/ SetMembers(r)

Next ==
    \/ Reconcile \/ Deliver \/ BotRuns \/ \E r \in Rooms : Sweep(r)
    \/ CreateCR \/ Edit \/ DeleteCR \/ UserRotates \/ Crash
    \/ \E r \in Rooms : Publish(r) \/ AdminLeaves(r)

Spec == Init /\ [][Next]_vars

\* Every pass asks for another one, the watch delivers, the bot works off its
\* queue and the owners keep reconciling.
FairSpec ==
    /\ Spec
    /\ WF_vars(Reconcile) /\ WF_vars(Deliver) /\ WF_vars(BotRuns)
    /\ \A r \in Rooms : WF_vars(Sweep(r))

-----------------------------------------------------------------------------
Live == api.exists /\ ~api.deleting

\* No owner puts the Human out of a room it has access to.
OwnersAgree == env.swept \subseteq env.listed

\* A room in Status.Rooms is never tried again, so it must be one the Human
\* is in: also when commands of an earlier CR of that name are still in the
\* bot's queue, and when invites are swept, kicked or lost in between.  It
\* holds where passes start from the current CR and no status patch is lost,
\* which after a kick would leave the room recorded.
RecordedIsJoined ==
    /\ OwnersAgree /\ Live /\ pc = "idle"
    /\ env.faults \cap {"api", "crash"} = {} /\ env.lag = "none"
    => \A r \in api.rooms : mem[r] = "joined"

\* Once the status has the account, its password is the user's: no pass
\* resets it, whatever fails and whether or not the stored one still works,
\* provided that each pass has received the status that names the account.
PasswordKept ==
    [][env.lag # "any" /\ Live /\ api.id /\ acct' # acct => UserRotates]_vars

\* The same however late a pass reads: "We deliberately never fall back to
\* EnsureHumanUser after the first provisioning" (human_reconcile_infra.go:31).
PasswordNeverReset ==
    [][Live /\ api.id /\ acct' # acct => UserRotates]_vars

\* A Human whose access is granted ends up in the room, is listed in the
\* registry and shows its current name, and the password its status gives is
\* the account's.  With a changed password the controller cannot join for the
\* user: the invitation has to do.  Rooms of Teams with their own admin are
\* left out: see AccessJoined.
InSync ==
    Live => /\ api.id /\ row /\ api.phase = "Active"
            /\ ~env.rotates => shown = api.gen /\ acct = api.pw
            /\ \A r \in (api.access \cap up) \ env.led :
                  mem[r] = "joined" \/ (env.rotates /\ mem[r] = "invited")

\* A pass loses what it did: its status patch is lost.
Lossy == env.faults \cap {"api", "crash"} # {}

\* Access that is granted is given in the end, through failures, lost patches
\* and restarts, unless an owner's pass puts the Human out, or a lost patch
\* hides a kick from the pass that follows (ensureHumanRooms).
Admitted ==
    OwnersAgree /\ ~(Lossy /\ "revoke" \in env.edits) => <>[]InSync

\* Who lost access, and who was deleted, is put out of the rooms, also if a
\* kick fails at first.  Not covered: an invitation whose join failed, and a
\* membership whose status patch was lost or refused; nothing records them.
\* A late read may make a join fail, with an outdated password.  In the room
\* of a Team with its own admin the kick may be refused and count as done.
Revoked ==
    /\ env.faults \cap {"join", "bot"} = {} /\ ~Lossy /\ ~env.rotates /\ env.lag = "none"
    /\ [](pc = "patch" /\ api.exists => PatchAccepted(w, base))
    => <>[](\A r \in Rooms \ (env.listed \cup env.led) :
               mem[r] # "out" => Live /\ r \in api.access)

\* "The reconciler's entire job is to keep a Matrix user plus a set of room
\* memberships in sync with Spec.AccessibleWorkers/Teams"
\* (human_controller.go:20).
AccessKept == <>[](Live => \A r \in api.access \cap up : mem[r] # "out")

\* "Additions: invite via admin (always), then /join as the user"
\* (human_reconcile_rooms.go:14).
AccessJoined == <>[](Live => \A r \in api.access \cap up : mem[r] = "joined")
=============================================================================
