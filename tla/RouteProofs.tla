---------------------------- MODULE RouteProofs ----------------------------
(***************************************************************************)
(* Proofs about the AI routes of Provisioning, for every set of consumers  *)
(* and routes, every environment and every bound: reading and writing      *)
(* whole routes under a lock implements sets that change one consumer at a *)
(* time.                                                                   *)
(***************************************************************************)
EXTENDS Provisioning, TLAPS

\* Only the holder of aiRouteMu is in modifyAIRoutes, and only with Higress.
Exclusive ==
    \A c \in Clients : calls[c].at # "none" => holder = c /\ ~env.cloud

\* What a PUT is computed from is what the route still holds, as far as the
\* console can tell; and without versions nobody else writes.
ReadIsCurrent ==
    \A c \in Clients : calls[c].at = "put" =>
       /\ calls[c].cur \in Routes
       /\ calls[c].fresh => calls[c].seen = routes[calls[c].cur]
       /\ env.versioned \/ calls[c].fresh

\* The inductive invariant.
RouteInv == env \in Env /\ RoutesTypeOK /\ Exclusive /\ ReadIsCurrent

-----------------------------------------------------------------------------
(***************************************************************************)
(* The operations of AIRoutes.                                             *)
(***************************************************************************)
LEMMA NoCallIsCall == NoCall \in Call
  BY RoutesAssumption DEF NoCall, Call

LEMMA ConsumersAre == Other \in Consumers /\ \A c \in Clients : c \in Consumers /\ c # Nobody
  BY RoutesAssumption DEF Consumers

LEMMA Tries ==
    /\ 0 \in 0 .. MaxRetries - 1
    /\ \A t \in 0 .. MaxRetries - 1 : t + 1 < MaxRetries => t + 1 \in 0 .. MaxRetries - 1
  BY RoutesAssumption

\* A write that replaces one route by a set that differs in c only.
LEMMA OneConsumer ==
    ASSUME RoutesTypeOK, NEW c \in Consumers, NEW r \in Routes, NEW s \in SUBSET Consumers,
           s \ {c} = routes[r] \ {c}, routes' = [routes EXCEPT ![r] = s]
    PROVE  RouteSets!ChangeOnly(c)
  BY DEF RoutesTypeOK, RouteSets!ChangeOnly

\* modifyAIRoutes excludes the other controllers of the process.
LEMMA EnterKeeps ==
    ASSUME RouteInv, NEW c \in Clients, NEW add \in BOOLEAN, Enter(c, add), ~env.cloud, env' = env
    PROVE  RouteInv'
  <1> DEFINE in == [NoCall EXCEPT !.at = "get", !.add = add, !.todo = Routes]
  <1>1. in \in Call /\ in.at = "get"
    BY NoCallIsCall DEF Call, NoCall
  <1>2. calls' = [calls EXCEPT ![c] = in] /\ holder = Nobody /\ holder' = c /\ routes' = routes
    BY DEF Enter
  <1>3. \A d \in Clients : calls[d].at = "none"
    BY <1>2, ConsumersAre DEF RouteInv, Exclusive
  <1>4. RoutesTypeOK'
    BY <1>1, <1>2 DEF RouteInv, RoutesTypeOK
  <1>5. \A d \in Clients : calls'[d] = IF d = c THEN in ELSE calls[d]
    BY <1>2 DEF RouteInv, RoutesTypeOK
  <1>6. Exclusive' /\ ReadIsCurrent'
    BY <1>1, <1>2, <1>3, <1>5 DEF Exclusive, ReadIsCurrent
  <1> QED BY <1>4, <1>6 DEF RouteInv

\* A step of the loop changes the call of the lock's holder; the others are
\* in no call, whatever is done to their freshness.
LEMMA LoopKeeps ==
    ASSUME RouteInv, NEW c \in Clients, calls[c].at # "none", NEW in \in Call, env' = env,
           in.at \in {"get", "put"}, in.at = "put" => in.cur \in Routes /\ in.fresh
                                                     /\ in.seen = routes'[in.cur],
           calls' = [calls EXCEPT ![c] = in], holder' = holder,
           routes' \in [Routes -> SUBSET Consumers]
    PROVE  RouteInv'
  <1>1. RoutesTypeOK'
    BY DEF RouteInv, RoutesTypeOK
  <1>2. holder = c /\ ~env.cloud
    BY DEF RouteInv, Exclusive
  <1>3. \A d \in Clients : calls'[d] = IF d = c THEN in ELSE calls[d]
    BY DEF RouteInv, RoutesTypeOK
  <1>4. \A d \in Clients \ {c} : calls[d].at = "none"
    BY <1>2 DEF RouteInv, Exclusive
  <1> QED BY <1>1, <1>2, <1>3, <1>4 DEF RouteInv, Exclusive, ReadIsCurrent

\* A GET reads what is there.
LEMMA GetKeeps ==
    ASSUME RouteInv, NEW c \in Clients, GetRoute(c), env' = env
    PROVE  RouteInv' /\ UNCHANGED routes
  <1>1. calls[c] \in Call /\ calls[c].at = "get" /\ UNCHANGED <<routes, holder>>
    BY DEF RouteInv, RoutesTypeOK, GetRoute
  <1>2. PICK r \in Routes :
           IF Added(c, r) \/ c \in routes[r]
           THEN calls' = [calls EXCEPT ![c].at = "put", ![c].cur = r,
                                       ![c].seen = routes[r], ![c].fresh = TRUE]
           ELSE calls' = [calls EXCEPT ![c].todo = @ \ {r}, ![c].cur = NoRoute,
                                       ![c].tries = 0]
    BY DEF GetRoute
  <1> DEFINE read == [calls[c] EXCEPT !.at = "put", !.cur = r, !.seen = routes[r], !.fresh = TRUE]
             skip == [calls[c] EXCEPT !.todo = @ \ {r}, !.cur = NoRoute, !.tries = 0]
  <1>3. routes[r] \in SUBSET Consumers /\ routes' \in [Routes -> SUBSET Consumers]
    BY <1>1 DEF RouteInv, RoutesTypeOK
  <1>4. /\ read \in Call /\ read.at = "put"
        /\ read.cur = r /\ read.fresh /\ read.seen = routes[r]
    BY <1>1, <1>3 DEF Call
  <1>5. skip \in Call /\ skip.at = "get"
    BY <1>1, Tries DEF Call
  <1>6. calls' = [calls EXCEPT ![c] = read] \/ calls' = [calls EXCEPT ![c] = skip]
    BY <1>2 DEF RouteInv, RoutesTypeOK
  <1>7. CASE calls' = [calls EXCEPT ![c] = read]
    BY <1>1, <1>3, <1>4, <1>7, LoopKeeps
  <1>8. CASE calls' = [calls EXCEPT ![c] = skip]
    BY <1>1, <1>3, <1>8, <1>5, LoopKeeps
  <1> QED BY <1>1, <1>6, <1>7, <1>8

\* The call as it goes on to the next route.
LEMMA NextRouteIs ==
    ASSUME RouteInv, NEW c \in Clients, NEW failed \in BOOLEAN
    PROVE  \E in \in Call : in.at = "get" /\ in.cur = NoRoute
                            /\ NextRoute(c, failed) = [calls EXCEPT ![c] = in]
  <1> DEFINE in == [calls[c] EXCEPT !.at = "get", !.todo = @ \ {calls[c].cur}, !.cur = NoRoute,
                                    !.seen = {}, !.fresh = FALSE, !.tries = 0,
                                    !.err = @ \/ failed]
  <1>1. calls[c] \in Call /\ calls \in [Clients -> Call]
    BY DEF RouteInv, RoutesTypeOK
  <1>2. in \in Call /\ in.at = "get" /\ in.cur = NoRoute
    BY <1>1, Tries DEF Call
  <1>3. NextRoute(c, failed) = [calls EXCEPT ![c] = in]
    BY <1>1 DEF NextRoute
  <1> QED BY <1>2, <1>3

\* Nobody else has read the route that the holder of the lock writes.
LEMMA WriteKeeps ==
    ASSUME RouteInv, NEW c \in Clients, calls[c].at = "put", NEW failed \in BOOLEAN, env' = env,
           ~(env.versioned /\ ~calls[c].fresh),
           routes' = [routes EXCEPT ![calls[c].cur] = Body(c)],
           calls' = Outdated(NextRoute(c, failed), calls[c].cur), holder' = holder
    PROVE  RouteInv' /\ RouteSets!ChangeOnly(c)
  <1> DEFINE r == calls[c].cur
  <1>1. /\ r \in Routes /\ calls[c] \in Call /\ calls \in [Clients -> Call]
        /\ routes \in [Routes -> SUBSET Consumers] /\ env \in Env
        /\ holder = c /\ ~env.cloud
    BY DEF RouteInv, RoutesTypeOK, ReadIsCurrent, Exclusive
  <1>2. calls[c].fresh /\ calls[c].seen = routes[r]
    BY <1>1 DEF RouteInv, ReadIsCurrent
  <1>3. Body(c) \in SUBSET Consumers /\ Body(c) \ {c} = routes[r] \ {c}
    BY <1>1, <1>2, ConsumersAre DEF Body
  <1>4. RouteSets!ChangeOnly(c)
    BY <1>1, <1>3, OneConsumer, ConsumersAre DEF RouteInv
  <1>5. PICK in \in Call : in.at = "get" /\ in.cur = NoRoute
                           /\ NextRoute(c, failed) = [calls EXCEPT ![c] = in]
    BY NextRouteIs
  <1>6. \A d \in Clients : calls'[d] \in Call /\ calls'[d].at = IF d = c THEN "get" ELSE calls[d].at
    <2> TAKE d \in Clients
    <2> DEFINE n == [calls EXCEPT ![c] = in]
    <2>1. n[d] \in Call /\ n[d].at = IF d = c THEN "get" ELSE calls[d].at
      BY <1>1, <1>5
    <2>2. [n[d] EXCEPT !.fresh = FALSE] \in Call /\ [n[d] EXCEPT !.fresh = FALSE].at = n[d].at
      BY <2>1 DEF Call
    <2>3. calls'[d] = n[d] \/ calls'[d] = [n[d] EXCEPT !.fresh = FALSE]
      BY <1>5 DEF Outdated
    <2> QED BY <2>1, <2>2, <2>3
  <1>7. \A d \in Clients : calls'[d].at # "put" /\ (calls'[d].at # "none" => d = c)
    BY <1>1, <1>6 DEF RouteInv, Exclusive
  <1>8. calls' \in [Clients -> Call]
    BY <1>6 DEF Outdated
  <1>9. RoutesTypeOK'
    BY <1>1, <1>3, <1>8 DEF RouteInv, RoutesTypeOK
  <1> QED BY <1>1, <1>4, <1>7, <1>9 DEF RouteInv, Exclusive, ReadIsCurrent

\* A PUT is refused, or changes the authorization of c alone.
LEMMA PutKeeps ==
    ASSUME RouteInv, NEW c \in Clients, PutRoute(c, env.versioned), env' = env
    PROVE  RouteInv' /\ (RouteSets!ChangeOnly(c) \/ UNCHANGED routes)
  <1>1. calls[c] \in Call /\ calls[c].at = "put" /\ holder' = holder
    BY DEF RouteInv, RoutesTypeOK, PutRoute
  <1>2. CASE env.versioned /\ ~calls[c].fresh
    <2>1. routes' = routes /\ routes' \in [Routes -> SUBSET Consumers]
      BY <1>2 DEF PutRoute, RouteInv, RoutesTypeOK
    <2>2. CASE calls[c].tries + 1 < MaxRetries
      <3> DEFINE in == [calls[c] EXCEPT !.at = "get", !.tries = @ + 1, !.seen = {}, !.fresh = FALSE]
      <3>1. in \in Call /\ in.at = "get"
        BY <1>1, <2>2, Tries DEF Call
      <3>2. calls' = [calls EXCEPT ![c] = in]
        BY <1>2, <2>2 DEF PutRoute, RouteInv, RoutesTypeOK
      <3> QED BY <1>1, <2>1, <3>1, <3>2, LoopKeeps
    <2>3. CASE ~(calls[c].tries + 1 < MaxRetries)
      <3>1. calls' = NextRoute(c, TRUE)
        BY <1>2, <2>3 DEF PutRoute
      <3>2. PICK in \in Call : in.at = "get" /\ calls' = [calls EXCEPT ![c] = in]
        BY <3>1, NextRouteIs
      <3> QED BY <1>1, <2>1, <3>2, LoopKeeps
    <2> QED BY <2>2, <2>3
  <1>3. CASE ~(env.versioned /\ ~calls[c].fresh)
    <2>1. routes' = [routes EXCEPT ![calls[c].cur] = Body(c)]
          /\ calls' = Outdated(NextRoute(c, FALSE), calls[c].cur)
      BY <1>3 DEF PutRoute
    <2> QED BY <1>1, <1>3, <2>1, WriteKeeps
  <1> QED BY <1>2, <1>3

\* A failed request may have been executed, and then it is such a change too.
LEMMA FailKeeps ==
    ASSUME RouteInv, NEW c \in Clients, RouteFails(c, env.versioned), env' = env
    PROVE  RouteInv' /\ (RouteSets!ChangeOnly(c) \/ UNCHANGED routes)
  <1>1. calls[c] \in Call /\ calls \in [Clients -> Call]
        /\ routes \in [Routes -> SUBSET Consumers]
    BY DEF RouteInv, RoutesTypeOK
  <1>2. ASSUME calls[c].at = "get", UNCHANGED <<routes, holder>>, NEW r \in Routes,
               calls' = [calls EXCEPT ![c].todo = @ \ {r}, ![c].cur = NoRoute,
                                      ![c].tries = 0, ![c].err = TRUE]
        PROVE  RouteInv'
    <2> DEFINE in == [calls[c] EXCEPT !.todo = @ \ {r}, !.cur = NoRoute, !.tries = 0, !.err = TRUE]
    <2>1. in \in Call /\ in.at = "get"
      BY <1>1, <1>2, Tries DEF Call
    <2>2. calls' = [calls EXCEPT ![c] = in]
      BY <1>1, <1>2
    <2> QED BY <1>1, <1>2, <2>1, <2>2, LoopKeeps
  <1>3. ASSUME calls[c].at = "put", UNCHANGED <<routes, holder>>, calls' = NextRoute(c, TRUE)
        PROVE  RouteInv'
    <2>1. PICK in \in Call : in.at = "get" /\ calls' = [calls EXCEPT ![c] = in]
      BY <1>3, NextRouteIs
    <2> QED BY <1>1, <1>3, <2>1, LoopKeeps
  <1>4. ASSUME calls[c].at = "put", ~(env.versioned /\ ~calls[c].fresh),
               routes' = [routes EXCEPT ![calls[c].cur] = Body(c)],
               calls' = Outdated(NextRoute(c, TRUE), calls[c].cur), holder' = holder
        PROVE  RouteInv' /\ RouteSets!ChangeOnly(c)
    BY <1>4, WriteKeeps
  <1> QED BY <1>2, <1>3, <1>4 DEF RouteFails

\* The lock is released.
LEMMA LeaveKeeps ==
    ASSUME RouteInv, NEW c \in Clients, Leave(c), env' = env
    PROVE  RouteInv' /\ UNCHANGED routes
  <1>1. calls' = [calls EXCEPT ![c] = NoCall] /\ UNCHANGED routes /\ holder' = Nobody
        /\ calls[c].at = "get"
    BY DEF Leave, Done
  <1>2. \A d \in Clients : calls'[d].at = "none"
    BY <1>1 DEF RouteInv, RoutesTypeOK, Exclusive, NoCall
  <1>3. RoutesTypeOK'
    BY <1>1, NoCallIsCall DEF RouteInv, RoutesTypeOK
  <1> QED BY <1>1, <1>2, <1>3 DEF RouteInv, Exclusive, ReadIsCurrent

\* A restarted process has no call in progress and a free lock.
LEMMA RestartKeeps ==
    ASSUME RouteInv, Restarted, UNCHANGED routes, env' = env
    PROVE  RouteInv'
  BY NoCallIsCall DEF RouteInv, RoutesTypeOK, Exclusive, ReadIsCurrent, Restarted, NoCall

\* The console writes a route: a call that has read it is told so.
LEMMA OtherKeeps ==
    ASSUME RouteInv, NEW r \in Routes, OtherWrites(r), env.versioned, env' = env
    PROVE  RouteInv' /\ RouteSets!ChangeOnly(Other)
  <1>1. PICK s \in {routes[r] \cup {Other}, routes[r] \ {Other}} :
           routes' = [routes EXCEPT ![r] = s]
    BY DEF OtherWrites
  <1>2. calls' = Outdated(calls, r) /\ holder' = holder
    BY DEF OtherWrites
  <1>3. /\ calls \in [Clients -> Call] /\ routes \in [Routes -> SUBSET Consumers]
        /\ s \in SUBSET Consumers /\ s \ {Other} = routes[r] \ {Other}
    BY ConsumersAre DEF RouteInv, RoutesTypeOK
  <1>4. RouteSets!ChangeOnly(Other)
    BY <1>1, <1>3, OneConsumer, ConsumersAre DEF RouteInv
  <1>5. \A d \in Clients : /\ calls'[d] \in Call
                           /\ calls'[d].at = calls[d].at /\ calls'[d].cur = calls[d].cur
                           /\ calls'[d].seen = calls[d].seen
                           /\ calls'[d].fresh => calls[d].fresh /\ calls[d].cur # r
    <2> TAKE d \in Clients
    <2>1. calls'[d] = IF calls[d].cur = r THEN [calls[d] EXCEPT !.fresh = FALSE] ELSE calls[d]
      BY <1>2 DEF Outdated
    <2>2. calls[d] \in Call
      BY <1>3
    <2> QED BY <2>1, <2>2 DEF Call
  <1>6. calls' \in [Clients -> Call]
    BY <1>2, <1>5 DEF Outdated
  <1>7. RoutesTypeOK'
    BY <1>1, <1>2, <1>3, <1>6 DEF RouteInv, RoutesTypeOK
  <1>8. Exclusive' /\ ReadIsCurrent'
    BY <1>1, <1>2, <1>3, <1>5 DEF RouteInv, Exclusive, ReadIsCurrent
  <1> QED BY <1>4, <1>7, <1>8 DEF RouteInv

-----------------------------------------------------------------------------
(***************************************************************************)
(* The steps of Provisioning.                                              *)
(***************************************************************************)
LEMMA QuietKeeps == ASSUME RouteInv, UNCHANGED <<env, routeVars>> PROVE RouteInv'
  BY DEF routeVars, RouteInv, RoutesTypeOK, Exclusive, ReadIsCurrent

\* Steps that leave the routes alone.
LEMMA PassIsQuiet ==
    ASSUME NEW c \in Clients,
           \/ LoadOrGenerate(c) \/ Register(c) \/ Recover(c) \/ Storage(c) \/ Room(c)
           \/ Consumer(c) \/ Ensure(c) \/ Finish(c) \/ Refresh(c) \/ LeaveRooms(c)
           \/ Cleanup(c) \/ Finalize(c) \/ CreateCR(c) \/ DeleteCR(c) \/ BotRuns
    PROVE  UNCHANGED <<env, routeVars>>
  BY DEF LoadOrGenerate, Register, Recover, Storage, Room, Consumer, Ensure, Finish, Refresh,
         LeaveRooms, Cleanup, Finalize, CreateCR, DeleteCR, BotRuns

\* The cloud gateway adds or removes one rule at a time.
LEMMA AuthorizeKeeps ==
    ASSUME RouteInv, NEW c \in Clients, Authorize(c) \/ Deauthorize(c)
    PROVE  RouteInv' /\ (RouteSets!ChangeOnly(c) \/ UNCHANGED routes)
  <1>1. env' = env /\ env \in Env /\ routes \in [Routes -> SUBSET Consumers]
    BY DEF Authorize, Deauthorize, RouteInv, RoutesTypeOK
  <1>2. CASE ~env.cloud /\ (Enter(c, TRUE) \/ Enter(c, FALSE))
    <2>1. RouteInv'
      BY <1>1, <1>2, EnterKeeps
    <2>2. UNCHANGED routes
      BY <1>2 DEF Enter
    <2> QED BY <2>1, <2>2
  <1>3. CASE UNCHANGED routeVars
    BY <1>1, <1>3, QuietKeeps DEF routeVars
  <1>4. CASE /\ env.cloud /\ UNCHANGED <<holder, calls>>
             /\ routes' = [r \in Routes |-> IF r \in Wanted(c) THEN routes[r] \cup {c} ELSE routes[r]]
    <2>1. RouteSets!ChangeOnly(c)
      BY <1>1, <1>4, ConsumersAre DEF RouteSets!ChangeOnly
    <2>2. RouteInv'
      BY <1>1, <1>4, <2>1
         DEF RouteInv, RoutesTypeOK, Exclusive, ReadIsCurrent, RouteSets!ChangeOnly
    <2> QED BY <2>1, <2>2
  <1>5. CASE /\ env.cloud /\ UNCHANGED <<holder, calls>>
             /\ routes' = [routes EXCEPT ![DefaultAPI] = @ \ {c}]
    <2>1. RouteSets!ChangeOnly(c)
      BY <1>1, <1>5, ConsumersAre, ProvisioningAssumption DEF RouteSets!ChangeOnly
    <2>2. RouteInv'
      BY <1>1, <1>5, <2>1
         DEF RouteInv, RoutesTypeOK, Exclusive, ReadIsCurrent, RouteSets!ChangeOnly
    <2> QED BY <2>1, <2>2
  <1> QED BY <1>2, <1>3, <1>4, <1>5 DEF Authorize, Deauthorize

LEMMA InitEstablishes == Init => RouteInv /\ RouteSets!Init
  <1> SUFFICES ASSUME Init PROVE RouteInv /\ RouteSets!Init
    OBVIOUS
  <1>1. env \in Env /\ env.legacy \subseteq Clients
    BY ProvisioningAssumption DEF Init, Env
  <1>2. routes \in [Routes -> SUBSET Consumers]
    BY <1>1, ConsumersAre DEF Init
  <1>3. \A c \in Clients : calls[c] = NoCall /\ NoCall.at = "none"
    BY DEF Init, NoCall
  <1>4. RoutesTypeOK
    BY <1>2, NoCallIsCall DEF Init, RoutesTypeOK
  <1> QED BY <1>1, <1>2, <1>3, <1>4 DEF RouteInv, Exclusive, ReadIsCurrent, RouteSets!Init

\* Every step keeps the invariant and is a step or a stutter of RouteSets.
LEMMA StepSimulates ==
    ASSUME RouteInv, [Next]_vars
    PROVE  RouteInv' /\ [RouteSets!Next]_routes
  <1> DEFINE Good == RouteInv' /\ [RouteSets!Next]_routes
  <1> SUFFICES Good
    OBVIOUS
  <1>1. ASSUME NEW c \in Consumers, RouteInv', RouteSets!ChangeOnly(c) \/ UNCHANGED routes
        PROVE  Good
    BY <1>1 DEF RouteSets!Next
  <1>2. ASSUME UNCHANGED <<env, routeVars>> PROVE Good
    BY <1>2, QuietKeeps DEF routeVars
  <1>3. CASE UNCHANGED vars
    <2>1. UNCHANGED <<env, routeVars>>
      BY <1>3 DEF vars, routeVars
    <2> QED BY <1>2, <2>1
  <1>4. CASE ConsoleEdits
    <2>1. PICK r \in Routes : OtherWrites(r)
      BY <1>4 DEF ConsoleEdits
    <2>2. env.versioned /\ env' = env
      BY <1>4 DEF ConsoleEdits
    <2> QED BY <1>1, <2>1, <2>2, OtherKeeps, ConsumersAre
  <1>5. CASE Crash
    BY <1>5, RestartKeeps DEF Crash
  <1>6. CASE BotRuns
    BY <1>2, <1>6 DEF BotRuns
  <1>7. ASSUME NEW c \in Clients, CreateCR(c) \/ DeleteCR(c) \/ TornSave(c) \/ Pass(c)
        PROVE  Good
    <2>0. c \in Consumers
      BY ConsumersAre
    <2>1. CASE TornSave(c)
      BY <2>1, RestartKeeps DEF TornSave
    <2>2. CASE Authorize(c) \/ Deauthorize(c)
      BY <1>1, <2>0, <2>2, AuthorizeKeeps
    <2>3. CASE RouteStep(c)
      <3>1. env' = env
        BY <2>3 DEF RouteStep
      <3>2. CASE GetRoute(c)
        BY <1>1, <2>0, <3>1, <3>2, GetKeeps
      <3>3. CASE PutRoute(c, env.versioned)
        BY <1>1, <2>0, <3>1, <3>3, PutKeeps
      <3>4. CASE RouteFails(c, env.versioned)
        BY <1>1, <2>0, <3>1, <3>4, FailKeeps
      <3> QED BY <2>3, <3>2, <3>3, <3>4 DEF RouteStep
    <2>4. CASE RoutesDone(c)
      <3>1. Leave(c) /\ env' = env
        BY <2>4 DEF RoutesDone
      <3> QED BY <1>1, <2>0, <3>1, LeaveKeeps
    <2>5. CASE \/ LoadOrGenerate(c) \/ Register(c) \/ Recover(c) \/ Storage(c) \/ Room(c)
               \/ Consumer(c) \/ Ensure(c) \/ Finish(c) \/ Refresh(c) \/ LeaveRooms(c)
               \/ Cleanup(c) \/ Finalize(c) \/ CreateCR(c) \/ DeleteCR(c)
      BY <1>2, <2>5, PassIsQuiet
    <2> QED BY <1>7, <2>1, <2>2, <2>3, <2>4, <2>5 DEF Pass
  <1> QED BY <1>3, <1>4, <1>5, <1>6, <1>7 DEF Next

\* modifyAIRoutes, its lock, its retries and the console's versions together
\* change one consumer's authorizations at a time (higress.go).
THEOREM RoutesRefine == Spec => RoutesAtomic
  <1>1. Init => RouteInv /\ RouteSets!Init
    BY InitEstablishes
  <1>2. RouteInv /\ [Next]_vars => RouteInv' /\ [RouteSets!Next]_routes
    BY StepSimulates
  <1> QED BY <1>1, <1>2, PTL DEF Spec, RoutesAtomic, RouteSets!Spec

\* Two controllers of one process are never in modifyAIRoutes together, and
\* what a PUT overwrites is what it was computed from.
THEOREM RoutesExclusive == Spec => [](Exclusive /\ ReadIsCurrent)
  <1>1. Init => RouteInv
    BY InitEstablishes
  <1>2. RouteInv /\ [Next]_vars => RouteInv'
    BY StepSimulates
  <1>3. RouteInv => Exclusive /\ ReadIsCurrent
    BY DEF RouteInv
  <1> QED BY <1>1, <1>2, <1>3, PTL DEF Spec
=============================================================================
