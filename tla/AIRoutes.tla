------------------------------ MODULE AIRoutes ------------------------------
(***************************************************************************)
(* The consumers an AI route allows, and HigressClient.modifyAIRoutes      *)
(* (higress.go), which adds or removes one consumer by reading and writing *)
(* whole routes.  The controllers of one process exclude each other with   *)
(* aiRouteMu; others, the console among them, write the same routes.       *)
(*                                                                         *)
(* The definitions describe routes, holder and calls; the module that      *)
(* extends this one says when a call is made and which requests fail.      *)
(***************************************************************************)
EXTENDS Naturals

CONSTANTS
    Clients,     \* the consumers this controller manages
    Other,       \* a consumer of somebody else
    Routes,      \* the AI routes
    Provider,    \* the routes of a consumer's model provider, {} if it has none
    MaxRetries,  \* maxRetries of modifyAIRoutes
    NoRoute, Nobody

ASSUME RoutesAssumption ==
    /\ Other \notin Clients /\ Nobody \notin Clients
    /\ NoRoute \notin Routes
    /\ Provider \in [Clients -> SUBSET Routes]
    /\ MaxRetries \in Nat \ {0}

VARIABLES
    routes,   \* allowedConsumers of every route
    holder,   \* who holds aiRouteMu
    calls     \* the calls of modifyAIRoutes in progress

routeVars == <<routes, holder, calls>>

Consumers == Clients \cup {Other}

\* fresh: the route was not written since it was read, so that the version
\* in the body of a PUT is still the current one.
Call == [at : {"none", "get", "put"}, add : BOOLEAN, todo : SUBSET Routes,
         cur : Routes \cup {NoRoute}, seen : SUBSET Consumers, fresh : BOOLEAN,
         tries : 0 .. MaxRetries - 1, err : BOOLEAN]

NoCall == [at |-> "none", add |-> FALSE, todo |-> {}, cur |-> NoRoute, seen |-> {},
           fresh |-> FALSE, tries |-> 0, err |-> FALSE]

RoutesTypeOK ==
    /\ routes \in [Routes -> SUBSET Consumers]
    /\ holder \in Clients \cup {Nobody}
    /\ calls \in [Clients -> Call]

Matches(c, r) == Provider[c] = {} \/ r \in Provider[c]

\* routeMatchesProvider: an authorization is kept on the provider's routes
\* only; a deauthorization has no filter here.
Added(c, r) == calls[c].add /\ Matches(c, r)

\* Mutant: the calls of one process may overlap.
EnterUnlocked(c, add) ==
    /\ calls[c].at = "none"
    /\ holder' = c
    /\ calls' = [calls EXCEPT ![c] = [NoCall EXCEPT !.at = "get", !.add = add, !.todo = Routes]]
    /\ UNCHANGED routes

\* aiRouteMu is taken and the routes are listed.
Enter(c, add) ==
    /\ calls[c].at = "none"
    /\ holder = Nobody /\ holder' = c
    /\ calls' = [calls EXCEPT ![c] = [NoCall EXCEPT !.at = "get", !.add = add, !.todo = Routes]]
    /\ UNCHANGED routes

\* The loop goes on to the next route.
NextRoute(c, failed) ==
    [calls EXCEPT ![c].at = "get", ![c].todo = @ \ {calls[c].cur}, ![c].cur = NoRoute,
                  ![c].seen = {}, ![c].fresh = FALSE, ![c].tries = 0,
                  ![c].err = @ \/ failed]

\* The next route, in the order of the list; or again the one whose write
\* met a conflict.
Candidate(c, r) ==
    IF calls[c].cur = NoRoute THEN r \in calls[c].todo ELSE r = calls[c].cur

\* A route the consumer is removed from and is not on needs no write; an
\* authorization is written even if nothing changes, to have it synced.
GetRoute(c) ==
    /\ calls[c].at = "get"
    /\ \E r \in Routes :
          /\ Candidate(c, r)
          /\ IF Added(c, r) \/ c \in routes[r]
             THEN calls' = [calls EXCEPT ![c].at = "put", ![c].cur = r,
                                         ![c].seen = routes[r], ![c].fresh = TRUE]
             ELSE calls' = [calls EXCEPT ![c].todo = @ \ {r}, ![c].cur = NoRoute,
                                         ![c].tries = 0]
    /\ UNCHANGED <<routes, holder>>

\* What the PUT of c holds.
Body(c) ==
    IF Added(c, calls[c].cur) THEN calls[c].seen \cup {c} ELSE calls[c].seen \ {c}

\* Whoever has read r and not yet written it has read an old version now.
Outdated(cs, r) == [d \in Clients |-> IF cs[d].cur = r THEN [cs[d] EXCEPT !.fresh = FALSE]
                                                       ELSE cs[d]]

\* Mutant: one attempt too many.
PutRouteOnceMore(c, versioned) ==
    /\ calls[c].at = "put"
    /\ LET r == calls[c].cur IN
       IF versioned /\ ~calls[c].fresh
       THEN /\ calls' = IF calls[c].tries < MaxRetries
                        THEN [calls EXCEPT ![c].at = "get", ![c].tries = @ + 1,
                                           ![c].seen = {}, ![c].fresh = FALSE]
                        ELSE NextRoute(c, TRUE)
            /\ UNCHANGED routes
       ELSE /\ routes' = [routes EXCEPT ![r] = Body(c)]
            /\ calls' = Outdated(NextRoute(c, FALSE), r)
    /\ UNCHANGED holder

\* The console refuses an outdated version with a 409 if it keeps versions;
\* the route is then read again, up to MaxRetries times.
PutRoute(c, versioned) ==
    /\ calls[c].at = "put"
    /\ LET r == calls[c].cur IN
       IF versioned /\ ~calls[c].fresh
       THEN /\ calls' = IF calls[c].tries + 1 < MaxRetries
                        THEN [calls EXCEPT ![c].at = "get", ![c].tries = @ + 1,
                                           ![c].seen = {}, ![c].fresh = FALSE]
                        ELSE NextRoute(c, TRUE)
            /\ UNCHANGED routes
       ELSE /\ routes' = [routes EXCEPT ![r] = Body(c)]
            /\ calls' = Outdated(NextRoute(c, FALSE), r)
    /\ UNCHANGED holder

\* A GET or a PUT fails, or the answer to a PUT is lost: the error is kept
\* for the end and the loop goes on.
RouteFails(c, versioned) ==
    \/ /\ calls[c].at = "get"
       /\ \E r \in Routes :
             /\ Candidate(c, r)
             /\ calls' = [calls EXCEPT ![c].todo = @ \ {r}, ![c].cur = NoRoute,
                                       ![c].tries = 0, ![c].err = TRUE]
       /\ UNCHANGED <<routes, holder>>
    \/ /\ calls[c].at = "put"
       /\ calls' = NextRoute(c, TRUE)
       /\ UNCHANGED <<routes, holder>>
    \/ /\ calls[c].at = "put" /\ ~(versioned /\ ~calls[c].fresh)
       /\ routes' = [routes EXCEPT ![calls[c].cur] = Body(c)]
       /\ calls' = Outdated(NextRoute(c, TRUE), calls[c].cur)
       /\ UNCHANGED holder

\* The routes are done and the lock is released.
Done(c) == calls[c].at = "get" /\ calls[c].todo = {}

Leave(c) ==
    /\ Done(c)
    /\ holder' = Nobody
    /\ calls' = [calls EXCEPT ![c] = NoCall]
    /\ UNCHANGED routes

\* Another writer adds or removes a consumer of its own.
OtherWrites(r) ==
    /\ \E s \in {routes[r] \cup {Other}, routes[r] \ {Other}} :
          s # routes[r] /\ routes' = [routes EXCEPT ![r] = s]
    /\ calls' = Outdated(calls, r)
    /\ UNCHANGED holder

\* Every authorization is changed by its owner alone: the consumers a write
\* did not mean to change are not lost and do not come back, whoever wrote
\* the route in between.
RouteSets == INSTANCE RouteSets WITH allowed <- routes
=============================================================================
