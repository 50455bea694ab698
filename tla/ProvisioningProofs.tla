------------------------- MODULE ProvisioningProofs -------------------------
(***************************************************************************)
(* Proofs about the rest of Provisioning, for every set of CRs, every      *)
(* environment and every bound: its types, what makes the secrets in use   *)
(* stay in the credential store, and what a teardown leaves behind.  The   *)
(* routes are RouteProofs'.                                                *)
(***************************************************************************)
EXTENDS RouteProofs

\* The passes over a live CR and over one that is being deleted.
Setup == {"register", "recover", "storage", "room", "consumer", "ensure", "authorize", "routes",
          "finish"}

Teardown == {"deauthorize", "unroute", "cleanup", "finalize"}

\* The passwords the admin bot is still to set for c.
Pending(c) == {botq[i].pw : i \in {j \in DOMAIN botq : botq[j].user = c}}

\* A pass is over a CR that is there, and deletes only one being deleted.
Phased(c) ==
    /\ pc[c] # "idle" => cr[c].exists
    /\ pc[c] \in Teardown => cr[c].deleting

\* No secret is newer than the last one made for its CR.
Made(c) ==
    /\ c \in env.legacy => serial[c] >= 1
    /\ users[c] <= serial[c] /\ oss[c] <= serial[c] /\ consumers[c] <= serial[c]
    /\ creds[c].pw <= serial[c] /\ creds[c].os <= serial[c] /\ creds[c].key <= serial[c]
    /\ w[c].pw <= serial[c] /\ w[c].os <= serial[c] /\ w[c].key <= serial[c]
    /\ \A p \in Pending(c) : p <= serial[c]

\* A pass works with what is stored; only the cloud gateway makes keys of
\* its own.
Working(c) ==
    pc[c] \in Setup =>
       /\ creds[c].saved /\ w[c].saved
       /\ w[c].pw = creds[c].pw /\ w[c].os = creds[c].os
       /\ env.cloud \/ w[c].key = creds[c].key

\* What a service has from this life of the CR, or is about to get from the
\* admin bot, is what the next pass finds.
Kept(c) ==
    cr[c].exists /\ ~cr[c].deleting =>
       /\ users[c] > cr[c].base => users[c] = Found(c).pw
       /\ oss[c] > cr[c].base => oss[c] = Found(c).os
       /\ consumers[c] > cr[c].base /\ ~env.cloud => consumers[c] = Found(c).key
       /\ \A p \in Pending(c) : p > cr[c].base => p = Found(c).pw

Secure(c) == Made(c) /\ Working(c) /\ (creds[c].saved => creds[c].pw # 0) /\ Kept(c)

\* What Cleanup takes away, and what DeauthorizeAIRoutes does.
Cleaned(c) ==
    consumers[c] = 0 /\ oss[c] = 0 /\ creds[c] = NoCreds /\ c \notin sas /\ c \notin aliases

OffRoutes(c) == \A r \in Routes : c \notin routes[r] \/ (env.cloud /\ r # DefaultAPI)

\* A call that removes c has only routes of its list left to look at, and
\* each of its conflicts is an edit of somebody else.
Removing(c) ==
    /\ calls[c].at # "none" /\ ~calls[c].add
    /\ \A r \in Routes : r \in calls[c].todo \/ c \notin routes[r]
    /\ calls[c].tries <= edits
    /\ calls[c].at = "put" /\ ~calls[c].fresh => calls[c].tries + 1 <= edits

Left(c) ==
    /\ ~cr[c].exists \/ pc[c] = "finalize" => Cleaned(c)
    /\ ~cr[c].exists \/ pc[c] \in {"finalize", "cleanup"} => OffRoutes(c)
    /\ pc[c] = "unroute" => Removing(c)

\* The environments in which a teardown leaves nothing.
Thorough == env.faults \cap {"cleanup", "gateway"} = {} /\ env.edits < MaxRetries

\* The inductive invariant.
PhaseInv == \A c \in Clients : Phased(c)

SecretInv == "torn" \notin env.faults => \A c \in Clients : Secure(c)

LeftInv == Thorough => \A c \in Clients : Left(c)

ProvInv == TypeOK /\ RouteInv /\ PhaseInv /\ SecretInv /\ LeftInv

-----------------------------------------------------------------------------
(***************************************************************************)
(* Records and queues.                                                     *)
(***************************************************************************)
\* The types of what the passes write.
StateTypes ==
    /\ env \in Envs
    /\ cr \in [Clients -> CR]
    /\ creds \in [Clients -> Creds] /\ w \in [Clients -> Creds] /\ held \in [Clients -> Creds]
    /\ users \in [Clients -> Nat] /\ oss \in [Clients -> Nat] /\ consumers \in [Clients -> Nat]
    /\ botq \in Seq([user : Clients, pw : Nat])
    /\ aliases \subseteq Clients /\ joined \subseteq Clients /\ sas \subseteq Clients
    /\ pc \in [Clients -> PCs]
    /\ serial \in [Clients -> Nat] /\ faults \in 0 .. MaxFaults /\ edits \in 0 .. env.edits

LEMMA TypesAre == TypeOK <=> StateTypes /\ RoutesTypeOK
  BY DEF TypeOK, StateTypes

LEMMA EnvIs == ASSUME env \in Envs PROVE env \in Env /\ env.edits \in Nat /\ env.legacy \subseteq Clients
  BY ProvisioningAssumption DEF Env

\* Nothing of a step over c concerns another CR.
Only(c) ==
    /\ env' = env
    /\ \A d \in Clients \ {c} :
          /\ cr'[d] = cr[d] /\ creds'[d] = creds[d] /\ w'[d] = w[d] /\ pc'[d] = pc[d]
          /\ users'[d] = users[d] /\ oss'[d] = oss[d] /\ consumers'[d] = consumers[d]
          /\ serial'[d] = serial[d]
          /\ (d \in sas' <=> d \in sas) /\ (d \in aliases' <=> d \in aliases)
          /\ Pending(d)' = Pending(d)

LEMMA Faults == ASSUME StateTypes, NEW k, Fault(k) PROVE faults' \in 0 .. MaxFaults /\ k \in env.faults
  BY ProvisioningAssumption DEF StateTypes, Fault

LEMMA NoCredsIs == /\ NoCreds \in Creds /\ ~NoCreds.saved
                   /\ NoCreds.pw = 0 /\ NoCreds.os = 0 /\ NoCreds.key = 0
  BY DEF NoCreds, Creds

LEMMA LegacyIs ==
    ASSUME NEW c \in Clients
    PROVE  /\ Legacy(c) \in Creds /\ Legacy(c).saved
           /\ Legacy(c).pw = 1 /\ Legacy(c).os = 1 /\ Legacy(c).key = 1
  BY DEF Legacy, Creds

LEMMA GeneratedIs ==
    ASSUME StateTypes, NEW c \in Clients
    PROVE  /\ Generated(c) \in Creds /\ Generated(c).saved
           /\ Generated(c).pw = serial[c] + 1 /\ Generated(c).os = serial[c] + 1
           /\ Generated(c).key = serial[c] + 1
  BY DEF StateTypes, Generated, Creds

LEMMA FoundIs ==
    ASSUME StateTypes, NEW c \in Clients
    PROVE  /\ Found(c) \in Creds
           /\ creds[c].saved => Found(c) = creds[c]
           /\ ~creds[c].saved /\ c \in env.legacy => Found(c) = Legacy(c)
           /\ ~creds[c].saved /\ c \notin env.legacy => Found(c) = NoCreds
           /\ Found(c).saved <=> creds[c].saved \/ c \in env.legacy
  BY NoCredsIs, LegacyIs DEF Found, StateTypes, Creds

\* What is found depends on the stored credentials of c alone.
LEMMA FoundSame ==
    ASSUME env' = env, NEW c \in Clients, creds'[c] = creds[c]
    PROVE  Found(c)' = Found(c)
  BY DEF Found, Legacy, NoCreds

LEMMA TokenIs ==
    ASSUME NEW cs \in Creds
    PROVE  LET in == [cs EXCEPT !.tok = TRUE]
           IN  /\ in \in Creds /\ in.saved = cs.saved
               /\ in.pw = cs.pw /\ in.os = cs.os /\ in.key = cs.key
  BY DEF Creds

LEMMA LoginIs ==
    ASSUME NEW cs \in Creds, NEW p \in Nat
    PROVE  LET in == [cs EXCEPT !.pw = p, !.tok = TRUE]
               out == [cs EXCEPT !.pw = p]
           IN  /\ in \in Creds /\ in.saved = cs.saved
               /\ in.pw = p /\ in.os = cs.os /\ in.key = cs.key
               /\ out \in Creds /\ out.saved = cs.saved
               /\ out.pw = p /\ out.os = cs.os /\ out.key = cs.key
  BY DEF Creds

LEMMA KeyIs ==
    ASSUME NEW cs \in Creds, NEW k \in Nat
    PROVE  LET in == [cs EXCEPT !.key = k]
           IN  /\ in \in Creds /\ in.saved = cs.saved
               /\ in.pw = cs.pw /\ in.os = cs.os /\ in.key = k
  BY DEF Creds

\* The queue of the admin bot: a command is added at the end, the first one
\* is executed.
LEMMA PendingSame == ASSUME botq' = botq, NEW c \in Clients PROVE Pending(c)' = Pending(c)
  BY DEF Pending

LEMMA ElementIs == ASSUME NEW S, NEW s \in Seq(S), NEW i \in 1 .. Len(s) PROVE s[i] \in S
  OBVIOUS

LEMMA CommandIs ==
    ASSUME StateTypes, NEW i \in DOMAIN botq
    PROVE  botq[i].user \in Clients /\ botq[i].pw \in Nat
  <1>1. botq \in Seq([user : Clients, pw : Nat])
    BY DEF StateTypes
  <1>2. i \in 1 .. Len(botq)
    BY <1>1
  <1>3. botq[i] \in [user : Clients, pw : Nat]
    BY <1>1, <1>2, ElementIs
  <1> QED BY <1>3

LEMMA PendingIn ==
    ASSUME StateTypes, NEW c \in Clients
    PROVE  \A p \in Pending(c) : p \in Nat
  BY CommandIs DEF Pending

LEMMA PendingAppend ==
    ASSUME StateTypes, NEW c \in Clients, NEW p \in Nat,
           botq' = Append(botq, [user |-> c, pw |-> p])
    PROVE  /\ botq' \in Seq([user : Clients, pw : Nat])
           /\ \A d \in Clients \ {c} : Pending(d)' = Pending(d)
           /\ \A q \in Pending(c)' : q = p \/ q \in Pending(c)
  <1> DEFINE e == [user |-> c, pw |-> p]
  <1>1. botq \in Seq([user : Clients, pw : Nat]) /\ e \in [user : Clients, pw : Nat]
    BY DEF StateTypes
  <1>2. /\ botq' \in Seq([user : Clients, pw : Nat])
        /\ Len(botq) \in Nat /\ DOMAIN botq = 1 .. Len(botq) /\ DOMAIN botq' = 1 .. (Len(botq) + 1)
        /\ \A i \in 1 .. Len(botq) : botq'[i] = botq[i]
        /\ botq'[Len(botq) + 1] = e
    BY <1>1
  <1>3. \A d \in Clients \ {c} : Pending(d)' = Pending(d)
    <2> TAKE d \in Clients \ {c}
    <2>1. \A i \in DOMAIN botq' : botq'[i].user = d => i \in DOMAIN botq
      BY <1>2
    <2>2. \A i \in DOMAIN botq : i \in DOMAIN botq' /\ botq'[i] = botq[i]
      BY <1>2
    <2> QED BY <2>1, <2>2 DEF Pending
  <1>4. \A q \in Pending(c)' : q = p \/ q \in Pending(c)
    BY <1>2 DEF Pending
  <1> QED BY <1>2, <1>3, <1>4

LEMMA PendingTail ==
    ASSUME StateTypes, botq # <<>>, botq' = Tail(botq)
    PROVE  /\ botq' \in Seq([user : Clients, pw : Nat])
           /\ Head(botq).user \in Clients /\ Head(botq).pw \in Nat
           /\ Head(botq).pw \in Pending(Head(botq).user)
           /\ \A c \in Clients : Pending(c)' \subseteq Pending(c)
  <1>1. botq \in Seq([user : Clients, pw : Nat])
    BY DEF StateTypes
  <1>2. /\ botq' \in Seq([user : Clients, pw : Nat])
        /\ Len(botq) \in Nat /\ Len(botq) # 0 /\ DOMAIN botq = 1 .. Len(botq)
        /\ DOMAIN botq' = 1 .. (Len(botq) - 1)
        /\ \A i \in 1 .. (Len(botq) - 1) : botq'[i] = botq[i + 1]
        /\ Head(botq) = botq[1] /\ 1 \in DOMAIN botq
    BY <1>1
  <1>3. Head(botq).user \in Clients /\ Head(botq).pw \in Nat
    BY <1>2, CommandIs
  <1>4. \A c \in Clients : Pending(c)' \subseteq Pending(c)
    <2> TAKE c \in Clients
    <2>1. \A i \in DOMAIN botq' : i + 1 \in DOMAIN botq /\ botq'[i] = botq[i + 1]
      BY <1>2
    <2> QED BY <2>1 DEF Pending
  <1>5. Head(botq).pw \in Pending(Head(botq).user)
    BY <1>2 DEF Pending
  <1> QED BY <1>2, <1>3, <1>4, <1>5

-----------------------------------------------------------------------------
(***************************************************************************)
(* What each step does to the CR it is about, and that it does nothing to  *)
(* another.                                                                *)
(***************************************************************************)
LEMMA CreateEffect ==
    ASSUME StateTypes, NEW c \in Clients, CreateCR(c)
    PROVE  /\ StateTypes' /\ Only(c) /\ ~cr[c].exists
           /\ cr'[c].exists /\ ~cr'[c].deleting /\ cr'[c].base = serial[c]
           /\ UNCHANGED <<env, store, pc, w, serial, edits, routeVars>>
  <1> DEFINE n == [exists |-> TRUE, deleting |-> FALSE, known |-> FALSE,
                   lives |-> cr[c].lives + 1, base |-> serial[c]]
  <1>1. /\ cr' = [cr EXCEPT ![c] = n] /\ held' = [held EXCEPT ![c] = NoCreds] /\ ~cr[c].exists
        /\ UNCHANGED <<env, store, pc, w, serial, faults, edits, routeVars>>
    BY DEF CreateCR, StateTypes
  <1>2. n \in CR /\ n.exists /\ ~n.deleting /\ n.base = serial[c]
    BY DEF StateTypes, CR
  <1> HIDE DEF n
  <1>3. cr' \in [Clients -> CR] /\ cr'[c] = n /\ (\A d \in Clients \ {c} : cr'[d] = cr[d])
    BY <1>1, <1>2 DEF StateTypes
  <1>4. held' \in [Clients -> Creds]
    BY <1>1, NoCredsIs DEF StateTypes
  <1>5. StateTypes'
    BY <1>1, <1>3, <1>4 DEF StateTypes, store
  <1>6. Only(c)
    BY <1>1, <1>3, PendingSame DEF Only, store
  <1> QED BY <1>1, <1>2, <1>3, <1>5, <1>6

LEMMA DeleteEffect ==
    ASSUME StateTypes, NEW c \in Clients, DeleteCR(c)
    PROVE  /\ StateTypes' /\ Only(c) /\ cr[c].exists
           /\ cr'[c].exists /\ cr'[c].deleting
           /\ UNCHANGED <<env, store, pc, w, serial, edits, routeVars>>
  <1> DEFINE n == [cr[c] EXCEPT !.deleting = TRUE]
  <1>1. /\ cr' = [cr EXCEPT ![c] = n] /\ cr[c].exists
        /\ UNCHANGED <<env, store, held, pc, w, serial, faults, edits, routeVars>>
    BY DEF DeleteCR, StateTypes
  <1>2. n \in CR /\ n.exists = cr[c].exists /\ n.deleting
    BY DEF StateTypes, CR
  <1> HIDE DEF n
  <1>3. cr' \in [Clients -> CR] /\ cr'[c] = n /\ (\A d \in Clients \ {c} : cr'[d] = cr[d])
    BY <1>1, <1>2 DEF StateTypes
  <1>5. StateTypes'
    BY <1>1, <1>3 DEF StateTypes, store
  <1>6. Only(c)
    BY <1>1, <1>3, PendingSame DEF Only, store
  <1> QED BY <1>1, <1>2, <1>3, <1>5, <1>6

LEMMA BotEffect ==
    ASSUME StateTypes, BotRuns
    PROVE  /\ StateTypes'
           /\ \A c \in Clients : /\ users'[c] = users[c] \/ users'[c] \in Pending(c)
                                 /\ Pending(c)' \subseteq Pending(c)
           /\ UNCHANGED <<env, cr, creds, aliases, oss, consumers, sas, pc, w, serial, edits,
                          routeVars>>
  <1>1. /\ botq # <<>> /\ botq' = Tail(botq)
        /\ users' = [users EXCEPT ![Head(botq).user] = Head(botq).pw]
        /\ UNCHANGED <<env, cr, creds, aliases, joined, oss, consumers, sas, held, pc, w, serial,
                       faults, edits, routeVars>>
    BY DEF BotRuns
  <1>2. /\ botq' \in Seq([user : Clients, pw : Nat])
        /\ Head(botq).user \in Clients /\ Head(botq).pw \in Nat
        /\ Head(botq).pw \in Pending(Head(botq).user)
        /\ \A c \in Clients : Pending(c)' \subseteq Pending(c)
    BY <1>1, PendingTail
  <1>3. /\ users' \in [Clients -> Nat]
        /\ \A c \in Clients : users'[c] = users[c] \/ users'[c] \in Pending(c)
    BY <1>1, <1>2 DEF StateTypes
  <1>4. StateTypes'
    BY <1>1, <1>2, <1>3 DEF StateTypes
  <1> QED BY <1>1, <1>2, <1>3, <1>4

LEMMA EditEffect ==
    ASSUME StateTypes, ConsoleEdits
    PROVE  /\ StateTypes' /\ edits' = edits + 1
           /\ UNCHANGED <<env, cr, store, pc, w, serial>>
           /\ \E r \in Routes : OtherWrites(r)
           /\ env.versioned
  <1>1. /\ edits < env.edits /\ edits' = edits + 1 /\ env.versioned
        /\ UNCHANGED <<env, cr, store, held, pc, w, serial, faults>>
        /\ \E r \in Routes : OtherWrites(r)
    BY DEF ConsoleEdits
  <1>2. env.edits \in Nat /\ edits \in 0 .. env.edits
    BY EnvIs DEF StateTypes
  <1>3. edits' \in 0 .. env'.edits
    BY <1>1, <1>2
  <1>4. StateTypes'
    BY <1>1, <1>3 DEF StateTypes, store
  <1> QED BY <1>1, <1>4

\* A restarted process is in no pass.
LEMMA RestartedIs ==
    ASSUME Restarted
    PROVE  /\ pc' \in [Clients -> PCs] /\ w' \in [Clients -> Creds]
           /\ \A c \in Clients : pc'[c] = "idle" /\ w'[c] = NoCreds
  BY NoCredsIs DEF Restarted, PCs

LEMMA CrashEffect ==
    ASSUME StateTypes, Crash
    PROVE  /\ StateTypes' /\ Restarted
           /\ UNCHANGED <<env, cr, store, serial, edits, routes>>
  <1>1. Restarted /\ Fault("crash") /\ UNCHANGED <<env, cr, store, held, serial, edits, routes>>
    BY DEF Crash
  <1>2. StateTypes'
    BY <1>1, RestartedIs, Faults DEF StateTypes, store
  <1> QED BY <1>1, <1>2

LEMMA TornEffect ==
    ASSUME StateTypes, NEW c \in Clients, TornSave(c)
    PROVE  /\ StateTypes' /\ Restarted /\ "torn" \in env.faults
           /\ cr[c].exists \/ pc[c] = "room"
           /\ \A d \in Clients \ {c} : creds'[d] = creds[d]
           /\ UNCHANGED <<env, cr, users, botq, aliases, oss, consumers, sas, serial, edits, routes>>
  <1> DEFINE n == [NoCreds EXCEPT !.saved = TRUE]
  <1>1. /\ creds' = [creds EXCEPT ![c] = n] /\ Restarted /\ Fault("torn")
        /\ cr[c].exists \/ pc[c] = "room"
        /\ UNCHANGED <<env, cr, users, botq, aliases, joined, oss, consumers, sas, held, serial,
                       edits, routes>>
    BY DEF TornSave, Starts
  <1>2. n \in Creds
    BY DEF NoCreds, Creds
  <1> HIDE DEF n
  <1>3. creds' \in [Clients -> Creds] /\ \A d \in Clients \ {c} : creds'[d] = creds[d]
    BY <1>1, <1>2 DEF StateTypes
  <1>4. StateTypes' /\ "torn" \in env.faults
    BY <1>1, <1>3, RestartedIs, Faults DEF StateTypes
  <1> QED BY <1>1, <1>3, <1>4

\* Where a pass goes on, and with what.
LEMMA MoveIs ==
    ASSUME StateTypes, NEW c \in Clients, NEW l \in PCs, Goto(c, l)
    PROVE  pc' \in [Clients -> PCs] /\ pc'[c] = l /\ \A d \in Clients \ {c} : pc'[d] = pc[d]
  BY DEF StateTypes, Goto

LEMMA HoldIs ==
    ASSUME StateTypes, NEW c \in Clients, NEW cs \in Creds, Hold(c, cs)
    PROVE  w' \in [Clients -> Creds] /\ w'[c] = cs /\ \A d \in Clients \ {c} : w'[d] = w[d]
  BY DEF StateTypes, Hold

LEMMA StopIs ==
    ASSUME StateTypes, NEW c \in Clients, Stop(c)
    PROVE  /\ pc' \in [Clients -> PCs] /\ pc'[c] = "idle" /\ \A d \in Clients \ {c} : pc'[d] = pc[d]
           /\ w' \in [Clients -> Creds] /\ w'[c] = NoCreds /\ \A d \in Clients \ {c} : w'[d] = w[d]
  BY MoveIs, HoldIs, NoCredsIs DEF Stop, PCs

LEMMA LoadEffect ==
    ASSUME StateTypes, NEW c \in Clients, LoadOrGenerate(c)
    PROVE  /\ StateTypes' /\ Only(c) /\ cr[c].exists /\ ~cr[c].deleting /\ pc[c] = "idle"
           /\ UNCHANGED <<env, cr, users, botq, aliases, oss, consumers, sas, edits, routeVars>>
           /\ \/ /\ Found(c).saved /\ serial'[c] = serial[c]
                 /\ creds'[c] = Found(c) /\ w'[c] = Found(c) /\ pc'[c] = "register"
              \/ /\ ~Found(c).saved /\ serial'[c] = serial[c] + 1
                 /\ creds'[c] = Generated(c) /\ w'[c] = Generated(c) /\ pc'[c] = "register"
              \/ UNCHANGED <<creds, pc, w, serial>>
  <1>1. /\ cr[c].exists /\ ~cr[c].deleting /\ pc[c] = "idle"
        /\ UNCHANGED <<env, cr, users, botq, aliases, joined, oss, consumers, sas, held, edits,
                       routeVars>>
    BY DEF LoadOrGenerate, Starts
  <1> DEFINE cs == IF Found(c).saved THEN Found(c) ELSE Generated(c)
             n == IF Found(c).saved THEN serial[c] ELSE serial[c] + 1
  <1>2. cs \in Creds /\ n \in Nat /\ "register" \in PCs
    BY FoundIs, GeneratedIs DEF StateTypes, PCs
  <1>3. CASE /\ creds' = [creds EXCEPT ![c] = cs] /\ Hold(c, cs)
             /\ serial' = [serial EXCEPT ![c] = n] /\ Goto(c, "register") /\ UNCHANGED faults
    <2> HIDE DEF cs, n
    <2>1. /\ pc' \in [Clients -> PCs] /\ pc'[c] = "register"
          /\ \A d \in Clients \ {c} : pc'[d] = pc[d]
      BY <1>2, <1>3, MoveIs
    <2>2. w' \in [Clients -> Creds] /\ w'[c] = cs /\ \A d \in Clients \ {c} : w'[d] = w[d]
      BY <1>2, <1>3, HoldIs
    <2>3. /\ creds' \in [Clients -> Creds] /\ creds'[c] = cs
          /\ \A d \in Clients \ {c} : creds'[d] = creds[d]
          /\ serial' \in [Clients -> Nat] /\ serial'[c] = n
          /\ \A d \in Clients \ {c} : serial'[d] = serial[d]
      BY <1>2, <1>3 DEF StateTypes
    <2>4. StateTypes'
      BY <1>1, <1>3, <2>1, <2>2, <2>3 DEF StateTypes
    <2>5. Only(c)
      BY <1>1, <2>1, <2>2, <2>3, PendingSame DEF Only
    <2>6. CASE Found(c).saved
      BY <1>1, <2>1, <2>2, <2>3, <2>4, <2>5, <2>6 DEF cs, n
    <2>7. CASE ~Found(c).saved
      BY <1>1, <2>1, <2>2, <2>3, <2>4, <2>5, <2>7 DEF cs, n
    <2> QED BY <2>6, <2>7
  <1>4. CASE Fault("save") /\ UNCHANGED <<creds, pc, w, serial>>
    <2>1. StateTypes'
      BY <1>1, <1>4, Faults DEF StateTypes
    <2>2. Only(c)
      BY <1>1, <1>4, PendingSame DEF Only
    <2> QED BY <1>1, <1>4, <2>1, <2>2
  <1> QED BY <1>3, <1>4 DEF LoadOrGenerate

LEMMA RegisterEffect ==
    ASSUME StateTypes, NEW c \in Clients, Register(c)
    PROVE  /\ StateTypes' /\ Only(c) /\ pc[c] = "register"
           /\ UNCHANGED <<env, cr, creds, aliases, oss, consumers, sas, edits, routeVars>>
           /\ w[c].pw # 0 => Password(c) = w[c].pw /\ serial'[c] = serial[c]
           /\ users'[c] = users[c] \/ users'[c] = Password(c)
           /\ \A q \in Pending(c)' : q = Password(c) \/ q \in Pending(c)
           /\ \/ pc'[c] = "idle" /\ w'[c] = NoCreds
              \/ /\ pc'[c] \in {"storage", "recover"} /\ w'[c].saved = w[c].saved
                 /\ w'[c].pw = Password(c) /\ w'[c].os = w[c].os /\ w'[c].key = w[c].key
  <1> DEFINE pw == Password(c)
             in == [w[c] EXCEPT !.pw = pw, !.tok = TRUE]
             out == [w[c] EXCEPT !.pw = pw]
  <1>1. /\ pc[c] = "register"
        /\ UNCHANGED <<env, cr, creds, aliases, joined, oss, consumers, sas, held, edits, routeVars>>
        /\ serial' = [serial EXCEPT ![c] = IF w[c].pw = 0 THEN @ + 1 ELSE @]
    BY DEF Register
  <1>2. /\ w[c] \in Creds /\ pw \in Nat /\ (w[c].pw # 0 => pw = w[c].pw)
        /\ serial' \in [Clients -> Nat] /\ (\A d \in Clients \ {c} : serial'[d] = serial[d])
        /\ (w[c].pw # 0 => serial'[c] = serial[c])
    <2>1. w[c] \in Creds /\ w[c].pw \in Nat /\ serial[c] \in Nat /\ serial \in [Clients -> Nat]
      BY DEF StateTypes, Creds
    <2>2. pw \in Nat /\ (w[c].pw # 0 => pw = w[c].pw)
      BY <2>1 DEF Password
    <2> HIDE DEF pw
    <2> QED BY <1>1, <2>1, <2>2
  <1>3. /\ in \in Creds /\ in.saved = w[c].saved
        /\ in.pw = pw /\ in.os = w[c].os /\ in.key = w[c].key
        /\ out \in Creds /\ out.saved = w[c].saved
        /\ out.pw = pw /\ out.os = w[c].os /\ out.key = w[c].key
    BY <1>2 DEF Creds
  <1>4. \/ /\ \/ Goto(c, "storage") /\ Hold(c, in) /\ UNCHANGED faults
              \/ Fault("matrix") /\ Stop(c)
           /\ users' = [users EXCEPT ![c] = pw] /\ UNCHANGED botq
        \/ /\ Goto(c, "storage") /\ Hold(c, in) /\ UNCHANGED <<users, botq, faults>>
        \/ /\ botq' = Append(botq, [user |-> c, pw |-> pw])
           /\ Goto(c, "recover") /\ Hold(c, out) /\ UNCHANGED <<users, faults>>
    BY DEF Register
  <1> HIDE DEF pw, in, out
  <1> DEFINE Moved ==
               /\ pc' \in [Clients -> PCs] /\ (\A d \in Clients \ {c} : pc'[d] = pc[d])
               /\ w' \in [Clients -> Creds] /\ (\A d \in Clients \ {c} : w'[d] = w[d])
               /\ \/ pc'[c] = "idle" /\ w'[c] = NoCreds
                  \/ /\ pc'[c] \in {"storage", "recover"} /\ w'[c].saved = w[c].saved
                     /\ w'[c].pw = pw /\ w'[c].os = w[c].os /\ w'[c].key = w[c].key
  <1>5. ASSUME NEW l \in {"storage", "recover"}, NEW cs \in {in, out}, Goto(c, l), Hold(c, cs)
        PROVE  Moved
    <2>1. l \in PCs
      BY DEF PCs
    <2>2. pc' \in [Clients -> PCs] /\ pc'[c] = l /\ \A d \in Clients \ {c} : pc'[d] = pc[d]
      BY <1>5, <2>1, MoveIs
    <2>3. w' \in [Clients -> Creds] /\ w'[c] = cs /\ \A d \in Clients \ {c} : w'[d] = w[d]
      BY <1>3, <1>5, HoldIs
    <2> QED BY <1>3, <2>2, <2>3
  <1>6. ASSUME Stop(c) PROVE Moved
    BY <1>6, StopIs
  <1>7. Moved
    BY <1>4, <1>5, <1>6
  <1>8. /\ users' \in [Clients -> Nat] /\ (\A d \in Clients \ {c} : users'[d] = users[d])
        /\ users'[c] = users[c] \/ users'[c] = pw
    BY <1>2, <1>4 DEF StateTypes
  <1>9. /\ botq' \in Seq([user : Clients, pw : Nat])
        /\ \A d \in Clients \ {c} : Pending(d)' = Pending(d)
        /\ \A q \in Pending(c)' : q = pw \/ q \in Pending(c)
    <2>1. CASE UNCHANGED botq
      BY <2>1, PendingSame DEF StateTypes
    <2>2. CASE botq' = Append(botq, [user |-> c, pw |-> pw])
      BY <1>2, <2>2, PendingAppend
    <2> QED BY <1>4, <2>1, <2>2
  <1>10. faults' \in 0 .. MaxFaults
    BY <1>4, Faults DEF StateTypes
  <1>11. StateTypes'
    BY <1>1, <1>2, <1>7, <1>8, <1>9, <1>10 DEF StateTypes
  <1>12. Only(c)
    BY <1>1, <1>2, <1>7, <1>8, <1>9 DEF Only
  <1> HIDE DEF Moved
  <1>13. UNCHANGED <<env, cr, creds, aliases, oss, consumers, sas, edits, routeVars>>
    BY <1>1
  <1> QED BY <1>1, <1>2, <1>7, <1>8, <1>9, <1>11, <1>12, <1>13 DEF Moved, pw

\* A step that goes on with the credentials the pass has, or ends it.
Going(c) ==
    \/ pc'[c] = "idle" /\ w'[c] = NoCreds
    \/ /\ w'[c].saved = w[c].saved
       /\ w'[c].pw = w[c].pw /\ w'[c].os = w[c].os /\ w'[c].key = w[c].key

LEMMA RecoverEffect ==
    ASSUME StateTypes, NEW c \in Clients, Recover(c)
    PROVE  /\ StateTypes' /\ Only(c) /\ Going(c)
           /\ pc[c] = "recover" /\ pc'[c] \in {"idle", "storage"}
           /\ UNCHANGED <<env, cr, store, serial, edits, routeVars>>
  <1> DEFINE in == [w[c] EXCEPT !.tok = TRUE]
  <1>1. /\ pc[c] = "recover" /\ UNCHANGED <<env, cr, store, held, serial, edits, routeVars>>
        /\ \/ Goto(c, "storage") /\ Hold(c, in) /\ UNCHANGED faults
           \/ Fault("slow") /\ Stop(c)
    BY DEF Recover
  <1>2. /\ in \in Creds /\ in.saved = w[c].saved
        /\ in.pw = w[c].pw /\ in.os = w[c].os /\ in.key = w[c].key
    BY DEF StateTypes, Creds
  <1> HIDE DEF in
  <1>3. /\ pc' \in [Clients -> PCs] /\ (\A d \in Clients \ {c} : pc'[d] = pc[d])
        /\ w' \in [Clients -> Creds] /\ (\A d \in Clients \ {c} : w'[d] = w[d])
        /\ Going(c) /\ pc'[c] \in {"idle", "storage"}
    <2>1. CASE Goto(c, "storage") /\ Hold(c, in)
      <3>1. "storage" \in PCs
        BY DEF PCs
      <3> QED BY <1>2, <2>1, <3>1, MoveIs, HoldIs DEF Going
    <2>2. CASE Stop(c)
      BY <2>2, StopIs DEF Going
    <2> QED BY <1>1, <2>1, <2>2
  <1>4. faults' \in 0 .. MaxFaults
    BY <1>1, Faults DEF StateTypes
  <1>5. StateTypes'
    BY <1>1, <1>3, <1>4 DEF StateTypes, store
  <1>6. Only(c)
    BY <1>1, <1>3, PendingSame DEF Only, store
  <1> QED BY <1>1, <1>3, <1>5, <1>6

LEMMA StorageEffect ==
    ASSUME StateTypes, NEW c \in Clients, Storage(c)
    PROVE  /\ StateTypes' /\ Only(c) /\ Going(c)
           /\ pc[c] = "storage" /\ pc'[c] \in {"idle", "room"}
           /\ oss'[c] = oss[c] \/ oss'[c] = w[c].os
           /\ UNCHANGED <<env, cr, creds, users, botq, aliases, consumers, sas, serial, edits,
                          routeVars>>
  <1>1. /\ pc[c] = "storage"
        /\ UNCHANGED <<env, cr, creds, users, botq, aliases, joined, consumers, sas, held, serial,
                       edits, routeVars>>
        /\ \/ Goto(c, "room") /\ UNCHANGED <<w, faults>>
           \/ Stop(c) /\ (UNCHANGED faults \/ Fault("oss"))
        /\ oss' = oss \/ oss' = [oss EXCEPT ![c] = w[c].os]
    BY DEF Storage
  <1>2. /\ pc' \in [Clients -> PCs] /\ (\A d \in Clients \ {c} : pc'[d] = pc[d])
        /\ w' \in [Clients -> Creds] /\ (\A d \in Clients \ {c} : w'[d] = w[d])
        /\ Going(c) /\ pc'[c] \in {"idle", "room"}
    <2>1. CASE Goto(c, "room") /\ UNCHANGED w
      <3>1. "room" \in PCs
        BY DEF PCs
      <3> QED BY <2>1, <3>1, MoveIs DEF Going, StateTypes
    <2>2. CASE Stop(c)
      BY <2>2, StopIs DEF Going
    <2> QED BY <1>1, <2>1, <2>2
  <1>3. /\ oss' \in [Clients -> Nat] /\ (\A d \in Clients \ {c} : oss'[d] = oss[d])
        /\ oss'[c] = oss[c] \/ oss'[c] = w[c].os
    <2>1. w[c].os \in Nat
      BY DEF StateTypes, Creds
    <2> QED BY <1>1, <2>1 DEF StateTypes
  <1>4. faults' \in 0 .. MaxFaults
    BY <1>1, Faults DEF StateTypes
  <1>5. StateTypes'
    BY <1>1, <1>2, <1>3, <1>4 DEF StateTypes
  <1>6. Only(c)
    BY <1>1, <1>2, <1>3, PendingSame DEF Only
  <1> QED BY <1>1, <1>2, <1>3, <1>5, <1>6

LEMMA RoomEffect ==
    ASSUME StateTypes, NEW c \in Clients, Room(c)
    PROVE  /\ StateTypes' /\ Only(c) /\ Going(c)
           /\ pc[c] = "room" /\ pc'[c] \in {"idle", "consumer"}
           /\ creds'[c] = creds[c] \/ creds'[c] = w[c]
           /\ UNCHANGED <<env, cr, users, botq, oss, consumers, sas, serial, edits, routeVars>>
  <1>1. /\ pc[c] = "room"
        /\ UNCHANGED <<env, cr, users, botq, oss, consumers, sas, held, serial, edits, routeVars>>
        /\ \/ Goto(c, "consumer") /\ UNCHANGED w
           \/ Stop(c)
        /\ creds' = creds \/ creds' = [creds EXCEPT ![c] = w[c]]
        /\ aliases' = aliases \/ aliases' = aliases \cup {c}
        /\ joined' = joined \/ joined' = joined \cup {c}
        /\ UNCHANGED faults \/ (\E k \in FaultKinds : Fault(k))
    BY DEF Room, FaultKinds
  <1>2. /\ pc' \in [Clients -> PCs] /\ (\A d \in Clients \ {c} : pc'[d] = pc[d])
        /\ w' \in [Clients -> Creds] /\ (\A d \in Clients \ {c} : w'[d] = w[d])
        /\ Going(c) /\ pc'[c] \in {"idle", "consumer"}
    <2>1. CASE Goto(c, "consumer") /\ UNCHANGED w
      <3>1. "consumer" \in PCs
        BY DEF PCs
      <3> QED BY <2>1, <3>1, MoveIs DEF Going, StateTypes
    <2>2. CASE Stop(c)
      BY <2>2, StopIs DEF Going
    <2> QED BY <1>1, <2>1, <2>2
  <1>3. /\ creds' \in [Clients -> Creds] /\ (\A d \in Clients \ {c} : creds'[d] = creds[d])
        /\ creds'[c] = creds[c] \/ creds'[c] = w[c]
    BY <1>1 DEF StateTypes
  <1>4. faults' \in 0 .. MaxFaults
    BY <1>1, Faults DEF StateTypes
  <1>5. StateTypes'
    BY <1>1, <1>2, <1>3, <1>4 DEF StateTypes
  <1>6. Only(c)
    BY <1>1, <1>2, <1>3, PendingSame DEF Only
  <1> QED BY <1>1, <1>2, <1>3, <1>5, <1>6

\* The key a consumer gets is the given one, or a new one of the cloud's.
LEMMA ConsumerEffect ==
    ASSUME StateTypes, NEW c \in Clients,
           \/ /\ consumers' = [consumers EXCEPT ![c] = ConsumerKey(c)]
              /\ serial' = [serial EXCEPT ![c] = IF env.cloud /\ consumers[c] = 0 THEN @ + 1 ELSE @]
           \/ UNCHANGED <<consumers, serial>>
    PROVE  /\ consumers' \in [Clients -> Nat]
           /\ \A d \in Clients \ {c} : consumers'[d] = consumers[d] /\ serial'[d] = serial[d]
           /\ \/ consumers'[c] \in {consumers[c], w[c].key}
              \/ env.cloud /\ consumers'[c] = serial'[c]
           /\ serial' \in [Clients -> Nat] /\ serial'[c] >= serial[c]
  <1>1. /\ serial[c] \in Nat /\ consumers[c] \in Nat /\ w[c].key \in Nat
        /\ serial \in [Clients -> Nat] /\ consumers \in [Clients -> Nat]
    BY DEF StateTypes, Creds
  <1>2. CASE UNCHANGED <<consumers, serial>>
    BY <1>1, <1>2
  <1>3. CASE /\ consumers' = [consumers EXCEPT ![c] = ConsumerKey(c)]
             /\ serial' = [serial EXCEPT ![c] = IF env.cloud /\ consumers[c] = 0 THEN @ + 1 ELSE @]
    <2>1. CASE env.cloud /\ consumers[c] = 0
      <3>1. ConsumerKey(c) = serial[c] + 1
        BY <2>1 DEF ConsumerKey
      <3> QED BY <1>1, <1>3, <2>1, <3>1
    <2>2. CASE ~(env.cloud /\ consumers[c] = 0)
      <3>1. ConsumerKey(c) \in {consumers[c], w[c].key}
        BY <2>2 DEF ConsumerKey
      <3> QED BY <1>1, <1>3, <2>2, <3>1
    <2> QED BY <2>1, <2>2
  <1> QED BY <1>2, <1>3

LEMMA EnsureEffect ==
    ASSUME StateTypes, NEW c \in Clients, Ensure(c)
    PROVE  /\ StateTypes' /\ Only(c) /\ Going(c)
           /\ pc[c] = "ensure" /\ pc'[c] \in {"idle", "authorize"}
           /\ \/ consumers'[c] \in {consumers[c], w[c].key}
              \/ env.cloud /\ consumers'[c] = serial'[c]
           /\ serial'[c] >= serial[c]
           /\ UNCHANGED <<env, cr, creds, users, botq, aliases, oss, sas, edits, routeVars>>
  <1>1. /\ pc[c] = "ensure"
        /\ UNCHANGED <<env, cr, creds, users, botq, aliases, joined, oss, sas, held, edits, routeVars>>
        /\ \/ /\ consumers' = [consumers EXCEPT ![c] = ConsumerKey(c)]
              /\ serial' = [serial EXCEPT ![c] = IF env.cloud /\ consumers[c] = 0 THEN @ + 1 ELSE @]
              /\ Goto(c, "authorize") /\ UNCHANGED <<w, faults>>
           \/ Fault("gateway") /\ Stop(c) /\ UNCHANGED <<consumers, creds, serial>>
    BY DEF Ensure
  <1>2. /\ pc' \in [Clients -> PCs] /\ (\A d \in Clients \ {c} : pc'[d] = pc[d])
        /\ w' \in [Clients -> Creds] /\ (\A d \in Clients \ {c} : w'[d] = w[d])
        /\ Going(c) /\ pc'[c] \in {"idle", "authorize"}
    <2>1. CASE Goto(c, "authorize") /\ UNCHANGED w
      <3>1. "authorize" \in PCs
        BY DEF PCs
      <3> QED BY <2>1, <3>1, MoveIs DEF Going, StateTypes
    <2>2. CASE Stop(c)
      BY <2>2, StopIs DEF Going
    <2> QED BY <1>1, <2>1, <2>2
  <1>3. /\ consumers' \in [Clients -> Nat] /\ (\A d \in Clients \ {c} : consumers'[d] = consumers[d])
        /\ \/ consumers'[c] \in {consumers[c], w[c].key}
           \/ env.cloud /\ consumers'[c] = serial'[c]
        /\ serial' \in [Clients -> Nat] /\ (\A d \in Clients \ {c} : serial'[d] = serial[d])
        /\ serial'[c] >= serial[c]
    BY <1>1, ConsumerEffect
  <1>4. faults' \in 0 .. MaxFaults
    BY <1>1, Faults DEF StateTypes
  <1>5. StateTypes'
    BY <1>1, <1>2, <1>3, <1>4 DEF StateTypes
  <1>6. Only(c)
    BY <1>1, <1>2, <1>3, PendingSame DEF Only
  <1> QED BY <1>1, <1>2, <1>3, <1>5, <1>6

LEMMA KeyEffect ==
    ASSUME StateTypes, NEW c \in Clients, Consumer(c)
    PROVE  /\ StateTypes' /\ Only(c)
           /\ pc[c] = "consumer" /\ pc'[c] \in {"idle", "authorize"}
           /\ \/ pc'[c] = "idle" /\ w'[c] = NoCreds /\ creds'[c] = creds[c]
              \/ /\ w'[c].saved = w[c].saved /\ w'[c].pw = w[c].pw /\ w'[c].os = w[c].os
                 /\ w'[c].key = w[c].key \/ (env.cloud /\ w'[c].key = consumers'[c])
                 /\ creds'[c] = creds[c] \/ creds'[c] = w'[c]
           /\ \/ consumers'[c] \in {consumers[c], w[c].key}
              \/ env.cloud /\ consumers'[c] = serial'[c]
           /\ serial'[c] >= serial[c]
           /\ UNCHANGED <<env, cr, users, botq, aliases, oss, sas, edits, routeVars>>
  <1> DEFINE ws == [w[c] EXCEPT !.key = Answer(c)]
  <1>1. /\ pc[c] = "consumer"
        /\ UNCHANGED <<env, cr, users, botq, aliases, joined, oss, sas, held, edits, routeVars>>
        /\ \/ /\ consumers' = [consumers EXCEPT ![c] = ConsumerKey(c)]
              /\ serial' = [serial EXCEPT ![c] = IF env.cloud /\ consumers[c] = 0 THEN @ + 1 ELSE @]
              /\ \/ Hold(c, ws) /\ (creds' = creds \/ creds' = [creds EXCEPT ![c] = ws])
                 \/ UNCHANGED <<w, creds>>
              /\ Goto(c, "authorize")
           \/ Stop(c) /\ UNCHANGED <<consumers, creds, serial>>
        /\ UNCHANGED faults \/ (\E k \in FaultKinds : Fault(k))
    BY DEF Consumer, FaultKinds
  <1>2. /\ Answer(c) \in Nat
        /\ ~env.cloud => Answer(c) = w[c].key
        /\ env.cloud => Answer(c) = ConsumerKey(c)
    BY DEF Answer, ConsumerKey, StateTypes, Creds
  <1>3. /\ ws \in Creds /\ ws.saved = w[c].saved
        /\ ws.pw = w[c].pw /\ ws.os = w[c].os /\ ws.key = Answer(c)
    BY <1>2 DEF StateTypes, Creds
  <1> HIDE DEF ws
  <1>4. /\ consumers' \in [Clients -> Nat]
        /\ \A d \in Clients \ {c} : consumers'[d] = consumers[d] /\ serial'[d] = serial[d]
        /\ \/ consumers'[c] \in {consumers[c], w[c].key}
           \/ env.cloud /\ consumers'[c] = serial'[c]
        /\ serial' \in [Clients -> Nat] /\ serial'[c] >= serial[c]
    BY <1>1, ConsumerEffect
  <1> DEFINE Moved ==
        /\ pc' \in [Clients -> PCs] /\ (\A d \in Clients \ {c} : pc'[d] = pc[d])
        /\ w' \in [Clients -> Creds] /\ (\A d \in Clients \ {c} : w'[d] = w[d])
        /\ creds' \in [Clients -> Creds] /\ (\A d \in Clients \ {c} : creds'[d] = creds[d])
        /\ pc'[c] \in {"idle", "authorize"}
        /\ \/ pc'[c] = "idle" /\ w'[c] = NoCreds /\ creds'[c] = creds[c]
           \/ /\ w'[c].saved = w[c].saved /\ w'[c].pw = w[c].pw /\ w'[c].os = w[c].os
              /\ w'[c].key = w[c].key \/ (env.cloud /\ w'[c].key = consumers'[c])
              /\ creds'[c] = creds[c] \/ creds'[c] = w'[c]
  <1>5. ASSUME consumers' = [consumers EXCEPT ![c] = ConsumerKey(c)], Goto(c, "authorize"),
               Hold(c, ws), creds' = creds \/ creds' = [creds EXCEPT ![c] = ws]
        PROVE  Moved
    <2>1. /\ pc' \in [Clients -> PCs] /\ pc'[c] = "authorize"
          /\ \A d \in Clients \ {c} : pc'[d] = pc[d]
      BY <1>5, MoveIs DEF PCs
    <2>2. w' \in [Clients -> Creds] /\ w'[c] = ws /\ \A d \in Clients \ {c} : w'[d] = w[d]
      BY <1>3, <1>5, HoldIs
    <2>3. /\ creds' \in [Clients -> Creds] /\ (\A d \in Clients \ {c} : creds'[d] = creds[d])
          /\ creds'[c] = creds[c] \/ creds'[c] = ws
      BY <1>3, <1>5 DEF StateTypes
    <2>4. consumers'[c] = ConsumerKey(c)
      BY <1>5 DEF StateTypes
    <2> QED BY <1>2, <1>3, <2>1, <2>2, <2>3, <2>4
  <1>6. ASSUME Goto(c, "authorize"), UNCHANGED <<w, creds>> PROVE Moved
    <2>1. /\ pc' \in [Clients -> PCs] /\ pc'[c] = "authorize"
          /\ \A d \in Clients \ {c} : pc'[d] = pc[d]
      BY <1>6, MoveIs DEF PCs
    <2> QED BY <1>6, <2>1 DEF StateTypes
  <1>7. ASSUME Stop(c), UNCHANGED creds PROVE Moved
    BY <1>7, StopIs DEF StateTypes
  <1>8. Moved
    BY <1>1, <1>5, <1>6, <1>7
  <1>9. faults' \in 0 .. MaxFaults
    BY <1>1, Faults DEF StateTypes
  <1>10. StateTypes'
    BY <1>1, <1>4, <1>8, <1>9 DEF StateTypes
  <1>11. Only(c)
    BY <1>1, <1>4, <1>8, PendingSame DEF Only
  <1> QED BY <1>1, <1>4, <1>8, <1>10, <1>11

\* The steps that have to do with the routes leave the rest alone.
LEMMA AuthorizeEffect ==
    ASSUME StateTypes, NEW c \in Clients, Authorize(c)
    PROVE  /\ StateTypes' /\ Only(c) /\ Going(c)
           /\ pc[c] = "authorize" /\ pc'[c] \in {"idle", "routes", "finish"}
           /\ UNCHANGED <<env, cr, store, serial, edits>>
  <1>1. /\ pc[c] = "authorize" /\ UNCHANGED <<env, cr, store, held, serial, edits>>
        /\ \/ (Goto(c, "routes") \/ Goto(c, "finish")) /\ UNCHANGED <<w, faults>>
           \/ Stop(c) /\ Fault("gateway")
    BY DEF Authorize
  <1>2. /\ pc' \in [Clients -> PCs] /\ (\A d \in Clients \ {c} : pc'[d] = pc[d])
        /\ w' \in [Clients -> Creds] /\ (\A d \in Clients \ {c} : w'[d] = w[d])
        /\ Going(c) /\ pc'[c] \in {"idle", "routes", "finish"}
    <2>1. ASSUME NEW l \in {"routes", "finish"}, Goto(c, l), UNCHANGED w
          PROVE  /\ pc' \in [Clients -> PCs] /\ (\A d \in Clients \ {c} : pc'[d] = pc[d])
                 /\ w' \in [Clients -> Creds] /\ pc'[c] = l
      <3>1. l \in PCs
        BY DEF PCs
      <3> QED BY <2>1, <3>1, MoveIs DEF StateTypes
    <2>2. CASE Stop(c)
      BY <2>2, StopIs DEF Going
    <2> QED BY <1>1, <2>1, <2>2 DEF Going
  <1>3. faults' \in 0 .. MaxFaults
    BY <1>1, Faults DEF StateTypes
  <1>4. StateTypes'
    BY <1>1, <1>2, <1>3 DEF StateTypes, store
  <1>5. Only(c)
    BY <1>1, <1>2, PendingSame DEF Only, store
  <1> QED BY <1>1, <1>2, <1>4, <1>5

LEMMA RouteEffect ==
    ASSUME StateTypes, NEW c \in Clients, RouteStep(c)
    PROVE  /\ StateTypes' /\ Only(c)
           /\ pc[c] \in {"routes", "unroute"}
           /\ UNCHANGED <<env, cr, store, pc, w, serial, edits>>
           /\ \/ GetRoute(c) \/ PutRoute(c, env.versioned)
              \/ RouteFails(c, env.versioned) /\ "gateway" \in env.faults
  <1>1. /\ pc[c] \in {"routes", "unroute"} /\ UNCHANGED <<env, cr, store, held, pc, w, serial, edits>>
        /\ \/ (GetRoute(c) \/ PutRoute(c, env.versioned)) /\ UNCHANGED faults
           \/ RouteFails(c, env.versioned) /\ Fault("gateway")
    BY DEF RouteStep
  <1>2. faults' \in 0 .. MaxFaults
    BY <1>1, Faults DEF StateTypes
  <1>3. StateTypes'
    BY <1>1, <1>2 DEF StateTypes, store
  <1>4. Only(c)
    BY <1>1, PendingSame DEF Only, store
  <1> QED BY <1>1, <1>3, <1>4, Faults

LEMMA DoneEffect ==
    ASSUME StateTypes, NEW c \in Clients, RoutesDone(c)
    PROVE  /\ StateTypes' /\ Only(c) /\ Going(c) /\ Leave(c)
           /\ \/ pc[c] = "routes" /\ pc'[c] \in {"idle", "finish"}
              \/ pc[c] = "unroute" /\ pc'[c] = "cleanup"
           /\ UNCHANGED <<env, cr, store, serial, edits>>
  <1>1. /\ pc[c] \in {"routes", "unroute"} /\ Leave(c)
        /\ UNCHANGED <<env, cr, store, held, serial, faults, edits>>
        /\ \/ pc[c] = "routes" /\ Stop(c)
           \/ pc[c] = "routes" /\ Goto(c, "finish") /\ UNCHANGED w
           \/ pc[c] = "unroute" /\ Goto(c, "cleanup") /\ UNCHANGED w
    BY DEF RoutesDone
  <1>2. /\ pc' \in [Clients -> PCs] /\ (\A d \in Clients \ {c} : pc'[d] = pc[d])
        /\ w' \in [Clients -> Creds] /\ (\A d \in Clients \ {c} : w'[d] = w[d])
        /\ Going(c)
        /\ \/ pc[c] = "routes" /\ pc'[c] \in {"idle", "finish"}
           \/ pc[c] = "unroute" /\ pc'[c] = "cleanup"
    <2>1. CASE pc[c] = "routes" /\ Goto(c, "finish") /\ UNCHANGED w
      <3>1. "finish" \in PCs
        BY DEF PCs
      <3> QED BY <2>1, <3>1, MoveIs DEF StateTypes, Going
    <2>2. CASE pc[c] = "unroute" /\ Goto(c, "cleanup") /\ UNCHANGED w
      <3>1. "cleanup" \in PCs
        BY DEF PCs
      <3> QED BY <2>2, <3>1, MoveIs DEF StateTypes, Going
    <2>3. CASE pc[c] = "routes" /\ Stop(c)
      BY <2>3, StopIs DEF Going
    <2> QED BY <1>1, <2>1, <2>2, <2>3
  <1>3. StateTypes'
    BY <1>1, <1>2 DEF StateTypes, store
  <1>4. Only(c)
    BY <1>1, <1>2, PendingSame DEF Only, store
  <1> QED BY <1>1, <1>2, <1>3, <1>4

LEMMA FinishEffect ==
    ASSUME StateTypes, NEW c \in Clients, Finish(c)
    PROVE  /\ StateTypes' /\ Only(c)
           /\ pc[c] = "finish" /\ pc'[c] = "idle" /\ w'[c] = NoCreds
           /\ cr'[c].exists = cr[c].exists /\ cr'[c].deleting = cr[c].deleting
           /\ cr'[c].base = cr[c].base
           /\ UNCHANGED <<env, creds, users, botq, aliases, oss, consumers, serial, edits, routeVars>>
  <1> DEFINE n == [cr[c] EXCEPT !.known = TRUE]
  <1>1. /\ pc[c] = "finish" /\ Stop(c)
        /\ UNCHANGED <<env, creds, users, botq, aliases, joined, oss, consumers, serial, edits,
                       routeVars>>
        /\ sas' = sas \/ sas' = sas \cup {c}
        /\ held' = held \/ held' = [held EXCEPT ![c] = w[c]]
        /\ cr' = cr \/ cr' = [cr EXCEPT ![c] = n]
        /\ UNCHANGED faults \/ Fault("api")
    BY DEF Finish, StateTypes
  <1>2. /\ n \in CR /\ n.exists = cr[c].exists /\ n.deleting = cr[c].deleting
        /\ n.base = cr[c].base
    BY DEF StateTypes, CR
  <1> HIDE DEF n
  <1>3. /\ cr' \in [Clients -> CR] /\ (\A d \in Clients \ {c} : cr'[d] = cr[d])
        /\ cr'[c].exists = cr[c].exists /\ cr'[c].deleting = cr[c].deleting
        /\ cr'[c].base = cr[c].base
    BY <1>1, <1>2 DEF StateTypes
  <1>4. faults' \in 0 .. MaxFaults /\ held' \in [Clients -> Creds]
    BY <1>1, Faults DEF StateTypes
  <1>5. StateTypes'
    BY <1>1, <1>3, <1>4, StopIs DEF StateTypes
  <1>6. Only(c)
    BY <1>1, <1>3, StopIs, PendingSame DEF Only
  <1> QED BY <1>1, <1>3, <1>5, <1>6, StopIs

LEMMA RefreshEffect ==
    ASSUME StateTypes, NEW c \in Clients, Refresh(c)
    PROVE  /\ StateTypes' /\ Only(c)
           /\ pc[c] = "idle" /\ cr[c].exists /\ ~cr[c].deleting /\ Found(c).saved
           /\ \/ UNCHANGED <<pc, w, creds>>
              \/ /\ pc'[c] \in {"ensure", "authorize", "finish"}
                 /\ creds'[c] = w'[c] /\ w'[c].saved
                 /\ w'[c].pw = Found(c).pw /\ w'[c].os = Found(c).os /\ w'[c].key = Found(c).key
           /\ UNCHANGED <<env, cr, users, botq, aliases, oss, consumers, sas, serial, edits,
                          routeVars>>
  <1> DEFINE n == [Found(c) EXCEPT !.tok = TRUE]
             l == IF c \in Managers THEN "ensure"
                  ELSE IF Provider[c] # {} THEN "authorize" ELSE "finish"
  <1>1. /\ pc[c] = "idle" /\ cr[c].exists /\ ~cr[c].deleting /\ Found(c).saved
        /\ UNCHANGED <<env, cr, users, botq, aliases, joined, oss, consumers, sas, held, serial,
                       edits, routeVars>>
        /\ \/ /\ Hold(c, n) /\ creds' = [creds EXCEPT ![c] = n] /\ Goto(c, l) /\ UNCHANGED faults
           \/ Fault("save") /\ UNCHANGED <<pc, w, creds>>
    BY DEF Refresh, Starts
  <1>2. /\ n \in Creds /\ n.saved = Found(c).saved
        /\ n.pw = Found(c).pw /\ n.os = Found(c).os /\ n.key = Found(c).key
    BY FoundIs DEF Creds
  <1>3. l \in PCs /\ l \in {"ensure", "authorize", "finish"}
    BY DEF PCs
  <1> HIDE DEF n, l
  <1>4. CASE Hold(c, n) /\ creds' = [creds EXCEPT ![c] = n] /\ Goto(c, l) /\ UNCHANGED faults
    <2>1. pc' \in [Clients -> PCs] /\ pc'[c] = l /\ \A d \in Clients \ {c} : pc'[d] = pc[d]
      BY <1>3, <1>4, MoveIs
    <2>2. w' \in [Clients -> Creds] /\ w'[c] = n /\ \A d \in Clients \ {c} : w'[d] = w[d]
      BY <1>2, <1>4, HoldIs
    <2>3. /\ creds' \in [Clients -> Creds] /\ creds'[c] = n
          /\ \A d \in Clients \ {c} : creds'[d] = creds[d]
      BY <1>2, <1>4 DEF StateTypes
    <2>4. StateTypes'
      BY <1>1, <1>4, <2>1, <2>2, <2>3 DEF StateTypes
    <2>5. Only(c)
      BY <1>1, <2>1, <2>2, <2>3, PendingSame DEF Only
    <2> QED BY <1>1, <1>2, <1>3, <2>1, <2>2, <2>3, <2>4, <2>5
  <1>5. CASE Fault("save") /\ UNCHANGED <<pc, w, creds>>
    <2>1. StateTypes'
      BY <1>1, <1>5, Faults DEF StateTypes
    <2>2. Only(c)
      BY <1>1, <1>5, PendingSame DEF Only
    <2> QED BY <1>1, <1>5, <2>1, <2>2
  <1> QED BY <1>1, <1>4, <1>5

LEMMA LeaveRoomsEffect ==
    ASSUME StateTypes, NEW c \in Clients, LeaveRooms(c)
    PROVE  /\ StateTypes' /\ Only(c)
           /\ pc[c] = "idle" /\ cr[c].exists /\ cr[c].deleting /\ pc'[c] = "deauthorize"
           /\ UNCHANGED <<env, cr, creds, users, botq, aliases, oss, consumers, sas, w, serial,
                          edits, routeVars>>
  <1>1. /\ pc[c] = "idle" /\ cr[c].exists /\ cr[c].deleting /\ Goto(c, "deauthorize")
        /\ UNCHANGED <<env, cr, creds, users, botq, aliases, oss, consumers, sas, held, w, serial,
                       edits, routeVars>>
        /\ joined' = joined \ {c} \/ joined' = joined
        /\ UNCHANGED faults \/ Fault("cleanup")
    BY DEF LeaveRooms
  <1>2. /\ pc' \in [Clients -> PCs] /\ pc'[c] = "deauthorize"
        /\ \A d \in Clients \ {c} : pc'[d] = pc[d]
    BY <1>1, MoveIs DEF PCs
  <1>3. faults' \in 0 .. MaxFaults
    BY <1>1, Faults DEF StateTypes
  <1>4. StateTypes'
    BY <1>1, <1>2, <1>3 DEF StateTypes
  <1>5. Only(c)
    BY <1>1, <1>2, PendingSame DEF Only
  <1> QED BY <1>1, <1>2, <1>4, <1>5

LEMMA DeauthorizeEffect ==
    ASSUME StateTypes, NEW c \in Clients, Deauthorize(c)
    PROVE  /\ StateTypes' /\ Only(c) /\ pc[c] = "deauthorize"
           /\ \/ ~env.cloud /\ Enter(c, FALSE) /\ pc'[c] = "unroute"
              \/ /\ env.cloud /\ routes' = [routes EXCEPT ![DefaultAPI] = @ \ {c}]
                 /\ UNCHANGED calls /\ pc'[c] = "cleanup"
              \/ "cleanup" \in env.faults /\ pc'[c] = "cleanup" /\ UNCHANGED routeVars
           /\ UNCHANGED <<env, cr, store, w, serial, edits>>
  <1>1. /\ pc[c] = "deauthorize" /\ UNCHANGED <<env, cr, store, held, w, serial, edits>>
        /\ \/ ~env.cloud /\ Enter(c, FALSE) /\ Goto(c, "unroute") /\ UNCHANGED faults
           \/ /\ env.cloud /\ routes' = [routes EXCEPT ![DefaultAPI] = @ \ {c}]
              /\ Goto(c, "cleanup") /\ UNCHANGED <<calls, faults>>
           \/ Fault("cleanup") /\ Goto(c, "cleanup") /\ UNCHANGED routeVars
    BY DEF Deauthorize
  <1>2. ASSUME NEW l \in {"unroute", "cleanup"}, Goto(c, l)
        PROVE  /\ pc' \in [Clients -> PCs] /\ pc'[c] = l
               /\ \A d \in Clients \ {c} : pc'[d] = pc[d]
    <2>1. l \in PCs
      BY DEF PCs
    <2> QED BY <1>2, <2>1, MoveIs
  <1>3. pc' \in [Clients -> PCs] /\ \A d \in Clients \ {c} : pc'[d] = pc[d]
    BY <1>1, <1>2
  <1>4. faults' \in 0 .. MaxFaults
    BY <1>1, Faults DEF StateTypes
  <1>5. StateTypes'
    BY <1>1, <1>3, <1>4 DEF StateTypes, store
  <1>6. Only(c)
    BY <1>1, <1>3, PendingSame DEF Only, store
  <1>7. CASE ~env.cloud /\ Enter(c, FALSE) /\ Goto(c, "unroute")
    BY <1>1, <1>2, <1>5, <1>6, <1>7
  <1>8. CASE /\ env.cloud /\ routes' = [routes EXCEPT ![DefaultAPI] = @ \ {c}]
             /\ Goto(c, "cleanup") /\ UNCHANGED calls
    BY <1>1, <1>2, <1>5, <1>6, <1>8
  <1>9. CASE Fault("cleanup") /\ Goto(c, "cleanup") /\ UNCHANGED routeVars
    BY <1>1, <1>2, <1>5, <1>6, <1>9, Faults
  <1> QED BY <1>1, <1>7, <1>8, <1>9

LEMMA CleanupEffect ==
    ASSUME StateTypes, NEW c \in Clients, Cleanup(c)
    PROVE  /\ StateTypes' /\ Only(c) /\ pc[c] = "cleanup" /\ pc'[c] = "finalize"
           /\ consumers'[c] \in {consumers[c], 0} /\ oss'[c] \in {oss[c], 0}
           /\ creds'[c] \in {creds[c], NoCreds}
           /\ "cleanup" \notin env.faults => Cleaned(c)'
           /\ UNCHANGED <<env, cr, users, botq, w, serial, edits, routeVars>>
  <1>1. PICK failed \in SUBSET {"consumer", "oss", "creds", "sa", "alias"} :
          /\ IF failed = {} THEN UNCHANGED faults ELSE Fault("cleanup")
          /\ consumers' = IF "consumer" \in failed THEN consumers ELSE [consumers EXCEPT ![c] = 0]
          /\ oss' = IF "oss" \in failed THEN oss ELSE [oss EXCEPT ![c] = 0]
          /\ creds' = IF "creds" \in failed THEN creds ELSE [creds EXCEPT ![c] = NoCreds]
          /\ sas' = IF "sa" \in failed THEN sas ELSE sas \ {c}
          /\ aliases' = IF "alias" \in failed THEN aliases ELSE aliases \ {c}
    BY DEF Cleanup
  <1>2. /\ pc[c] = "cleanup" /\ Goto(c, "finalize")
        /\ UNCHANGED <<env, cr, users, botq, joined, held, w, serial, edits, routeVars>>
    BY DEF Cleanup
  <1>3. /\ pc' \in [Clients -> PCs] /\ pc'[c] = "finalize"
        /\ \A d \in Clients \ {c} : pc'[d] = pc[d]
    BY <1>2, MoveIs DEF PCs
  <1>4. /\ consumers' \in [Clients -> Nat] /\ consumers'[c] \in {consumers[c], 0}
        /\ \A d \in Clients \ {c} : consumers'[d] = consumers[d]
    BY <1>1 DEF StateTypes
  <1>5. /\ oss' \in [Clients -> Nat] /\ oss'[c] \in {oss[c], 0}
        /\ \A d \in Clients \ {c} : oss'[d] = oss[d]
    BY <1>1 DEF StateTypes
  <1>6. /\ creds' \in [Clients -> Creds] /\ creds'[c] \in {creds[c], NoCreds}
        /\ \A d \in Clients \ {c} : creds'[d] = creds[d]
    BY <1>1, NoCredsIs DEF StateTypes
  <1>7. /\ sas' \subseteq Clients /\ aliases' \subseteq Clients
        /\ \A d \in Clients \ {c} : (d \in sas' <=> d \in sas) /\ (d \in aliases' <=> d \in aliases)
    BY <1>1 DEF StateTypes
  <1>8. faults' \in 0 .. MaxFaults
    BY <1>1, Faults DEF StateTypes
  <1>9. StateTypes'
    BY <1>2, <1>3, <1>4, <1>5, <1>6, <1>7, <1>8 DEF StateTypes
  <1>10. Only(c)
    BY <1>2, <1>3, <1>4, <1>5, <1>6, <1>7, PendingSame DEF Only
  <1>11. ASSUME "cleanup" \notin env.faults PROVE Cleaned(c)'
    <2>1. failed = {}
      BY <1>1, <1>11, Faults
    <2> QED BY <1>1, <2>1 DEF StateTypes, Cleaned, NoCreds
  <1> QED BY <1>2, <1>3, <1>4, <1>5, <1>6, <1>9, <1>10, <1>11

LEMMA FinalizeEffect ==
    ASSUME StateTypes, NEW c \in Clients, Finalize(c)
    PROVE  /\ StateTypes' /\ Only(c) /\ pc[c] = "finalize" /\ pc'[c] = "idle"
           /\ cr' = cr \/ ~cr'[c].exists
           /\ UNCHANGED <<env, store, w, serial, edits, routeVars>>
  <1> DEFINE n == [cr[c] EXCEPT !.exists = FALSE, !.known = FALSE]
  <1>1. /\ pc[c] = "finalize" /\ Goto(c, "idle")
        /\ UNCHANGED <<env, store, held, w, serial, edits, routeVars>>
        /\ cr' = cr \/ cr' = [cr EXCEPT ![c] = n]
        /\ UNCHANGED faults \/ Fault("api")
    BY DEF Finalize, StateTypes
  <1>2. n \in CR /\ ~n.exists
    BY DEF StateTypes, CR
  <1> HIDE DEF n
  <1>3. /\ cr' \in [Clients -> CR] /\ (\A d \in Clients \ {c} : cr'[d] = cr[d])
        /\ cr' = cr \/ ~cr'[c].exists
    BY <1>1, <1>2 DEF StateTypes
  <1>4. pc' \in [Clients -> PCs] /\ pc'[c] = "idle" /\ \A d \in Clients \ {c} : pc'[d] = pc[d]
    BY <1>1, MoveIs DEF PCs
  <1>5. faults' \in 0 .. MaxFaults
    BY <1>1, Faults DEF StateTypes
  <1>6. StateTypes'
    BY <1>1, <1>3, <1>4, <1>5 DEF StateTypes, store
  <1>7. Only(c)
    BY <1>1, <1>3, <1>4, PendingSame DEF Only, store
  <1> QED BY <1>1, <1>3, <1>4, <1>6, <1>7

-----------------------------------------------------------------------------
(***************************************************************************)
(* The secrets.                                                            *)
(***************************************************************************)
LEMMA NumbersAre ==
    ASSUME StateTypes, NEW c \in Clients
    PROVE  /\ users[c] \in Nat /\ oss[c] \in Nat /\ consumers[c] \in Nat /\ serial[c] \in Nat
           /\ creds[c].pw \in Nat /\ creds[c].os \in Nat /\ creds[c].key \in Nat
           /\ w[c].pw \in Nat /\ w[c].os \in Nat /\ w[c].key \in Nat /\ cr[c].base \in Nat
           /\ \A p \in Pending(c) : p \in Nat
           /\ creds[c].saved \in BOOLEAN /\ w[c].saved \in BOOLEAN
           /\ cr[c].exists \in BOOLEAN /\ cr[c].deleting \in BOOLEAN
  BY PendingIn DEF StateTypes, Creds, CR

\* A step that leaves the secrets where they are.
LEMMA SecretsStay ==
    ASSUME NEW c \in Clients, StateTypes, Secure(c), env' = env,
           creds'[c] = creds[c], users'[c] = users[c], oss'[c] = oss[c],
           consumers'[c] = consumers[c], serial'[c] = serial[c],
           \A p \in Pending(c)' : p \in Pending(c),
           w'[c] = w[c] \/ Going(c), pc'[c] \in Setup => pc[c] \in Setup,
           cr'[c].exists /\ ~cr'[c].deleting =>
              cr[c].exists /\ ~cr[c].deleting /\ cr'[c].base = cr[c].base
    PROVE  Secure(c)'
  <1>1. Found(c)' = Found(c)
    BY FoundSame
  <1>2. Made(c)'
    BY NumbersAre, NoCredsIs DEF Secure, Made, Going
  <1>3. Working(c)'
    <2>1. "idle" \notin Setup
      BY DEF Setup
    <2> QED BY <2>1 DEF Secure, Working, Going
  <1>4. Kept(c)'
    BY <1>1 DEF Secure, Kept
  <1> QED BY <1>2, <1>3, <1>4 DEF Secure

\* The bot sets passwords that were asked for.
LEMMA BotKeeps ==
    ASSUME NEW c \in Clients, StateTypes, Secure(c), BotRuns
    PROVE  Secure(c)'
  <1>1. /\ users'[c] = users[c] \/ users'[c] \in Pending(c)
        /\ \A p \in Pending(c)' : p \in Pending(c)
        /\ UNCHANGED <<env, cr, creds, oss, consumers, pc, w, serial>>
    BY BotEffect
  <1>2. Found(c)' = Found(c)
    BY <1>1, FoundSame
  <1>3. Made(c)'
    BY <1>1 DEF Secure, Made
  <1>4. Working(c)'
    BY <1>1 DEF Secure, Working
  <1>5. Kept(c)'
    BY <1>1, <1>2 DEF Secure, Kept
  <1> QED BY <1>1, <1>3, <1>4, <1>5 DEF Secure

\* The secrets of earlier lives are old ones for a new CR.
LEMMA CreateKeeps ==
    ASSUME NEW c \in Clients, StateTypes, Secure(c), CreateCR(c)
    PROVE  Secure(c)'
  <1>1. /\ cr'[c].base = serial[c]
        /\ UNCHANGED <<env, store, pc, w, serial>> /\ Pending(c)' = Pending(c)
    BY CreateEffect, PendingSame DEF store
  <1>2. Found(c)' = Found(c)
    BY <1>1, FoundSame DEF store
  <1>3. Made(c)' /\ Working(c)'
    BY <1>1 DEF Secure, Made, Working, store
  <1>4. Kept(c)'
    BY <1>1, <1>2, NumbersAre DEF Secure, Made, Kept, store
  <1> QED BY <1>1, <1>3, <1>4 DEF Secure, store

\* New secrets are newer than everything in use, and stored at once; what a
\* service has from this life of the CR was found, and is now stored.
LEMMA LoadKeeps ==
    ASSUME NEW c \in Clients, StateTypes, Secure(c), LoadOrGenerate(c)
    PROVE  Secure(c)'
  <1>1. /\ StateTypes' /\ cr[c].exists /\ ~cr[c].deleting
        /\ UNCHANGED <<env, cr, users, botq, oss, consumers>>
        /\ Pending(c)' = Pending(c)
        /\ \/ /\ Found(c).saved /\ serial'[c] = serial[c]
              /\ creds'[c] = Found(c) /\ w'[c] = Found(c) /\ pc'[c] = "register"
           \/ /\ ~Found(c).saved /\ serial'[c] = serial[c] + 1
              /\ creds'[c] = Generated(c) /\ w'[c] = Generated(c) /\ pc'[c] = "register"
           \/ UNCHANGED <<creds, pc, w, serial>>
    BY LoadEffect, PendingSame
  <1> DEFINE f == Found(c)
  <1>2. /\ f \in Creds /\ (creds[c].saved => f = creds[c])
        /\ (~creds[c].saved /\ c \in env.legacy => f.saved /\ f.pw = 1 /\ f.os = 1 /\ f.key = 1)
        /\ (~creds[c].saved /\ c \notin env.legacy => ~f.saved /\ f.pw = 0 /\ f.os = 0 /\ f.key = 0)
    BY FoundIs, LegacyIs, NoCredsIs
  <1>3. f.pw <= serial[c] /\ f.os <= serial[c] /\ f.key <= serial[c]
    BY <1>2, NumbersAre DEF Secure, Made
  <1>4. CASE f.saved /\ serial'[c] = serial[c] /\ creds'[c] = f /\ w'[c] = f
    <2>1. Found(c)' = f
      BY <1>4 DEF Found
    <2> HIDE DEF f
    <2>2. f.pw # 0
      BY <1>2, <1>4 DEF Secure
    <2>3. Made(c)'
      BY <1>1, <1>3, <1>4, NumbersAre DEF Secure, Made
    <2>4. Working(c)'
      BY <1>4 DEF Working
    <2>5. Kept(c)'
      BY <1>1, <2>1 DEF Secure, Kept, f
    <2> QED BY <1>4, <2>2, <2>3, <2>4, <2>5 DEF Secure
  <1>5. CASE ~f.saved /\ serial'[c] = serial[c] + 1 /\ creds'[c] = Generated(c) /\ w'[c] = Generated(c)
    <2> DEFINE g == Generated(c)
    <2>1. g.saved /\ g.pw = serial[c] + 1 /\ g.os = serial[c] + 1 /\ g.key = serial[c] + 1
      BY GeneratedIs
    <2>2. ~creds[c].saved /\ c \notin env.legacy /\ f.pw = 0 /\ f.os = 0 /\ f.key = 0
      BY <1>2, <1>5
    <2> HIDE DEF g
    <2>3. Made(c)'
      BY <1>1, <1>5, <2>1, NumbersAre DEF Secure, Made, g
    <2>4. Working(c)'
      BY <1>5, <2>1 DEF Working, g
    <2>5. /\ users[c] <= cr[c].base /\ oss[c] <= cr[c].base
          /\ (~env.cloud => consumers[c] <= cr[c].base)
          /\ \A p \in Pending(c) : p <= cr[c].base
      BY <1>1, <2>2, NumbersAre DEF Secure, Kept
    <2>6. Kept(c)'
      BY <1>1, <2>5, NumbersAre DEF Kept
    <2> QED BY <1>5, <2>1, <2>3, <2>4, <2>6, NumbersAre DEF Secure, g
  <1>6. CASE UNCHANGED <<creds, pc, w, serial>>
    BY <1>1, <1>6, SecretsStay
  <1> QED BY <1>1, <1>4, <1>5, <1>6

\* An account gets the stored password, now or from the bot.
LEMMA RegisterKeeps ==
    ASSUME NEW c \in Clients, StateTypes, Secure(c), Register(c)
    PROVE  Secure(c)'
  <1>1. pc[c] = "register"
    BY RegisterEffect
  <1>2. /\ creds[c].saved /\ w[c].saved /\ w[c].pw # 0
        /\ w[c].pw = creds[c].pw /\ w[c].os = creds[c].os
        /\ env.cloud \/ w[c].key = creds[c].key
    BY <1>1 DEF Secure, Working, Setup
  <1>3. /\ UNCHANGED <<env, cr, creds, oss, consumers>> /\ serial'[c] = serial[c]
        /\ users'[c] = users[c] \/ users'[c] = w[c].pw
        /\ \A q \in Pending(c)' : q = w[c].pw \/ q \in Pending(c)
        /\ \/ pc'[c] = "idle" /\ w'[c] = NoCreds
           \/ /\ w'[c].saved = w[c].saved
              /\ w'[c].pw = w[c].pw /\ w'[c].os = w[c].os /\ w'[c].key = w[c].key
    BY <1>2, RegisterEffect
  <1>4. Found(c)' = Found(c) /\ Found(c) = creds[c]
    BY <1>2, <1>3, FoundSame, FoundIs
  <1>5. Made(c)'
    BY <1>3, NumbersAre, NoCredsIs DEF Secure, Made
  <1>6. Working(c)'
    BY <1>2, <1>3 DEF Working, Setup
  <1>7. Kept(c)'
    BY <1>2, <1>3, <1>4 DEF Secure, Kept
  <1> QED BY <1>3, <1>5, <1>6, <1>7 DEF Secure

\* The MinIO user gets the stored password.
LEMMA StorageKeeps ==
    ASSUME NEW c \in Clients, StateTypes, Secure(c), Storage(c)
    PROVE  Secure(c)'
  <1>1. /\ pc[c] = "storage" /\ Going(c)
        /\ oss'[c] = oss[c] \/ oss'[c] = w[c].os
        /\ UNCHANGED <<env, cr, creds, users, botq, consumers, serial>>
        /\ Pending(c)' = Pending(c)
    BY StorageEffect, PendingSame
  <1>2. /\ creds[c].saved /\ w[c].saved
        /\ w[c].pw = creds[c].pw /\ w[c].os = creds[c].os
        /\ env.cloud \/ w[c].key = creds[c].key
    BY <1>1 DEF Secure, Working, Setup
  <1>3. Found(c)' = Found(c) /\ Found(c) = creds[c]
    BY <1>1, <1>2, FoundSame, FoundIs
  <1>4. Made(c)'
    BY <1>1, NumbersAre, NoCredsIs DEF Secure, Made, Going
  <1>5. Working(c)'
    BY <1>1, <1>2 DEF Working, Setup, Going
  <1>6. Kept(c)'
    BY <1>1, <1>2, <1>3 DEF Secure, Kept
  <1> QED BY <1>1, <1>4, <1>5, <1>6 DEF Secure

\* Saving the credentials again, for the token, saves the same secrets.
LEMMA RoomKeeps ==
    ASSUME NEW c \in Clients, StateTypes, Secure(c), Room(c)
    PROVE  Secure(c)'
  <1>1. /\ pc[c] = "room" /\ Going(c)
        /\ creds'[c] = creds[c] \/ creds'[c] = w[c]
        /\ UNCHANGED <<env, cr, users, botq, oss, consumers, serial>>
        /\ Pending(c)' = Pending(c)
    BY RoomEffect, PendingSame
  <1>2. /\ creds[c].saved /\ w[c].saved
        /\ w[c].pw = creds[c].pw /\ w[c].os = creds[c].os
        /\ env.cloud \/ w[c].key = creds[c].key
    BY <1>1 DEF Secure, Working, Setup
  <1>3. /\ creds'[c].saved /\ creds'[c].pw = creds[c].pw /\ creds'[c].os = creds[c].os
        /\ env.cloud \/ creds'[c].key = creds[c].key
        /\ creds'[c].key \in {creds[c].key, w[c].key}
    BY <1>1, <1>2
  <1>4. Found(c)' = creds'[c] /\ Found(c) = creds[c]
    BY <1>2, <1>3 DEF Found
  <1>5. Made(c)'
    BY <1>1, <1>3, NumbersAre, NoCredsIs DEF Secure, Made, Going
  <1>6. Working(c)'
    BY <1>1, <1>2, <1>3 DEF Working, Setup, Going
  <1>7. Kept(c)'
    BY <1>1, <1>3, <1>4 DEF Secure, Kept
  <1> QED BY <1>2, <1>3, <1>5, <1>6, <1>7 DEF Secure

\* Higress keeps the key it has or takes the stored one; the key the cloud
\* makes is a new one.
LEMMA KeyKeeps ==
    ASSUME NEW c \in Clients, StateTypes, Secure(c), Consumer(c)
    PROVE  Secure(c)'
  <1>1. /\ pc[c] = "consumer" /\ StateTypes'
        /\ \/ pc'[c] = "idle" /\ w'[c] = NoCreds /\ creds'[c] = creds[c]
           \/ /\ w'[c].saved = w[c].saved /\ w'[c].pw = w[c].pw /\ w'[c].os = w[c].os
              /\ w'[c].key = w[c].key \/ (env.cloud /\ w'[c].key = consumers'[c])
              /\ creds'[c] = creds[c] \/ creds'[c] = w'[c]
        /\ \/ consumers'[c] \in {consumers[c], w[c].key}
           \/ env.cloud /\ consumers'[c] = serial'[c]
        /\ serial'[c] >= serial[c]
        /\ UNCHANGED <<env, cr, users, botq, oss>>
        /\ Pending(c)' = Pending(c)
    BY KeyEffect, PendingSame
  <1>2. /\ creds[c].saved /\ w[c].saved
        /\ w[c].pw = creds[c].pw /\ w[c].os = creds[c].os
        /\ env.cloud \/ w[c].key = creds[c].key
    BY <1>1 DEF Secure, Working, Setup
  <1>3. /\ creds'[c].saved /\ creds'[c].pw = creds[c].pw /\ creds'[c].os = creds[c].os
        /\ env.cloud \/ creds'[c].key = creds[c].key
        /\ creds'[c].key \in {creds[c].key, w'[c].key}
    BY <1>1, <1>2
  <1>4. Found(c)' = creds'[c] /\ Found(c) = creds[c]
    BY <1>2, <1>3 DEF Found
  <1>5. Made(c)'
    <2>1. /\ consumers'[c] <= serial'[c]
          /\ w[c].key <= serial'[c] /\ users[c] <= serial'[c] /\ oss[c] <= serial'[c]
          /\ creds[c].pw <= serial'[c] /\ creds[c].os <= serial'[c] /\ creds[c].key <= serial'[c]
          /\ w[c].pw <= serial'[c] /\ w[c].os <= serial'[c]
          /\ \A p \in Pending(c) : p <= serial'[c]
          /\ c \in env.legacy => serial'[c] >= 1
      <3>1. serial'[c] \in Nat
        BY <1>1, NumbersAre DEF StateTypes
      <3> QED BY <1>1, <3>1, NumbersAre DEF Secure, Made
    <2>2. w'[c].pw <= serial'[c] /\ w'[c].os <= serial'[c] /\ w'[c].key <= serial'[c]
      <3>1. serial'[c] \in Nat
        BY <1>1 DEF StateTypes
      <3> QED BY <1>1, <2>1, <3>1, NoCredsIs
    <2>3. creds'[c].key <= serial'[c]
      BY <1>3, <2>1, <2>2
    <2> QED BY <1>1, <1>3, <2>1, <2>2, <2>3 DEF Made
  <1>6. Working(c)'
    BY <1>1, <1>2, <1>3 DEF Working, Setup
  <1>7. Kept(c)'
    BY <1>1, <1>2, <1>3, <1>4 DEF Secure, Kept
  <1> QED BY <1>2, <1>3, <1>5, <1>6, <1>7 DEF Secure

LEMMA EnsureKeeps ==
    ASSUME NEW c \in Clients, StateTypes, Secure(c), Ensure(c)
    PROVE  Secure(c)'
  <1>1. /\ pc[c] = "ensure" /\ StateTypes' /\ Going(c)
        /\ \/ consumers'[c] \in {consumers[c], w[c].key}
           \/ env.cloud /\ consumers'[c] = serial'[c]
        /\ serial'[c] >= serial[c]
        /\ UNCHANGED <<env, cr, creds, users, botq, oss>>
        /\ Pending(c)' = Pending(c)
    BY EnsureEffect, PendingSame
  <1>2. /\ creds[c].saved /\ w[c].saved
        /\ w[c].pw = creds[c].pw /\ w[c].os = creds[c].os
        /\ env.cloud \/ w[c].key = creds[c].key
    BY <1>1 DEF Secure, Working, Setup
  <1>3. Found(c)' = Found(c) /\ Found(c) = creds[c]
    BY <1>1, <1>2, FoundSame, FoundIs
  <1>4. Made(c)'
    <2>1. serial'[c] \in Nat
      BY <1>1 DEF StateTypes
    <2>2. /\ consumers'[c] <= serial'[c]
          /\ w[c].key <= serial'[c] /\ users[c] <= serial'[c] /\ oss[c] <= serial'[c]
          /\ creds[c].pw <= serial'[c] /\ creds[c].os <= serial'[c] /\ creds[c].key <= serial'[c]
          /\ w[c].pw <= serial'[c] /\ w[c].os <= serial'[c]
          /\ \A p \in Pending(c) : p <= serial'[c]
          /\ c \in env.legacy => serial'[c] >= 1
      BY <1>1, <2>1, NumbersAre DEF Secure, Made
    <2>3. w'[c].pw <= serial'[c] /\ w'[c].os <= serial'[c] /\ w'[c].key <= serial'[c]
      BY <1>1, <2>1, <2>2, NoCredsIs DEF Going
    <2> QED BY <1>1, <2>2, <2>3 DEF Made
  <1>5. Working(c)'
    BY <1>1, <1>2 DEF Working, Setup, Going
  <1>6. Kept(c)'
    BY <1>1, <1>2, <1>3 DEF Secure, Kept
  <1> QED BY <1>1, <1>4, <1>5, <1>6 DEF Secure

\* A refreshed token is stored with the secrets that were found.
LEMMA RefreshKeeps ==
    ASSUME NEW c \in Clients, StateTypes, Secure(c), Refresh(c)
    PROVE  Secure(c)'
  <1>1. /\ cr[c].exists /\ ~cr[c].deleting /\ Found(c).saved
        /\ \/ UNCHANGED <<pc, w, creds>>
           \/ /\ creds'[c] = w'[c] /\ w'[c].saved
              /\ w'[c].pw = Found(c).pw /\ w'[c].os = Found(c).os /\ w'[c].key = Found(c).key
        /\ UNCHANGED <<env, cr, users, botq, oss, consumers, serial>>
        /\ Pending(c)' = Pending(c)
    BY RefreshEffect, PendingSame
  <1>2. CASE UNCHANGED <<pc, w, creds>>
    BY <1>1, <1>2, SecretsStay
  <1>3. CASE /\ creds'[c] = w'[c] /\ w'[c].saved
             /\ w'[c].pw = Found(c).pw /\ w'[c].os = Found(c).os /\ w'[c].key = Found(c).key
    <2> DEFINE f == Found(c)
    <2>1. /\ f \in Creds /\ (creds[c].saved => f = creds[c])
          /\ (~creds[c].saved => c \in env.legacy /\ f.pw = 1 /\ f.os = 1 /\ f.key = 1)
      BY <1>1, FoundIs, LegacyIs
    <2>2. /\ f.pw <= serial[c] /\ f.os <= serial[c] /\ f.key <= serial[c] /\ f.pw # 0
      BY <2>1, NumbersAre DEF Secure, Made
    <2>3. Found(c)' = w'[c]
      BY <1>3 DEF Found
    <2> HIDE DEF f
    <2>4. Made(c)'
      BY <1>1, <1>3, <2>2 DEF Secure, Made, f
    <2>5. Working(c)'
      BY <1>3 DEF Working
    <2>6. Kept(c)'
      BY <1>1, <1>3, <2>3 DEF Secure, Kept
    <2> QED BY <1>3, <2>2, <2>4, <2>5, <2>6 DEF Secure, f
  <1> QED BY <1>1, <1>2, <1>3

\* A teardown takes away what a CR that is going has.
LEMMA CleanupKeeps ==
    ASSUME NEW c \in Clients, StateTypes, Phased(c), Secure(c), Cleanup(c)
    PROVE  Secure(c)'
  <1>1. /\ pc[c] = "cleanup" /\ pc'[c] = "finalize"
        /\ consumers'[c] \in {consumers[c], 0} /\ oss'[c] \in {oss[c], 0}
        /\ creds'[c] \in {creds[c], NoCreds}
        /\ UNCHANGED <<env, cr, users, botq, w, serial>>
        /\ Pending(c)' = Pending(c)
    BY CleanupEffect, PendingSame
  <1>2. cr[c].deleting
    BY <1>1 DEF Phased, Teardown
  <1>3. Made(c)'
    BY <1>1, NumbersAre, NoCredsIs DEF Secure, Made
  <1>4. Working(c)'
    BY <1>1 DEF Working, Setup
  <1>5. Kept(c)'
    BY <1>1, <1>2 DEF Kept
  <1>6. creds'[c].saved => creds'[c].pw # 0
    BY <1>1, NoCredsIs DEF Secure
  <1> QED BY <1>3, <1>4, <1>5, <1>6 DEF Secure

-----------------------------------------------------------------------------
(***************************************************************************)
(* Types, phases and secrets over a whole step.                            *)
(***************************************************************************)
\* The steps over one CR.
Over(c) == CreateCR(c) \/ DeleteCR(c) \/ Pass(c)

LEMMA StepIs ==
    [Next]_vars => \/ UNCHANGED vars \/ BotRuns \/ ConsoleEdits \/ Crash
                   \/ \E c \in Clients : TornSave(c)
                   \/ \E c \in Clients : Over(c)
  BY DEF Next, Over

LEMMA OverIs ==
    ASSUME StateTypes, NEW c \in Clients, Over(c)
    PROVE  StateTypes' /\ Only(c)
  BY CreateEffect, DeleteEffect, LoadEffect, RegisterEffect, RecoverEffect, StorageEffect,
     RoomEffect, KeyEffect, EnsureEffect, AuthorizeEffect, RouteEffect, DoneEffect, FinishEffect,
     RefreshEffect, LeaveRoomsEffect, DeauthorizeEffect, CleanupEffect, FinalizeEffect
     DEF Over, Pass

LEMMA OverPhased ==
    ASSUME StateTypes, NEW c \in Clients, Phased(c), Over(c)
    PROVE  Phased(c)'
  <1>1. CASE CreateCR(c)
    <2>1. /\ ~cr[c].exists /\ cr'[c].exists /\ pc' = pc
      BY <1>1, CreateEffect
    <2>2. pc[c] = "idle"
      BY <2>1 DEF Phased
    <2> QED BY <2>1, <2>2 DEF Phased, Teardown
  <1>2. CASE DeleteCR(c)
    BY <1>2, DeleteEffect DEF Phased
  <1>3. CASE LoadOrGenerate(c) \/ Refresh(c)
    <2>1. /\ cr[c].exists /\ cr' = cr
          /\ pc'[c] \in {"register", "ensure", "authorize", "finish"} \/ pc'[c] = pc[c]
      BY <1>3, LoadEffect, RefreshEffect
    <2> QED BY <2>1 DEF Phased, Teardown
  <1>4. CASE \/ Register(c) \/ Recover(c) \/ Storage(c) \/ Room(c) \/ Consumer(c) \/ Ensure(c)
             \/ Authorize(c) \/ RouteStep(c)
    <2>1. /\ pc[c] # "idle" /\ cr' = cr
          /\ \/ pc'[c] \in {"idle", "storage", "recover", "room", "consumer", "authorize", "routes",
                            "finish"}
             \/ pc'[c] = pc[c]
      BY <1>4, RegisterEffect, RecoverEffect, StorageEffect, RoomEffect, KeyEffect, EnsureEffect,
         AuthorizeEffect, RouteEffect
    <2> QED BY <2>1 DEF Phased, Teardown
  <1>5. CASE RoutesDone(c)
    <2>1. /\ cr' = cr /\ pc[c] # "idle"
          /\ pc'[c] \in {"idle", "finish"} \/ (pc[c] = "unroute" /\ pc'[c] = "cleanup")
      BY <1>5, DoneEffect
    <2> QED BY <2>1 DEF Phased, Teardown
  <1>6. CASE Finish(c)
    BY <1>6, FinishEffect DEF Phased, Teardown
  <1>7. CASE LeaveRooms(c)
    BY <1>7, LeaveRoomsEffect DEF Phased
  <1>8. CASE Deauthorize(c) \/ Cleanup(c)
    <2>1. /\ cr' = cr /\ pc[c] \in {"deauthorize", "cleanup"}
      BY <1>8, DeauthorizeEffect, CleanupEffect
    <2> QED BY <2>1 DEF Phased, Teardown
  <1>9. CASE Finalize(c)
    BY <1>9, FinalizeEffect DEF Phased, Teardown
  <1> QED BY <1>1, <1>2, <1>3, <1>4, <1>5, <1>6, <1>7, <1>8, <1>9 DEF Over, Pass

LEMMA OverSecure ==
    ASSUME StateTypes, NEW c \in Clients, Phased(c), Secure(c), Over(c)
    PROVE  Secure(c)'
  <1>1. CASE DeleteCR(c)
    <2>1. /\ cr'[c].deleting /\ UNCHANGED <<env, store, pc, w, serial>>
      BY <1>1, DeleteEffect
    <2> QED BY <2>1, SecretsStay, PendingSame DEF store
  <1>2. CASE Recover(c) \/ Authorize(c) \/ RouteStep(c) \/ RoutesDone(c)
    <2>1. /\ UNCHANGED <<env, cr, store, serial>> /\ (w'[c] = w[c] \/ Going(c))
          /\ pc'[c] \in Setup => pc[c] \in Setup
      <3>1. CASE Recover(c)
        BY <3>1, RecoverEffect DEF Setup
      <3>2. CASE Authorize(c)
        BY <3>2, AuthorizeEffect DEF Setup
      <3>3. CASE RouteStep(c)
        BY <3>3, RouteEffect
      <3>4. CASE RoutesDone(c)
        BY <3>4, DoneEffect DEF Setup
      <3> QED BY <1>2, <3>1, <3>2, <3>3, <3>4
    <2> QED BY <2>1, SecretsStay, PendingSame DEF store
  <1>3. CASE Finish(c)
    <2>1. /\ pc'[c] = "idle" /\ w'[c] = NoCreds
          /\ cr'[c].exists = cr[c].exists /\ cr'[c].deleting = cr[c].deleting
          /\ cr'[c].base = cr[c].base
          /\ UNCHANGED <<env, creds, users, botq, oss, consumers, serial>>
      BY <1>3, FinishEffect
    <2> QED BY <2>1, SecretsStay, PendingSame DEF Going, Setup
  <1>4. CASE LeaveRooms(c) \/ Deauthorize(c)
    <2>1. /\ UNCHANGED <<env, cr, store, w, serial>>
             \/ UNCHANGED <<env, cr, creds, users, botq, oss, consumers, w, serial>>
          /\ pc'[c] \in {"deauthorize", "unroute", "cleanup"}
      BY <1>4, LeaveRoomsEffect, DeauthorizeEffect
    <2> QED BY <2>1, SecretsStay, PendingSame DEF Setup, store
  <1>5. CASE Finalize(c)
    <2>1. /\ pc'[c] = "idle" /\ (cr' = cr \/ ~cr'[c].exists)
          /\ UNCHANGED <<env, store, w, serial>>
      BY <1>5, FinalizeEffect
    <2> QED BY <2>1, SecretsStay, PendingSame DEF Setup, store
  <1>6. CASE \/ CreateCR(c) \/ LoadOrGenerate(c) \/ Register(c) \/ Storage(c) \/ Room(c)
             \/ Consumer(c) \/ Ensure(c) \/ Refresh(c) \/ Cleanup(c)
    BY <1>6, CreateKeeps, LoadKeeps, RegisterKeeps, StorageKeeps, RoomKeeps, KeyKeeps, EnsureKeeps,
       RefreshKeeps, CleanupKeeps
  <1> QED BY <1>1, <1>2, <1>3, <1>4, <1>5, <1>6 DEF Over, Pass

\* The other CRs.
LEMMA OthersStay ==
    ASSUME StateTypes, NEW c \in Clients, Only(c), NEW d \in Clients, d # c
    PROVE  (Phased(d) => Phased(d)') /\ (Secure(d) => Secure(d)')
  <1>1. /\ env' = env
        /\ cr'[d] = cr[d] /\ creds'[d] = creds[d] /\ w'[d] = w[d] /\ pc'[d] = pc[d]
        /\ users'[d] = users[d] /\ oss'[d] = oss[d] /\ consumers'[d] = consumers[d]
        /\ serial'[d] = serial[d] /\ Pending(d)' = Pending(d)
    BY DEF Only
  <1>2. Phased(d) => Phased(d)'
    BY <1>1 DEF Phased
  <1>3. Secure(d) => Secure(d)'
    BY <1>1, SecretsStay
  <1> QED BY <1>2, <1>3

\* A restarted process starts with passes that work with what is stored.
LEMMA RestartSecure ==
    ASSUME StateTypes, NEW c \in Clients, Secure(c), Restarted,
           UNCHANGED <<env, cr, store, serial>>
    PROVE  Secure(c)'
  <1>1. pc'[c] = "idle" /\ w'[c] = NoCreds
    BY RestartedIs
  <1> QED BY <1>1, SecretsStay, PendingSame DEF Going, Setup, store

LEMMA StillSecure ==
    ASSUME StateTypes, NEW c \in Clients, Secure(c), UNCHANGED <<env, cr, store, pc, w, serial>>
    PROVE  Secure(c)'
  BY SecretsStay, PendingSame DEF store

LEMMA StateStep ==
    ASSUME StateTypes, PhaseInv, SecretInv, [Next]_vars
    PROVE  StateTypes' /\ PhaseInv' /\ SecretInv' /\ env' = env
  <1>1. CASE UNCHANGED vars
    <2>1. /\ UNCHANGED <<env, cr, store, held, pc, w, serial, faults, edits>>
      BY <1>1 DEF vars, store
    <2>2. StateTypes'
      BY <2>1 DEF StateTypes, store
    <2>3. PhaseInv'
      BY <2>1 DEF PhaseInv, Phased
    <2> QED BY <2>1, <2>2, <2>3, StillSecure DEF SecretInv
  <1>2. CASE BotRuns
    <2>1. StateTypes' /\ UNCHANGED <<env, cr, pc>>
      BY <1>2, BotEffect
    <2>2. PhaseInv'
      BY <2>1 DEF PhaseInv, Phased
    <2> QED BY <1>2, <2>1, <2>2, BotKeeps DEF SecretInv
  <1>3. CASE ConsoleEdits
    <2>1. StateTypes' /\ UNCHANGED <<env, cr, store, pc, w, serial>>
      BY <1>3, EditEffect
    <2>2. PhaseInv'
      BY <2>1 DEF PhaseInv, Phased
    <2> QED BY <2>1, <2>2, StillSecure DEF SecretInv
  <1>4. CASE Crash
    <2>1. StateTypes' /\ Restarted /\ UNCHANGED <<env, cr, store, serial>>
      BY <1>4, CrashEffect
    <2>2. PhaseInv'
      BY <2>1, RestartedIs DEF PhaseInv, Phased, Teardown
    <2> QED BY <2>1, <2>2, RestartSecure DEF SecretInv
  <1>5. ASSUME NEW c \in Clients, TornSave(c)
        PROVE  StateTypes' /\ PhaseInv' /\ SecretInv' /\ env' = env
    <2>1. StateTypes' /\ Restarted /\ "torn" \in env.faults /\ UNCHANGED <<env, cr>>
      BY <1>5, TornEffect
    <2>2. PhaseInv'
      BY <2>1, RestartedIs DEF PhaseInv, Phased, Teardown
    <2> QED BY <2>1, <2>2 DEF SecretInv
  <1>6. ASSUME NEW c \in Clients, Over(c)
        PROVE  StateTypes' /\ PhaseInv' /\ SecretInv' /\ env' = env
    <2>1. StateTypes' /\ Only(c) /\ env' = env
      BY <1>6, OverIs DEF Only
    <2>2. PhaseInv'
      BY <1>6, <2>1, OverPhased, OthersStay DEF PhaseInv
    <2>3. ASSUME "torn" \notin env.faults, NEW d \in Clients PROVE Secure(d)'
      BY <1>6, <2>1, <2>3, OverSecure, OthersStay DEF PhaseInv, SecretInv
    <2> QED BY <2>1, <2>2, <2>3 DEF SecretInv
  <1> QED BY <1>1, <1>2, <1>3, <1>4, <1>5, <1>6, StepIs

-----------------------------------------------------------------------------
(***************************************************************************)
(* What is left.                                                           *)
(***************************************************************************)
\* The step looks for c on the next route, or has read one that it is on.
LEMMA GetRemoves ==
    ASSUME StateTypes, RouteInv, NEW c \in Clients, Removing(c), GetRoute(c), edits' = edits
    PROVE  Removing(c)'
  <1>1. calls[c] \in Call /\ calls \in [Clients -> Call] /\ edits \in Nat /\ ~calls[c].add
    BY EnvIs DEF StateTypes, RouteInv, RoutesTypeOK, Removing
  <1>2. PICK r \in Routes :
           IF Added(c, r) \/ c \in routes[r]
           THEN calls' = [calls EXCEPT ![c].at = "put", ![c].cur = r,
                                       ![c].seen = routes[r], ![c].fresh = TRUE]
           ELSE calls' = [calls EXCEPT ![c].todo = @ \ {r}, ![c].cur = NoRoute,
                                       ![c].tries = 0]
    BY DEF GetRoute
  <1>3. routes' = routes /\ calls[c].at = "get" /\ ~Added(c, r)
    BY <1>1 DEF GetRoute, Added
  <1>4. CASE c \in routes[r]
    <2> DEFINE in == [calls[c] EXCEPT !.at = "put", !.cur = r, !.seen = routes[r], !.fresh = TRUE]
    <2>1. calls'[c] = in
      BY <1>1, <1>2, <1>4
    <2>2. in.at = "put" /\ in.add = calls[c].add /\ in.todo = calls[c].todo
          /\ in.tries = calls[c].tries /\ in.fresh
      BY <1>1 DEF Call
    <2> HIDE DEF in
    <2> QED BY <1>1, <1>3, <2>1, <2>2 DEF Removing
  <1>5. CASE c \notin routes[r]
    <2> DEFINE in == [calls[c] EXCEPT !.todo = @ \ {r}, !.cur = NoRoute, !.tries = 0]
    <2>1. calls'[c] = in
      BY <1>1, <1>2, <1>3, <1>5
    <2>2. in.at = "get" /\ in.add = calls[c].add /\ in.todo = calls[c].todo \ {r} /\ in.tries = 0
      BY <1>1, <1>3 DEF Call
    <2> HIDE DEF in
    <2> QED BY <1>1, <1>3, <1>5, <2>1, <2>2 DEF Removing
  <1> QED BY <1>4, <1>5

\* A conflict is retried, since there were fewer edits than retries; a PUT
\* takes c off the route.
LEMMA PutRemoves ==
    ASSUME StateTypes, RouteInv, NEW c \in Clients, Removing(c), PutRoute(c, env.versioned),
           env.edits < MaxRetries, edits' = edits
    PROVE  Removing(c)'
  <1>1. /\ calls[c] \in Call /\ calls \in [Clients -> Call] /\ edits \in Nat /\ ~calls[c].add
        /\ edits <= env.edits /\ env.edits \in Nat /\ MaxRetries \in Nat
        /\ routes \in [Routes -> SUBSET Consumers]
    BY EnvIs, RoutesAssumption DEF StateTypes, RouteInv, RoutesTypeOK, Removing
  <1>2. calls[c].at = "put" /\ calls[c].cur \in Routes /\ calls[c].tries \in Nat
    BY <1>1 DEF PutRoute, RouteInv, ReadIsCurrent, Call
  <1>3. CASE env.versioned /\ ~calls[c].fresh
    <2> DEFINE in == [calls[c] EXCEPT !.at = "get", !.tries = @ + 1, !.seen = {}, !.fresh = FALSE]
    <2>1. calls[c].tries + 1 <= edits
      BY <1>2, <1>3 DEF Removing
    <2>2. calls[c].tries + 1 < MaxRetries
      BY <1>1, <1>2, <2>1
    <2>3. calls'[c] = in /\ routes' = routes
      BY <1>1, <1>3, <2>2 DEF PutRoute
    <2>4. in.at = "get" /\ in.add = calls[c].add /\ in.todo = calls[c].todo
          /\ in.tries = calls[c].tries + 1
      BY <1>1 DEF Call
    <2> HIDE DEF in
    <2> QED BY <1>1, <2>1, <2>3, <2>4 DEF Removing
  <1>4. CASE ~(env.versioned /\ ~calls[c].fresh)
    <2> DEFINE r == calls[c].cur
               in == [calls[c] EXCEPT !.at = "get", !.todo = @ \ {r}, !.cur = NoRoute,
                                      !.seen = {}, !.fresh = FALSE, !.tries = 0,
                                      !.err = @ \/ FALSE]
    <2>1. /\ routes' = [routes EXCEPT ![r] = Body(c)]
          /\ calls' = Outdated(NextRoute(c, FALSE), r)
      BY <1>4 DEF PutRoute
    <2>2. NextRoute(c, FALSE)[c] = in
      BY <1>1 DEF NextRoute
    <2>3. /\ in.at = "get" /\ in.add = calls[c].add /\ in.todo = calls[c].todo \ {r}
          /\ in.tries = 0 /\ in.cur = NoRoute
      BY <1>1 DEF Call
    <2> HIDE DEF in
    <2>4. calls'[c] = in
      BY <1>2, <2>1, <2>2, <2>3, RoutesAssumption DEF Outdated
    <2>5. c \notin routes'[r] /\ \A q \in Routes : q # r => routes'[q] = routes[q]
      BY <1>1, <1>2, <2>1 DEF Body, Added
    <2> QED BY <1>1, <2>3, <2>4, <2>5 DEF Removing
  <1> QED BY <1>3, <1>4

\* An edit of somebody else is one conflict more, at most.
LEMMA EditRemoves ==
    ASSUME StateTypes, RouteInv, NEW c \in Clients, NEW r \in Routes, OtherWrites(r),
           edits' = edits + 1
    PROVE  /\ Removing(c) => Removing(c)'
           /\ \A q \in Routes : c \in routes'[q] <=> c \in routes[q]
  <1>1. /\ calls[c] \in Call /\ edits \in Nat
        /\ routes \in [Routes -> SUBSET Consumers] /\ c # Other
    BY EnvIs, RoutesAssumption DEF StateTypes, RouteInv, RoutesTypeOK
  <1>2. \A q \in Routes : c \in routes'[q] <=> c \in routes[q]
    BY <1>1 DEF OtherWrites
  <1>3. /\ calls'[c].at = calls[c].at /\ calls'[c].add = calls[c].add
        /\ calls'[c].todo = calls[c].todo /\ calls'[c].tries = calls[c].tries
    <2> DEFINE in == [calls[c] EXCEPT !.fresh = FALSE]
    <2>1. calls'[c] = calls[c] \/ calls'[c] = in
      BY DEF OtherWrites, Outdated
    <2>2. /\ in.at = calls[c].at /\ in.add = calls[c].add
          /\ in.todo = calls[c].todo /\ in.tries = calls[c].tries
      BY <1>1 DEF Call
    <2> HIDE DEF in
    <2> QED BY <2>1, <2>2
  <1>4. calls[c].tries \in Nat
    BY <1>1 DEF Call
  <1>5. ASSUME Removing(c) PROVE Removing(c)'
    <2>1. calls[c].tries <= edits /\ calls[c].at # "none" /\ ~calls[c].add
          /\ \A q \in Routes : q \in calls[c].todo \/ c \notin routes[q]
      BY <1>5 DEF Removing
    <2>2. calls[c].tries <= edits + 1 /\ calls[c].tries + 1 <= edits + 1
      BY <1>1, <1>4, <2>1
    <2> QED BY <1>2, <1>3, <2>1, <2>2 DEF Removing
  <1> QED BY <1>2, <1>5

\* A step over one CR changes no authorization of another, and no call that
\* is taking one away: that call has the lock.
LEMMA RoutesOfOthers ==
    ASSUME StateTypes, RouteInv, NEW c \in Clients, Over(c), NEW d \in Clients, d # c
    PROVE  /\ \A r \in Routes : d \in routes'[r] <=> d \in routes[r]
           /\ Removing(d) => Removing(d)'
  <1>1. calls \in [Clients -> Call] /\ routes \in [Routes -> SUBSET Consumers]
    BY DEF RouteInv, RoutesTypeOK
  <1>2. ASSUME RouteSets!ChangeOnly(c) \/ UNCHANGED routes
        PROVE  \A r \in Routes : d \in routes'[r] <=> d \in routes[r]
    BY <1>2 DEF RouteSets!ChangeOnly
  <1>3. ASSUME calls'[d] = calls[d], edits' = edits,
               \A r \in Routes : d \in routes'[r] <=> d \in routes[r]
        PROVE  Removing(d) => Removing(d)'
    BY <1>3 DEF Removing
  <1>4. ASSUME calls[c].at # "none" PROVE ~Removing(d)
    BY <1>4 DEF RouteInv, Exclusive, Removing
  <1>5. CASE Authorize(c) \/ Deauthorize(c)
    <2>1. RouteSets!ChangeOnly(c) \/ UNCHANGED routes
      BY <1>5, AuthorizeKeeps
    <2>2. calls'[d] = calls[d]
      BY <1>1, <1>5 DEF Authorize, Deauthorize, Enter, routeVars
    <2>3. edits' = edits
      BY <1>5 DEF Authorize, Deauthorize
    <2> QED BY <1>2, <1>3, <2>1, <2>2, <2>3
  <1>6. CASE RouteStep(c)
    <2>1. env' = env /\ (GetRoute(c) \/ PutRoute(c, env.versioned) \/ RouteFails(c, env.versioned))
      BY <1>6 DEF RouteStep
    <2>2. RouteSets!ChangeOnly(c) \/ UNCHANGED routes
      BY <2>1, GetKeeps, PutKeeps, FailKeeps
    <2>3. calls[c].at # "none"
      BY <2>1 DEF GetRoute, PutRoute, RouteFails
    <2> QED BY <1>2, <1>4, <2>2, <2>3
  <1>7. CASE RoutesDone(c)
    <2>1. calls[c].at # "none" /\ UNCHANGED routes
      BY <1>7 DEF RoutesDone, Leave, Done
    <2> QED BY <1>4, <2>1
  <1>8. CASE \/ LoadOrGenerate(c) \/ Register(c) \/ Recover(c) \/ Storage(c) \/ Room(c)
             \/ Consumer(c) \/ Ensure(c) \/ Finish(c) \/ Refresh(c) \/ LeaveRooms(c)
             \/ Cleanup(c) \/ Finalize(c) \/ CreateCR(c) \/ DeleteCR(c)
    <2>1. UNCHANGED routeVars
      BY <1>8, PassIsQuiet
    <2>2. edits' = edits
      BY <1>8 DEF LoadOrGenerate, Register, Recover, Storage, Room, Consumer, Ensure, Finish,
             Refresh, LeaveRooms, Cleanup, Finalize, CreateCR, DeleteCR
    <2> QED BY <1>3, <2>1, <2>2 DEF routeVars
  <1> QED BY <1>5, <1>6, <1>7, <1>8 DEF Over, Pass

LEMMA LeftOfOthers ==
    ASSUME StateTypes, RouteInv, NEW c \in Clients, Over(c), NEW d \in Clients, d # c, Left(d)
    PROVE  Left(d)'
  <1>1. /\ env' = env /\ cr'[d] = cr[d] /\ creds'[d] = creds[d] /\ pc'[d] = pc[d]
        /\ oss'[d] = oss[d] /\ consumers'[d] = consumers[d]
        /\ (d \in sas' <=> d \in sas) /\ (d \in aliases' <=> d \in aliases)
    BY OverIs DEF Only
  <1>2. Cleaned(d) => Cleaned(d)'
    BY <1>1 DEF Cleaned, NoCreds
  <1>3. OffRoutes(d) => OffRoutes(d)'
    BY <1>1, RoutesOfOthers DEF OffRoutes
  <1>4. Removing(d) => Removing(d)'
    BY RoutesOfOthers
  <1> QED BY <1>1, <1>2, <1>3, <1>4 DEF Left

\* A teardown removes everything in its order: the routes, then the rest,
\* then the finalizer.
LEMMA OverLeft ==
    ASSUME StateTypes, RouteInv, NEW c \in Clients, Phased(c), Left(c), Thorough, Over(c)
    PROVE  Left(c)'
  <1>0. "cleanup" \notin env.faults /\ "gateway" \notin env.faults /\ env.edits < MaxRetries
    BY DEF Thorough
  <1>1. ASSUME cr'[c].exists, pc'[c] \notin {"unroute", "cleanup", "finalize"} PROVE Left(c)'
    BY <1>1 DEF Left
  <1>2. CASE CreateCR(c)
    <2>1. ~cr[c].exists /\ cr'[c].exists /\ pc' = pc
      BY <1>2, CreateEffect
    <2> QED BY <1>1, <2>1 DEF Phased
  <1>3. CASE DeleteCR(c)
    <2>1. cr[c].exists /\ cr'[c].exists /\ UNCHANGED <<env, store, pc, edits, routeVars>>
      BY <1>3, DeleteEffect
    <2> QED BY <2>1 DEF Left, Cleaned, NoCreds, OffRoutes, Removing, store, routeVars
  <1>4. CASE \/ LoadOrGenerate(c) \/ Register(c) \/ Recover(c) \/ Storage(c) \/ Room(c)
             \/ Consumer(c) \/ Ensure(c) \/ Authorize(c) \/ Refresh(c) \/ LeaveRooms(c)
    <2>1. /\ cr' = cr
          /\ \/ pc'[c] \in {"idle", "register", "storage", "recover", "room", "consumer", "ensure",
                            "authorize", "routes", "finish", "deauthorize"}
             \/ pc'[c] = pc[c] /\ pc[c] = "idle"
      BY <1>4, LoadEffect, RegisterEffect, RecoverEffect, StorageEffect, RoomEffect, KeyEffect,
         EnsureEffect, AuthorizeEffect, RefreshEffect, LeaveRoomsEffect
    <2>2. pc[c] # "idle" \/ cr[c].exists
      BY <1>4 DEF LoadOrGenerate, Register, Recover, Storage, Room, Consumer, Ensure, Authorize,
             Refresh, LeaveRooms, Starts
    <2> QED BY <1>1, <2>1, <2>2 DEF Phased
  <1>5. CASE Finish(c)
    <2>1. pc[c] = "finish" /\ pc'[c] = "idle" /\ cr'[c].exists = cr[c].exists
      BY <1>5, FinishEffect
    <2> QED BY <1>1, <2>1 DEF Phased
  <1>6. CASE RouteStep(c)
    <2>1. /\ pc[c] \in {"routes", "unroute"} /\ UNCHANGED <<env, cr, pc, edits>>
          /\ GetRoute(c) \/ PutRoute(c, env.versioned)
      BY <1>0, <1>6, RouteEffect
    <2>2. cr'[c].exists /\ pc'[c] = pc[c]
      BY <2>1 DEF Phased
    <2>3. CASE pc[c] = "routes"
      BY <1>1, <2>2, <2>3
    <2>4. CASE pc[c] = "unroute"
      <3>1. Removing(c)
        BY <2>4 DEF Left
      <3>2. Removing(c)'
        BY <1>0, <2>1, <3>1, GetRemoves, PutRemoves
      <3> QED BY <2>2, <2>4, <3>2 DEF Left
    <2> QED BY <2>1, <2>3, <2>4
  <1>7. CASE RoutesDone(c)
    <2>1. /\ UNCHANGED <<env, cr>> /\ Leave(c)
          /\ \/ pc[c] = "routes" /\ pc'[c] \in {"idle", "finish"}
             \/ pc[c] = "unroute" /\ pc'[c] = "cleanup"
      BY <1>7, DoneEffect
    <2>2. cr'[c].exists
      BY <2>1 DEF Phased
    <2>3. CASE pc[c] = "routes" /\ pc'[c] \in {"idle", "finish"}
      BY <1>1, <2>2, <2>3
    <2>4. CASE pc[c] = "unroute" /\ pc'[c] = "cleanup"
      <3>1. Removing(c) /\ calls[c].todo = {} /\ UNCHANGED <<routes, env>>
        BY <2>1, <2>4 DEF Left, Leave, Done
      <3>2. OffRoutes(c)'
        BY <3>1 DEF Removing, OffRoutes
      <3> QED BY <2>2, <2>4, <3>2 DEF Left
    <2> QED BY <2>1, <2>3, <2>4
  <1>8. CASE Deauthorize(c)
    <2>1. /\ pc[c] = "deauthorize" /\ UNCHANGED <<env, cr, edits>>
          /\ \/ ~env.cloud /\ Enter(c, FALSE) /\ pc'[c] = "unroute"
             \/ /\ env.cloud /\ routes' = [routes EXCEPT ![DefaultAPI] = @ \ {c}]
                /\ pc'[c] = "cleanup"
      BY <1>0, <1>8, DeauthorizeEffect
    <2>2. cr'[c].exists
      BY <2>1 DEF Phased
    <2>3. CASE Enter(c, FALSE) /\ pc'[c] = "unroute"
      <3> DEFINE in == [NoCall EXCEPT !.at = "get", !.add = FALSE, !.todo = Routes]
      <3>1. calls'[c] = in
        BY <2>3 DEF Enter, RouteInv, RoutesTypeOK
      <3>2. in.at = "get" /\ ~in.add /\ in.todo = Routes /\ in.tries = 0
        BY DEF NoCall
      <3>3. edits \in Nat
        BY EnvIs DEF StateTypes
      <3> HIDE DEF in
      <3>4. Removing(c)'
        BY <2>1, <3>1, <3>2, <3>3 DEF Removing
      <3> QED BY <2>2, <2>3, <3>4 DEF Left
    <2>4. CASE env.cloud /\ routes' = [routes EXCEPT ![DefaultAPI] = @ \ {c}] /\ pc'[c] = "cleanup"
      <3>1. routes \in [Routes -> SUBSET Consumers] /\ DefaultAPI \in Routes
        BY ProvisioningAssumption DEF RouteInv, RoutesTypeOK
      <3>2. OffRoutes(c)'
        BY <2>1, <2>4, <3>1 DEF OffRoutes
      <3> QED BY <2>2, <2>4, <3>2 DEF Left
    <2> QED BY <2>1, <2>3, <2>4
  <1>9. CASE Cleanup(c)
    <2>1. /\ pc[c] = "cleanup" /\ pc'[c] = "finalize" /\ Cleaned(c)'
          /\ UNCHANGED <<env, cr, routes>>
      BY <1>0, <1>9, CleanupEffect DEF routeVars
    <2>2. OffRoutes(c)'
      BY <2>1 DEF Left, OffRoutes
    <2> QED BY <2>1, <2>2 DEF Left
  <1>10. CASE Finalize(c)
    <2>1. /\ pc[c] = "finalize" /\ pc'[c] = "idle" /\ UNCHANGED <<env, store, routes>>
      BY <1>10, FinalizeEffect DEF routeVars
    <2>2. Cleaned(c) /\ OffRoutes(c)
      BY <2>1 DEF Left
    <2>3. Cleaned(c)' /\ OffRoutes(c)'
      BY <2>1, <2>2 DEF Cleaned, NoCreds, OffRoutes, store
    <2> QED BY <2>1, <2>3 DEF Left
  <1> QED BY <1>2, <1>3, <1>4, <1>5, <1>6, <1>7, <1>8, <1>9, <1>10 DEF Over, Pass

\* What is not there stays away, whatever happens to the accounts and to the
\* process.
LEMMA LeftStays ==
    ASSUME StateTypes, NEW c \in Clients, Left(c), Phased(c),
           UNCHANGED <<env, cr, oss, consumers, aliases, sas, routes>>,
           creds'[c] = creds[c] \/ cr[c].exists,
           pc'[c] = "idle" \/ (UNCHANGED <<creds, pc, calls, edits>>)
    PROVE  Left(c)'
  <1>1. CASE pc'[c] = "idle"
    BY <1>1 DEF Left, Cleaned, NoCreds, OffRoutes
  <1>2. CASE UNCHANGED <<creds, pc, calls, edits>>
    BY <1>2 DEF Left, Cleaned, NoCreds, OffRoutes, Removing
  <1> QED BY <1>1, <1>2

LEMMA LeftStep ==
    ASSUME StateTypes, RouteInv, PhaseInv, LeftInv, [Next]_vars, env' = env
    PROVE  LeftInv'
  <1> SUFFICES ASSUME Thorough', NEW c \in Clients PROVE Left(c)'
    BY DEF LeftInv
  <1>1. Thorough /\ env' = env /\ Left(c) /\ Phased(c)
    BY DEF Thorough, LeftInv, PhaseInv
  <1>2. CASE UNCHANGED vars
    BY <1>1, <1>2, LeftStays DEF vars
  <1>3. CASE BotRuns
    BY <1>1, <1>3, BotEffect, LeftStays DEF routeVars
  <1>4. CASE ConsoleEdits
    <2>1. /\ UNCHANGED <<env, cr, store, pc>> /\ edits' = edits + 1
          /\ \E r \in Routes : OtherWrites(r)
      BY <1>4, EditEffect
    <2>2. /\ Removing(c) => Removing(c)'
          /\ \A q \in Routes : c \in routes'[q] <=> c \in routes[q]
      BY <2>1, EditRemoves
    <2> QED BY <1>1, <2>1, <2>2 DEF Left, Cleaned, NoCreds, OffRoutes, store
  <1>5. CASE Crash
    BY <1>1, <1>5, CrashEffect, RestartedIs, LeftStays DEF store
  <1>6. ASSUME NEW d \in Clients, TornSave(d) PROVE Left(c)'
    <2>1. /\ Restarted /\ UNCHANGED <<env, cr, aliases, oss, consumers, sas, routes>>
          /\ cr[d].exists \/ pc[d] = "room"
          /\ \A q \in Clients \ {d} : creds'[q] = creds[q]
      BY <1>6, TornEffect
    <2>2. cr[d].exists
      BY <2>1 DEF PhaseInv, Phased
    <2> QED BY <1>1, <2>1, <2>2, RestartedIs, LeftStays
  <1>7. ASSUME NEW d \in Clients, Over(d) PROVE Left(c)'
    BY <1>1, <1>7, OverLeft, LeftOfOthers
  <1> QED BY <1>2, <1>3, <1>4, <1>5, <1>6, <1>7, StepIs

-----------------------------------------------------------------------------
(***************************************************************************)
(* The theorems.                                                           *)
(***************************************************************************)
\* A CR of an earlier release has everything, from one secret.
LEMMA InitProvides == Init => ProvInv
  <1> SUFFICES ASSUME Init PROVE ProvInv
    OBVIOUS
  <1>1. /\ RouteInv /\ RoutesTypeOK /\ env \in Envs
        /\ env.edits \in Nat /\ env.legacy \subseteq Clients
    BY InitEstablishes, EnvIs DEF RouteInv, Init
  <1>2. /\ serial = [c \in Clients |-> IF c \in env.legacy THEN 1 ELSE 0]
        /\ users = serial /\ consumers = serial
        /\ oss = IF env.cloud THEN [c \in Clients |-> 0] ELSE serial
        /\ creds = [c \in Clients |-> NoCreds] /\ w = [c \in Clients |-> NoCreds]
        /\ aliases = env.legacy /\ joined = env.legacy /\ sas = env.legacy
        /\ botq = <<>> /\ pc = [c \in Clients |-> "idle"]
        /\ faults = 0 /\ edits = 0
    BY DEF Init
  <1>3. cr \in [Clients -> CR] /\ \A c \in Clients : (cr[c].exists <=> c \in env.legacy) /\ cr[c].base = 0
    <2> DEFINE rec(b, n) == [exists |-> b, deleting |-> FALSE, known |-> b, lives |-> n,
                             base |-> 0]
               old(c) == rec(c \in env.legacy, IF c \in env.legacy THEN 1 ELSE 0)
    <2>1. ASSUME NEW b \in BOOLEAN, NEW n \in Nat
          PROVE  rec(b, n) \in CR /\ rec(b, n).exists = b /\ rec(b, n).base = 0
      BY DEF CR
    <2>2. cr = [c \in Clients |-> old(c)]
      BY DEF Init
    <2> HIDE DEF rec
    <2>3. \A c \in Clients : /\ old(c) \in CR /\ (old(c).exists <=> c \in env.legacy)
                             /\ old(c).base = 0
      <3> TAKE c \in Clients
      <3>1. (c \in env.legacy) \in BOOLEAN /\ (IF c \in env.legacy THEN 1 ELSE 0) \in Nat
        OBVIOUS
      <3> QED BY <2>1, <3>1
    <2> HIDE DEF old
    <2> QED BY <2>2, <2>3
  <1>4. held \in [Clients -> Creds]
    <2>1. [saved |-> TRUE, pw |-> 1, os |-> 1, key |-> 1, tok |-> TRUE] \in Creds
      BY DEF Creds
    <2> QED BY <2>1, NoCredsIs DEF Init
  <1>5. /\ serial \in [Clients -> Nat] /\ users \in [Clients -> Nat]
        /\ consumers \in [Clients -> Nat] /\ oss \in [Clients -> Nat]
        /\ \A c \in Clients : oss[c] \in {0, serial[c]} /\ users[c] = serial[c] /\ consumers[c] = serial[c]
    BY <1>2
  <1>6. botq \in Seq([user : Clients, pw : Nat]) /\ \A c \in Clients : Pending(c) = {}
    BY <1>2 DEF Pending
  <1>7. StateTypes
    BY <1>1, <1>2, <1>3, <1>4, <1>5, <1>6, NoCredsIs, ProvisioningAssumption DEF StateTypes, PCs
  <1>8. PhaseInv
    BY <1>2 DEF PhaseInv, Phased, Teardown
  <1>9. SecretInv
    <2> SUFFICES ASSUME NEW c \in Clients PROVE Secure(c)
      BY DEF SecretInv
    <2>1. creds[c] = NoCreds /\ w[c] = NoCreds /\ pc[c] = "idle"
      BY <1>2
    <2>2. serial[c] = IF c \in env.legacy THEN 1 ELSE 0
      BY <1>2
    <2>3. Made(c)
      <3>1. /\ serial[c] \in Nat /\ oss[c] <= serial[c] /\ users[c] <= serial[c]
            /\ consumers[c] <= serial[c] /\ 0 <= serial[c]
        BY <1>5
      <3> QED BY <1>6, <2>1, <2>2, <3>1, NoCredsIs DEF Made
    <2>4. Working(c)
      BY <2>1 DEF Working, Setup
    <2>5. cr[c].exists => Found(c).pw = 1 /\ Found(c).os = 1 /\ Found(c).key = 1
      BY <1>3, <1>7, <2>1, FoundIs, LegacyIs, NoCredsIs
    <2>6. Kept(c)
      BY <1>3, <1>5, <1>6, <2>2, <2>5 DEF Kept
    <2> QED BY <2>1, <2>3, <2>4, <2>6, NoCredsIs DEF Secure
  <1>10. LeftInv
    <2> SUFFICES ASSUME NEW c \in Clients PROVE Left(c)
      BY DEF LeftInv
    <2>1. pc[c] = "idle"
      BY <1>2
    <2>2. ASSUME ~cr[c].exists PROVE Cleaned(c) /\ OffRoutes(c)
      <3>1. c \notin env.legacy /\ c # Other
        BY <1>3, <2>2, RoutesAssumption
      <3>2. \A r \in Routes : c \notin routes[r]
        BY <3>1 DEF Init
      <3>3. Cleaned(c)
        BY <1>2, <1>5, <3>1 DEF Cleaned
      <3> QED BY <3>2, <3>3 DEF OffRoutes
    <2> QED BY <2>1, <2>2 DEF Left
  <1> QED BY <1>1, <1>7, <1>8, <1>9, <1>10, TypesAre DEF ProvInv

LEMMA ProvStep == ProvInv /\ [Next]_vars => ProvInv'
  <1> SUFFICES ASSUME ProvInv, [Next]_vars PROVE ProvInv'
    OBVIOUS
  <1>1. StateTypes
    BY TypesAre DEF ProvInv
  <1>2. RouteInv' /\ RoutesTypeOK'
    BY StepSimulates DEF ProvInv, RouteInv
  <1>3. StateTypes' /\ PhaseInv' /\ SecretInv' /\ env' = env
    BY <1>1, StateStep DEF ProvInv
  <1>4. LeftInv'
    BY <1>1, <1>3, LeftStep DEF ProvInv
  <1>5. TypeOK'
    BY <1>2, <1>3 DEF TypeOK, StateTypes
  <1> QED BY <1>2, <1>3, <1>4, <1>5 DEF ProvInv

LEMMA ProvInvariant == Spec => []ProvInv
  BY InitProvides, ProvStep, PTL DEF Spec

\* Every step of the Provisioner, of the admin bot, of another writer of the
\* routes and of a failing process stays in the types of the state.
THEOREM ProvisioningTypeCorrect == Spec => []TypeOK
  <1>1. ProvInv => TypeOK
    BY DEF ProvInv
  <1> QED BY <1>1, ProvInvariant, PTL

\* A secret that ProvisionWorker or ProvisionManager has handed to a service
\* is the one the next pass over the CR finds, however the passes fail and
\* whenever the process stops outside of a write (provisioner.go, step 1).
THEOREM SecretsAreStored == Spec => []SecretsPersisted
  <1>1. ProvInv => SecretsPersisted
    BY DEF ProvInv, SecretInv, Secure, Kept, SecretsPersisted
  <1> QED BY <1>1, ProvInvariant, PTL

\* DeprovisionWorker and DeprovisionManager take away everything a CR had,
\* unless a step of theirs fails or others write the AI routes as often as
\* DeauthorizeAIRoutes retries.
THEOREM TeardownIsComplete == Spec => []NothingLeft
  <1>1. ProvInv => NothingLeft
    BY DEF ProvInv, LeftInv, Thorough, Left, Cleaned, OffRoutes, NothingLeft
  <1> QED BY <1>1, ProvInvariant, PTL
=============================================================================
