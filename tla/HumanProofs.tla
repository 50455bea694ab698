---------------------------- MODULE HumanProofs -----------------------------
(***************************************************************************)
(* Proofs about HumanRooms, for every set of rooms and environments and    *)
(* every bound on passwords, edits and failures.                           *)
(***************************************************************************)
EXTENDS HumanRooms, FiniteSetTheorems, SequenceTheorems, TLAPS

-----------------------------------------------------------------------------
(***************************************************************************)
(* The admin bot's queue.                                                  *)
(***************************************************************************)
Resets(q) == {i \in DOMAIN q : q[i].op = "reset"}

\* The passwords a queue will set are of the k made so far, the newest last.
Rising(q, k) ==
    /\ \A i \in Resets(q) : q[i].pw \in 1 .. k
    /\ \A i, j \in Resets(q) : i < j => q[i].pw < q[j].pw

LEMMA RisingMore ==
    ASSUME NEW q \in Seq(Command), NEW k \in Nat, Rising(q, k) PROVE Rising(q, k + 1)
  <1>1. \A n \in 1 .. k : n \in 1 .. k + 1
    OBVIOUS
  <1> QED BY <1>1 DEF Rising

LEMMA ResetQueued ==
    ASSUME NEW q \in Seq(Command), NEW k \in Nat, Rising(q, k)
    PROVE  LET r == Append(q, [op |-> "reset", pw |-> k + 1]) IN
           /\ r \in Seq(Command) /\ Rising(r, k + 1)
           /\ r # <<>> /\ Len(r) \in Resets(r)
  <1> DEFINE e == [op |-> "reset", pw |-> k + 1]
             r == Append(q, e)
  <1>1. e \in Command /\ e.op = "reset" /\ e.pw = k + 1 /\ k + 1 \in Nat
    BY DEF Command
  <1> HIDE DEF e
  <1>2. /\ r \in Seq(Command) /\ Len(r) = Len(q) + 1 /\ Len(q) \in Nat
        /\ DOMAIN r = 1 .. Len(q) + 1 /\ DOMAIN q = 1 .. Len(q)
        /\ \A i \in 1 .. Len(q) : r[i] = q[i]
        /\ r[Len(q) + 1] = e
    BY <1>1, AppendProperties
  <1> HIDE DEF r
  <1>3. Resets(r) = Resets(q) \cup {Len(q) + 1}
    BY <1>1, <1>2 DEF Resets
  <1>4. \A i \in Resets(q) : i \in 1 .. Len(q) /\ q[i].pw \in 1 .. k /\ r[i] = q[i]
    BY <1>2 DEF Resets, Rising
  <1>5. \A i \in Resets(r) : r[i].pw \in 1 .. k + 1
    BY <1>1, <1>2, <1>3, <1>4
  <1>6. ASSUME NEW i \in Resets(r), NEW j \in Resets(r), i < j PROVE r[i].pw < r[j].pw
    <2>1. i \in Resets(q)
      BY <1>2, <1>3, <1>4, <1>6
    <2>2. CASE j \in Resets(q)
      BY <1>4, <1>6, <2>1, <2>2 DEF Rising
    <2>3. CASE j = Len(q) + 1
      <3>1. r[i].pw = q[i].pw /\ q[i].pw \in 1 .. k
        BY <1>4, <2>1
      <3>2. r[j].pw = k + 1
        BY <1>1, <1>2, <2>3
      <3> QED BY <3>1, <3>2
    <2> QED BY <1>3, <2>2, <2>3
  <1>7. r # <<>>
    BY <1>2
  <1> QED BY <1>2, <1>3, <1>5, <1>6, <1>7 DEF Rising, r, e

\* The bot takes the first command.
LEMMA HeadTaken ==
    ASSUME NEW q \in Seq(Command), NEW k \in Nat, Rising(q, k), q # <<>>
    PROVE  /\ Tail(q) \in Seq(Command) /\ Rising(Tail(q), k) /\ Head(q) \in Command
           /\ Head(q).op = "reset" =>
                 /\ Head(q).pw \in 1 .. k
                 /\ \A i \in Resets(Tail(q)) : Head(q).pw < Tail(q)[i].pw
           /\ Resets(q) = {} => Resets(Tail(q)) = {} /\ Head(q).op # "reset"
           /\ Len(q) \in Resets(q) /\ Tail(q) # <<>> => Len(Tail(q)) \in Resets(Tail(q))
           /\ Len(q) \in Resets(q) /\ Tail(q) = <<>> => Head(q).op = "reset"
  <1> DEFINE t == Tail(q)
  <1>1. /\ t \in Seq(Command) /\ Head(q) = q[1] /\ Len(q) \in Nat /\ Len(q) > 0
        /\ Len(t) = Len(q) - 1 /\ DOMAIN t = 1 .. Len(q) - 1 /\ DOMAIN q = 1 .. Len(q)
        /\ \A i \in 1 .. Len(q) - 1 : t[i] = q[i + 1]
    BY HeadTailProperties, LenProperties, EmptySeq
  <1>2. Head(q) \in Command
    BY <1>1
  <1>3. t = <<>> <=> Len(q) = 1
    <2>1. Len(<<>>) = 0 /\ (t # <<>> => Len(t) # 0)
      BY <1>1, EmptySeq
    <2> HIDE DEF t
    <2> QED BY <1>1, <2>1
  <1> HIDE DEF t
  <1>4. \A i \in Resets(t) : i \in 1 .. Len(q) - 1 /\ i + 1 \in Resets(q) /\ t[i] = q[i + 1]
    BY <1>1 DEF Resets
  <1>5. q[1].op = "reset" => 1 \in Resets(q)
    BY <1>1 DEF Resets
  <1>6. \A i \in Resets(t) : t[i].pw \in 1 .. k
    BY <1>4 DEF Rising
  <1>7. ASSUME NEW i \in Resets(t), NEW j \in Resets(t), i < j PROVE t[i].pw < t[j].pw
    BY <1>1, <1>4, <1>7 DEF Rising
  <1>8. ASSUME q[1].op = "reset" PROVE q[1].pw \in 1 .. k /\ \A i \in Resets(t) : q[1].pw < t[i].pw
    BY <1>1, <1>4, <1>5, <1>8 DEF Rising
  <1>9. Resets(q) = {} => Resets(t) = {} /\ q[1].op # "reset"
    BY <1>4, <1>5
  <1>10. Len(q) \in Resets(q) /\ t # <<>> => Len(t) \in Resets(t)
    BY <1>1, <1>3 DEF Resets
  <1>11. Len(q) \in Resets(q) /\ t = <<>> => q[1].op = "reset"
    BY <1>3 DEF Resets
  <1> QED BY <1>1, <1>2, <1>6, <1>7, <1>8, <1>9, <1>10, <1>11 DEF Rising, t

LEMMA LeavesAre ==
    ASSUME NEW rs \in SUBSET Rooms
    PROVE  /\ Leaves(rs) \in Seq(Command)
           /\ Resets(Leaves(rs)) = {}
           /\ rs = {} => Leaves(rs) = <<>>
  <1> DEFINE q == SetToSeq(rs)
             n == Cardinality(rs)
  <1>1. IsFiniteSet(rs)
    BY HumanAssumption, FS_Subset
  <1>2. n \in Nat /\ ExistsBijection(1 .. n, rs)
    BY <1>1, FS_CardinalityType
  <1>3. \E f \in [1 .. n -> rs] : IsInjective(f)
    BY <1>2 DEF ExistsBijection, Bijection, Injection
  <1>4. q \in [1 .. n -> rs]
    BY <1>3 DEF SetToSeq
  <1>5. rs = {} => n = 0
    BY FS_EmptySet
  <1> HIDE DEF q, n
  <1>6. Leaves(rs) = [i \in 1 .. n |-> [op |-> "leave", room |-> q[i]]]
    BY <1>4 DEF Leaves, q
  <1>7. \A i \in 1 .. n : [op |-> "leave", room |-> q[i]] \in Command
    BY <1>4 DEF Command
  <1>8. Leaves(rs) \in Seq(Command)
    BY <1>2, <1>6, <1>7
  <1>9. Resets(Leaves(rs)) = {}
    BY <1>6 DEF Resets
  <1>10. rs = {} => Leaves(rs) = <<>>
    BY <1>5, <1>6, <1>8, EmptySeq
  <1> QED BY <1>8, <1>9, <1>10

LEMMA LeavesQueued ==
    ASSUME NEW q \in Seq(Command), NEW k \in Nat, Rising(q, k), NEW rs \in SUBSET Rooms
    PROVE  LET r == q \o Leaves(rs) IN
           /\ r \in Seq(Command) /\ Rising(r, k) /\ (Resets(q) = {} => Resets(r) = {})
           /\ rs = {} => r = q
  <1> DEFINE l == Leaves(rs)
             r == q \o l
  <1>1. l \in Seq(Command) /\ Resets(l) = {} /\ (rs = {} => l = <<>>)
    BY LeavesAre
  <1> HIDE DEF l
  <1>2. /\ r \in Seq(Command) /\ Len(q) \in Nat /\ Len(l) \in Nat
        /\ DOMAIN r = 1 .. Len(q) + Len(l) /\ DOMAIN q = 1 .. Len(q) /\ DOMAIN l = 1 .. Len(l)
        /\ \A i \in 1 .. Len(q) + Len(l) : r[i] = IF i <= Len(q) THEN q[i] ELSE l[i - Len(q)]
    BY <1>1, ConcatProperties
  <1>3. l = <<>> => r = q
    BY <1>1, ConcatEmptySeq
  <1> HIDE DEF r
  <1>4. \A i \in Resets(r) : i \in Resets(q) /\ r[i] = q[i]
    <2> TAKE i \in Resets(r)
    <2>1. i \in 1 .. Len(q) + Len(l) /\ r[i].op = "reset"
      BY <1>2 DEF Resets
    <2>2. ~(i > Len(q))
      <3> SUFFICES ASSUME i > Len(q) PROVE FALSE
        BY <1>2, <2>1
      <3>1. i - Len(q) \in 1 .. Len(l) /\ r[i] = l[i - Len(q)]
        BY <1>2, <2>1
      <3> QED BY <1>1, <1>2, <2>1, <3>1 DEF Resets
    <2> QED BY <1>2, <2>1, <2>2 DEF Resets
  <1> QED BY <1>1, <1>2, <1>3, <1>4 DEF Rising, r, l

-----------------------------------------------------------------------------
(***************************************************************************)
(* Types.                                                                  *)
(***************************************************************************)

\* Every password that is queued or set was made.
QueueInv == acct <= made /\ Rising(botq, made)

\* The fields of the status that the proofs are about.
Same(u, v) == u.id = v.id /\ u.pw = v.pw /\ u.rooms = v.rooms

\* u is v but for its phase and its profile's generation.
Noted(u, v) == u \in Human /\ Same(u, v) /\ u.rv = v.rv

Phases == {"", "Pending", "Active", "Failed"}

\* Whoever writes the CR leaves the cache to the watch.
Sends ==
    /\ cache' = cache
    /\ \/ UNCHANGED <<api, watch>>
       \/ api'.rv = api.rv + 1 /\ watch' = watch \cup {api'}

LEMMA FaultType ==
    ASSUME NEW k, Fault(k), faults \in 0 .. MaxFaults
    PROVE  faults' \in 0 .. MaxFaults /\ k \in env.faults
  BY HumanAssumption DEF Fault

LEMMA WriteEffect ==
    ASSUME api \in Human, watch \subseteq Human, NEW o \in Human, Write(o)
    PROVE  /\ api' \in Human /\ watch' \subseteq Human
           /\ api'.exists = o.exists /\ api'.fin = o.fin /\ api'.deleting = o.deleting
           /\ api'.gen = o.gen /\ api'.access = o.access /\ Same(api', o)
           /\ UNCHANGED <<api, watch>> \/ (api'.rv = api.rv + 1 /\ watch' = watch \cup {api'})
  <1> DEFINE p == [o EXCEPT !.rv = api.rv + 1]
  <1>0. api.rv + 1 \in Nat
    <2>1. api.rv \in Nat
      BY Zenon DEF Human
    <2> QED BY <2>1
  <1>1. /\ p \in Human /\ p.rv = api.rv + 1 /\ p.exists = o.exists /\ p.fin = o.fin
        /\ p.deleting = o.deleting /\ p.gen = o.gen /\ p.access = o.access /\ Same(p, o)
    BY <1>0 DEF Human, Same
  <1>2. CASE o = api
    BY <1>2 DEF Write, Same
  <1>3. CASE o # api
    <2>1. api' = p /\ watch' = watch \cup {api'}
      BY <1>3 DEF Write
    <2> QED BY <1>1, <2>1
  <1> QED BY <1>2, <1>3

LEMMA NilType == Nil \in Human /\ ~Nil.exists
  BY DEF Nil, Human

\* What users write into the CR.
LEMMA CreateTypes ==
    ASSUME api \in Human, NEW access \in SUBSET Rooms
    PROVE  LET o == [NewHuman(access) EXCEPT !.rv = api.rv] IN
           /\ o \in Human /\ o.exists /\ ~o.fin /\ ~o.deleting
           /\ ~o.id /\ o.pw = 0 /\ o.rooms = {}
  <1>1. api.gen + 1 \in Nat /\ api.rv \in Nat
    <2>1. api.gen \in Nat /\ api.rv \in Nat
      BY Zenon DEF Human
    <2> QED BY <2>1
  <1> QED BY <1>1 DEF NewHuman, Nil, Human

LEMMA EditTypes ==
    ASSUME api \in Human, NEW a \in SUBSET Rooms
    PROVE  LET o == [api EXCEPT !.access = a, !.gen = @ + 1] IN
           /\ o \in Human /\ Same(o, api)
           /\ o.exists = api.exists /\ o.fin = api.fin /\ o.deleting = api.deleting
  <1>1. api.gen + 1 \in Nat
    <2>1. api.gen \in Nat
      BY Zenon DEF Human
    <2> QED BY <2>1
  <1> QED BY <1>1 DEF Human, Same

LEMMA DeletedTypes ==
    ASSUME api \in Human
    PROVE  /\ Deleted(api) \in Human /\ Same(Deleted(api), api)
           /\ Deleted(api).exists = api.fin /\ Deleted(api).fin = api.fin
           /\ Deleted(api).deleting
  BY DEF Human, Deleted, Same

\* What the reconciler writes into the CR.
LEMMA FinTypes ==
    ASSUME api \in Human
    PROVE  LET o == [api EXCEPT !.fin = TRUE] IN
           /\ o \in Human /\ Same(o, api) /\ o.fin
           /\ o.exists = api.exists /\ o.deleting = api.deleting
  BY DEF Human, Same

LEMMA UnfinalizedTypes ==
    ASSUME api \in Human
    PROVE  /\ Unfinalized(api) \in Human /\ Same(Unfinalized(api), api)
           /\ ~Unfinalized(api).fin /\ Unfinalized(api).exists = ~api.deleting
           /\ Unfinalized(api).deleting = api.deleting
  BY DEF Human, Unfinalized, Same

LEMMA MergeTypes ==
    ASSUME api \in Human, base \in Human, w \in Human
    PROVE  LET o == Merge(api, base, w) IN
           /\ o \in Human
           /\ o.exists = api.exists /\ o.fin = api.fin /\ o.deleting = api.deleting
           /\ o.id = Merged(api.id, base.id, w.id) /\ o.pw = Merged(api.pw, base.pw, w.pw)
           /\ o.rooms = Merged(api.rooms, base.rooms, w.rooms)
  <1>1. /\ Merged(api.id, base.id, w.id) \in BOOLEAN
        /\ Merged(api.pw, base.pw, w.pw) \in Nat
        /\ Merged(api.synced, base.synced, w.synced) \in Nat
        /\ Merged(api.rooms, base.rooms, w.rooms) \in SUBSET Rooms
        /\ Merged(api.phase, base.phase, w.phase) \in Phases
    BY DEF Merged, Human, Phases
  <1> QED BY <1>1 DEF Merge, Human, Phases

\* What the reconciler notes in its working copy.
LEMMA PhaseNoted ==
    ASSUME NEW h \in Human, NEW p \in Phases
    PROVE  Noted([h EXCEPT !.phase = p], h)
  BY DEF Noted, Human, Same, Phases

LEMMA ErrorPhase == ASSUME NEW h \in Human PROVE PhaseAfterError(h) \in Phases
  BY DEF PhaseAfterError, Human, Phases

LEMMA ErrorNoted ==
    ASSUME NEW h \in Human PROVE Noted([h EXCEPT !.phase = PhaseAfterError(h)], h)
  BY PhaseNoted, ErrorPhase

LEMMA SyncedNoted ==
    ASSUME NEW h \in Human PROVE Noted([h EXCEPT !.synced = h.gen], h)
  BY DEF Noted, Human, Same

LEMMA ProvisionedTypes ==
    ASSUME NEW h \in Human, NEW p \in Nat
    PROVE  LET v == Provisioned(h, p) IN
           v \in Human /\ v.id /\ v.pw = p /\ v.rooms = h.rooms /\ v.rv = h.rv
  BY DEF Provisioned, Human

LEMMA PwTypes ==
    ASSUME NEW h \in Human, NEW p \in Nat
    PROVE  LET v == [h EXCEPT !.pw = p] IN
           v \in Human /\ v.id = h.id /\ v.pw = p /\ v.rooms = h.rooms /\ v.rv = h.rv
  BY DEF Human

LEMMA RoomsTypes ==
    ASSUME NEW h \in Human, NEW rs \in SUBSET Rooms
    PROVE  LET v == [h EXCEPT !.rooms = rs] IN
           v \in Human /\ v.id = h.id /\ v.pw = h.pw /\ v.rooms = rs /\ v.rv = h.rv
  BY DEF Human

-----------------------------------------------------------------------------
(***************************************************************************)
(* What each step does to the CR, with the types it keeps.                 *)
(***************************************************************************)
TypeInv == TypeOK /\ QueueInv /\ (pc = "join" => cur \in Rooms)

LEMMA EnvType == ASSUME env \in Envs PROVE env \in Env
  BY HumanAssumption

LEMMA InitTypes == ASSUME Init PROVE TypeInv
  <1>1. env \in Env /\ env.up \in SUBSET Rooms /\ env.up \subseteq Rooms
    <2>1. env \in Env
      BY EnvType DEF Init
    <2> QED BY <2>1 DEF Env
  <1>2. <<>> \in Seq(Command) /\ Resets(<<>>) = {}
    BY EmptySeq DEF Resets
  <1>3. 0 \in 0 .. MaxPw /\ 0 \in 0 .. MaxFaults /\ {} \subseteq Human
    BY HumanAssumption
  <1>4. Rising(botq, made) /\ acct <= made
    BY <1>2 DEF Init, Rising
  <1>5. cur \in Rooms \cup {NoRoom} /\ pc \in PCs
    BY DEF Init, PCs
  <1> QED BY <1>1, <1>2, <1>3, <1>4, <1>5, NilType DEF Init, TypeInv, TypeOK, QueueInv

LEMMA DeliverEffect ==
    ASSUME TypeInv, Deliver
    PROVE  /\ TypeInv' /\ UNCHANGED <<api, env, world, local, counts>>
           /\ \E v \in watch : cache' = v /\ watch' = {u \in watch : u.rv > v.rv}
  BY DEF Deliver, Receive, TypeInv, TypeOK, QueueInv, world, local, counts

LEMMA CreateCREffect ==
    ASSUME TypeInv, CreateCR
    PROVE  /\ TypeInv' /\ Sends /\ UNCHANGED <<env, world, local, made, faults>>
           /\ ~api.exists /\ api'.exists /\ ~api'.fin /\ ~api'.deleting
           /\ ~api'.id /\ api'.pw = 0 /\ api'.rooms = {}
  <1> DEFINE o == [NewHuman(env.start) EXCEPT !.rv = api.rv]
  <1>1. env.start \in SUBSET Rooms
    <2>1. env \in Env
      BY EnvType DEF TypeInv, TypeOK
    <2> QED BY <2>1 DEF Env
  <1>2. o \in Human /\ o.exists /\ ~o.fin /\ ~o.deleting /\ ~o.id /\ o.pw = 0 /\ o.rooms = {}
    BY <1>1, CreateTypes DEF TypeInv, TypeOK
  <1>3. Write(o)
    BY DEF CreateCR
  <1> HIDE DEF o
  <1>4. /\ api' \in Human /\ watch' \subseteq Human
        /\ api'.exists = o.exists /\ api'.fin = o.fin /\ api'.deleting = o.deleting
        /\ Same(api', o)
        /\ UNCHANGED <<api, watch>> \/ (api'.rv = api.rv + 1 /\ watch' = watch \cup {api'})
    BY <1>2, <1>3, WriteEffect DEF TypeInv, TypeOK
  <1>5. ~api'.id /\ api'.pw = 0 /\ api'.rooms = {}
    BY <1>2, <1>4 DEF Same
  <1>6. lives' \in Nat
    BY DEF CreateCR, TypeInv, TypeOK
  <1> QED BY <1>2, <1>4, <1>5, <1>6
          DEF CreateCR, Sends, TypeInv, TypeOK, QueueInv, world, local

LEMMA EditEffect ==
    ASSUME TypeInv, Edit
    PROVE  /\ TypeInv' /\ Sends /\ UNCHANGED <<env, world, local, counts>>
           /\ Same(api', api)
           /\ api'.exists = api.exists /\ api'.fin = api.fin /\ api'.deleting = api.deleting
  <1>1. \E a \in SUBSET Rooms : Write([api EXCEPT !.access = a, !.gen = @ + 1])
    <2>1. api.access \subseteq Rooms
      BY DEF TypeInv, TypeOK, Human
    <2>2. \A r \in Rooms : api.access \cup {r} \in SUBSET Rooms /\ api.access \ {r} \in SUBSET Rooms
      BY <2>1
    <2> QED BY <2>2 DEF Edit
  <1>2. PICK a \in SUBSET Rooms : Write([api EXCEPT !.access = a, !.gen = @ + 1])
    BY <1>1
  <1> DEFINE o == [api EXCEPT !.access = a, !.gen = @ + 1]
  <1>3. /\ o \in Human /\ Same(o, api)
        /\ o.exists = api.exists /\ o.fin = api.fin /\ o.deleting = api.deleting
    BY EditTypes DEF TypeInv, TypeOK
  <1> HIDE DEF o
  <1>4. Write(o)
    BY <1>2 DEF o
  <1>5. /\ api' \in Human /\ watch' \subseteq Human
        /\ api'.exists = o.exists /\ api'.fin = o.fin /\ api'.deleting = o.deleting
        /\ Same(api', o)
        /\ UNCHANGED <<api, watch>> \/ (api'.rv = api.rv + 1 /\ watch' = watch \cup {api'})
    BY <1>3, <1>4, WriteEffect DEF TypeInv, TypeOK
  <1>6. UNCHANGED <<cache, env, world, local, counts>>
    BY DEF Edit
  <1>7. Same(api', api)
    BY <1>3, <1>5 DEF Same
  <1> QED BY <1>3, <1>5, <1>6, <1>7
          DEF Sends, TypeInv, TypeOK, QueueInv, world, local, counts

LEMMA DeleteCREffect ==
    ASSUME TypeInv, DeleteCR
    PROVE  /\ TypeInv' /\ Sends /\ UNCHANGED <<env, world, local, counts>>
           /\ ~api.deleting /\ Same(api', api)
           /\ api'.exists = api.fin /\ api'.fin = api.fin /\ api'.deleting
  <1> DEFINE o == Deleted(api)
  <1>1. /\ o \in Human /\ Same(o, api) /\ o.exists = api.fin /\ o.fin = api.fin /\ o.deleting
    BY DeletedTypes DEF TypeInv, TypeOK
  <1>2. Write(o) /\ ~api.deleting /\ UNCHANGED <<cache, env, world, local, counts>>
    BY DEF DeleteCR
  <1> HIDE DEF o
  <1>3. /\ api' \in Human /\ watch' \subseteq Human
        /\ api'.exists = o.exists /\ api'.fin = o.fin /\ api'.deleting = o.deleting
        /\ Same(api', o)
        /\ UNCHANGED <<api, watch>> \/ (api'.rv = api.rv + 1 /\ watch' = watch \cup {api'})
    BY <1>1, <1>2, WriteEffect DEF TypeInv, TypeOK
  <1>4. Same(api', api)
    BY <1>1, <1>3 DEF Same
  <1> QED BY <1>1, <1>2, <1>3, <1>4
          DEF Sends, TypeInv, TypeOK, QueueInv, world, local, counts

\* The user, the owners of the rooms and the admin bot leave the CR alone.
LEMMA UserRotatesEffect ==
    ASSUME TypeInv, UserRotates
    PROVE  /\ TypeInv' /\ UNCHANGED <<kube, env, botq, mem, up, sweep, local, faults>>
           /\ acct # 0 /\ acct = api.pw /\ acct' # 0
  <1>1. made' = made + 1 /\ acct' = made + 1 /\ made \in Nat /\ made + 1 \in 0 .. MaxPw
    BY HumanAssumption DEF UserRotates, TypeInv, TypeOK
  <1>2. UNCHANGED <<kube, env, botq, mem, up, left, sweep, row, shown, local, lives, faults>>
    BY DEF UserRotates
  <1>3. Rising(botq, made)'
    BY <1>1, <1>2, RisingMore DEF TypeInv, TypeOK, QueueInv
  <1>4. acct # 0 /\ acct = api.pw /\ acct' # 0 /\ (acct <= made)'
    BY <1>1 DEF UserRotates
  <1> QED BY <1>1, <1>2, <1>3, <1>4 DEF TypeInv, TypeOK, QueueInv, kube, local

LEMMA PublishEffect ==
    ASSUME TypeInv, NEW r \in Rooms, Publish(r)
    PROVE  /\ TypeInv' /\ UNCHANGED <<kube, env, acct, botq, sweep, local, counts>>
           /\ r \notin up /\ up \subseteq up' /\ \A x \in Rooms : x # r => mem'[x] = mem[x]
  BY DEF Publish, TypeInv, TypeOK, QueueInv, kube, local, counts

LEMMA AdminLeavesEffect ==
    ASSUME TypeInv, NEW r \in Rooms, AdminLeaves(r)
    PROVE  TypeInv' /\ UNCHANGED <<kube, env, acct, botq, mem, up, sweep, local, counts>>
  BY DEF AdminLeaves, TypeInv, TypeOK, QueueInv, kube, local, counts

LEMMA ReadMembersEffect ==
    ASSUME TypeInv, NEW r \in Rooms, ReadMembers(r)
    PROVE  /\ TypeInv' /\ UNCHANGED <<kube, env, acct, botq, mem, up, local, counts>>
           /\ r \in env.swept /\ \A x \in Rooms : x # r => sweep'[x] = sweep[x]
  BY DEF ReadMembers, TypeInv, TypeOK, QueueInv, kube, local, counts

LEMMA SetMembersEffect ==
    ASSUME TypeInv, NEW r \in Rooms, SetMembers(r)
    PROVE  /\ TypeInv' /\ UNCHANGED <<kube, env, acct, botq, up, local, counts>>
           /\ sweep[r] # "idle"
           /\ \A x \in Rooms : sweep'[x] # "idle" => sweep'[x] = sweep[x]
           /\ \A x \in Rooms : mem[x] = "joined" /\ (x = r => r \in env.listed)
                                 => mem'[x] = "joined"
  BY DEF SetMembers, TypeInv, TypeOK, QueueInv, kube, local, counts

LEMMA BotRunsEffect ==
    ASSUME TypeInv, BotRuns
    PROVE  /\ TypeInv' /\ UNCHANGED <<kube, env, up, sweep, local, counts>>
           /\ botq # <<>> /\ (acct' = acct \/ acct' # 0)
           /\ acct' # acct => /\ Resets(botq) # {}
                              /\ \A i \in Resets(botq') : acct' < botq'[i].pw
           /\ Resets(botq) = {} => Resets(botq') = {}
           /\ Len(botq) \in Resets(botq) /\ botq' # <<>> => Len(botq') \in Resets(botq')
           /\ Len(botq) \in Resets(botq) /\ botq' = <<>> => Head(botq).op = "reset"
           /\ Head(botq).op = "reset" => acct' = Head(botq).pw
  <1> DEFINE c == Head(botq)
  <1>1. /\ botq \in Seq(Command) /\ made \in Nat /\ botq # <<>> /\ botq' = Tail(botq)
        /\ made \in 0 .. MaxPw
    BY HumanAssumption DEF BotRuns, TypeInv, TypeOK
  <1>2. /\ botq' \in Seq(Command) /\ Rising(botq', made) /\ c \in Command
        /\ c.op = "reset" => c.pw \in 1 .. made /\ \A i \in Resets(botq') : c.pw < botq'[i].pw
        /\ Resets(botq) = {} => Resets(botq') = {} /\ c.op # "reset"
        /\ Len(botq) \in Resets(botq) /\ botq' # <<>> => Len(botq') \in Resets(botq')
        /\ Len(botq) \in Resets(botq) /\ botq' = <<>> => c.op = "reset"
    BY <1>1, HeadTaken DEF TypeInv, QueueInv
  <1>3. UNCHANGED <<kube, env, shown, up, left, sweep, row, local, counts>>
    BY DEF BotRuns
  <1>4. CASE c.op = "reset"
    <2>1. acct' = c.pw /\ mem' = mem
      BY <1>4 DEF BotRuns
    <2>2. acct' # 0 /\ acct' \in 0 .. MaxPw /\ acct' <= made
      BY <1>1, <1>2, <1>4, <2>1, HumanAssumption
    <2>3. TypeInv'
      BY <1>1, <1>2, <1>3, <2>1, <2>2 DEF TypeInv, TypeOK, QueueInv, kube, local, counts
    <2>4. acct' # acct => Resets(botq) # {}
      BY <1>2, <1>4
    <2> QED BY <1>1, <1>2, <1>3, <1>4, <2>1, <2>2, <2>3, <2>4 DEF kube, local, counts
  <1>5. CASE c.op # "reset"
    <2>1. acct' = acct /\ mem' = [mem EXCEPT ![c.room] = "out"]
      BY <1>5 DEF BotRuns
    <2>2. mem' \in [Rooms -> {"out", "invited", "joined"}]
      BY <2>1 DEF TypeInv, TypeOK
    <2>3. acct' <= made /\ acct' \in 0 .. MaxPw
      BY <2>1 DEF TypeInv, TypeOK, QueueInv
    <2>4. TypeInv'
      BY <1>1, <1>2, <1>3, <2>2, <2>3 DEF TypeInv, TypeOK, QueueInv, kube, local, counts
    <2> QED BY <1>1, <1>2, <1>3, <1>5, <2>1, <2>4 DEF kube, local, counts
  <1> QED BY <1>4, <1>5

LEMMA FinishTypes ==
    ASSUME Finish
    PROVE  /\ pc' = "idle" /\ pc' \in PCs /\ w' \in Human /\ base' \in Human /\ tok' \in BOOLEAN
           /\ desired' = {} /\ todo' = {} /\ cur' \in Rooms \cup {NoRoom}
  BY NilType DEF Finish, PCs

LEMMA CrashEffect ==
    ASSUME TypeInv, Crash
    PROVE  /\ TypeInv' /\ UNCHANGED <<api, env, world, made, lives>>
           /\ cache' = api /\ watch' = {} /\ pc' = "idle" /\ "crash" \in env.faults
           /\ desired' = {}
  <1>1. Fault("crash") /\ faults \in 0 .. MaxFaults
    BY DEF Crash, TypeInv, TypeOK
  <1>2. faults' \in 0 .. MaxFaults /\ "crash" \in env.faults
    BY <1>1, FaultType
  <1> QED BY <1>2, FinishTypes DEF Crash, Relist, TypeInv, TypeOK, QueueInv, world

LEMMA BeginEffect ==
    ASSUME TypeInv, Begin
    PROVE  /\ TypeInv' /\ UNCHANGED <<kube, env, world, desired, todo, cur, counts>>
           /\ env.lag # "none" \/ watch = {}
           /\ env.lag = "account" => (api.id => cache.id)
           /\ cache.exists /\ w' = cache /\ base' = cache
           /\ \/ pc' = "leave" /\ cache.deleting /\ cache.fin
              \/ pc' = "infra" /\ ~cache.deleting /\ cache.fin
              \/ pc' = "finalizer" /\ ~cache.deleting /\ ~cache.fin
  <1>1. \/ pc' = "leave" /\ cache.deleting /\ cache.fin
        \/ pc' = "infra" /\ ~cache.deleting /\ cache.fin
        \/ pc' = "finalizer" /\ ~cache.deleting /\ ~cache.fin
    BY DEF Begin
  <1>2. pc' \in PCs /\ pc' # "join"
    BY <1>1 DEF PCs
  <1> QED BY <1>1, <1>2 DEF Begin, TypeInv, TypeOK, QueueInv, kube, world, counts

LEMMA AddFinalizerEffect ==
    ASSUME TypeInv, AddFinalizer
    PROVE  /\ pc = "finalizer" /\ TypeInv' /\ Sends
           /\ UNCHANGED <<env, world, base, desired, todo, cur, made>>
           /\ \/ /\ UpdateAccepted(w) /\ w' = api' /\ pc' = "infra"
                 /\ Same(api', api) /\ api'.fin
                 /\ api'.exists = api.exists /\ api'.deleting = api.deleting
              \/ UNCHANGED <<api, watch>> /\ pc' = "patch" /\ Noted(w', w)
  <1>1. w \in Human /\ faults \in 0 .. MaxFaults
    BY DEF TypeInv, TypeOK
  <1>2. UNCHANGED <<cache, env, world, made, lives, base, tok, desired, todo, cur>>
    BY DEF AddFinalizer
  <1>3. faults' = faults \/ Fault("api")
    BY DEF AddFinalizer
  <1>4. faults' \in 0 .. MaxFaults
    BY <1>1, <1>3, FaultType
  <1>5. CASE w' = api'
    <2> DEFINE o == [api EXCEPT !.fin = TRUE]
    <2>1. /\ o \in Human /\ Same(o, api) /\ o.fin
          /\ o.exists = api.exists /\ o.deleting = api.deleting
      BY FinTypes DEF TypeInv, TypeOK
    <2> SUFFICES ASSUME UpdateAccepted(w), Write(o), pc' = "infra", pc = "finalizer"
                 PROVE  TypeInv' /\ Sends /\ Same(api', api) /\ api'.fin
                        /\ api'.exists = api.exists /\ api'.deleting = api.deleting
      <3>1. \/ UpdateAccepted(w) /\ Write(o) /\ w' = api' /\ pc' = "infra"
            \/ UNCHANGED <<api, watch>> /\ pc' = "patch"
               /\ w' = [w EXCEPT !.phase = PhaseAfterError(w)]
        BY DEF AddFinalizer
      <3> HIDE DEF o
      <3> QED BY <1>1, <1>2, <1>4, <3>1, ErrorNoted
              DEF AddFinalizer, PCs, Noted, Sends, TypeInv, TypeOK, QueueInv, world
    <2> HIDE DEF o
    <2>2. /\ api' \in Human /\ watch' \subseteq Human
          /\ api'.exists = o.exists /\ api'.fin = o.fin /\ api'.deleting = o.deleting
          /\ Same(api', o)
          /\ UNCHANGED <<api, watch>> \/ (api'.rv = api.rv + 1 /\ watch' = watch \cup {api'})
      BY <2>1, WriteEffect DEF TypeInv, TypeOK
    <2>3. Same(api', api)
      BY <2>1, <2>2 DEF Same
    <2> QED BY <1>2, <1>4, <1>5, <2>1, <2>2, <2>3
            DEF PCs, Sends, TypeInv, TypeOK, QueueInv, world
  <1>6. CASE w' # api'
    <2>1. UNCHANGED <<api, watch>> /\ pc' = "patch" /\ w' = [w EXCEPT !.phase = PhaseAfterError(w)]
          /\ pc = "finalizer"
      BY <1>6 DEF AddFinalizer
    <2>2. Noted(w', w)
      BY <1>1, <2>1, ErrorNoted
    <2> QED BY <1>2, <1>4, <2>1, <2>2
            DEF PCs, Noted, Sends, TypeInv, TypeOK, QueueInv, world
  <1> QED BY <1>2, <1>5, <1>6 DEF AddFinalizer

\* The four ways of reconcileHumanInfra: the account is there, it is
\* registered, nothing is known of it, or a new password is asked for.
HasAccount ==
    w.id /\ pc' = "name" /\ UNCHANGED <<acct, botq, made, w>>

Registers ==
    /\ ~w.id /\ acct = 0 /\ acct' # 0 /\ botq' = botq /\ pc' = "name"
    /\ w'.id /\ w'.pw # 0 /\ w'.rooms = w.rooms /\ w'.rv = w.rv

GivesUp ==
    /\ pc' = "patch" /\ Noted(w', w) /\ botq' = botq
    /\ acct' = acct \/ (acct = 0 /\ acct' # 0)

AsksReset ==
    /\ ~w.id /\ acct # 0 /\ acct' = acct /\ pc' = "recover"
    /\ w'.pw = made' /\ w'.pw # 0 /\ acct < made'
    /\ w'.id = w.id /\ w'.rooms = w.rooms /\ w'.rv = w.rv
    /\ botq' # <<>> /\ Len(botq') \in Resets(botq')

LEMMA InfraEffect ==
    ASSUME TypeInv, Infra
    PROVE  /\ pc = "infra" /\ TypeInv'
           /\ UNCHANGED <<kube, env, mem, up, sweep, base, desired, todo, cur>>
           /\ HasAccount \/ Registers \/ GivesUp \/ AsksReset
  <1>1. /\ w \in Human /\ faults \in 0 .. MaxFaults /\ made \in 0 .. MaxPw /\ made \in Nat
        /\ botq \in Seq(Command) /\ Rising(botq, made) /\ acct \in 0 .. MaxPw /\ acct <= made
    BY HumanAssumption DEF TypeInv, TypeOK, QueueInv
  <1>2. /\ UNCHANGED <<kube, env, shown, mem, up, left, sweep, row, base, desired, todo, cur, lives>>
        /\ pc = "infra"
    BY DEF Infra
  <1>3. faults' = faults \/ Fault("matrix") \/ Fault("bot")
    BY DEF Infra
  <1>4. faults' \in 0 .. MaxFaults
    BY <1>1, <1>3, FaultType
  <1>5. CASE w.id /\ pc' = "name" /\ UNCHANGED <<acct, botq, made, w, tok>>
    BY <1>1, <1>2, <1>4, <1>5
       DEF HasAccount, PCs, TypeInv, TypeOK, QueueInv, kube
  <1>6. ASSUME ~w.id, made < MaxPw, made' = made + 1
        PROVE  /\ made' \in 0 .. MaxPw /\ made' # 0 /\ made' \in Nat
               /\ Rising(botq, made') /\ acct <= made' /\ acct < made'
               /\ acct' = made + 1 => acct' \in 0 .. MaxPw /\ acct' # 0 /\ acct' <= made'
    <2>1. Rising(botq, made + 1)
      BY <1>1, RisingMore
    <2> QED BY <1>1, <1>6, <2>1, HumanAssumption
  <1>7. CASE /\ ~w.id /\ made < MaxPw /\ made' = made + 1
             /\ acct = 0 /\ acct' = made + 1 /\ botq' = botq
             /\ w' = Provisioned(w, made + 1) /\ tok' = TRUE /\ pc' = "name"
    <2>1. w' \in Human /\ w'.id /\ w'.pw = made' /\ w'.rooms = w.rooms /\ w'.rv = w.rv
      BY <1>1, <1>6, <1>7, ProvisionedTypes
    <2> QED BY <1>1, <1>2, <1>4, <1>6, <1>7, <2>1
            DEF Registers, PCs, TypeInv, TypeOK, QueueInv, kube
  <1>8. CASE /\ ~w.id /\ made < MaxPw /\ made' = made + 1
             /\ (acct' = acct \/ (acct = 0 /\ acct' = made + 1)) /\ botq' = botq
             /\ w' = [w EXCEPT !.phase = PhaseAfterError(w)] /\ pc' = "patch" /\ UNCHANGED tok
    <2>1. Noted(w', w)
      BY <1>1, <1>8, ErrorNoted
    <2> QED BY <1>1, <1>2, <1>4, <1>6, <1>8, <2>1
            DEF GivesUp, Noted, PCs, TypeInv, TypeOK, QueueInv, kube
  <1>9. CASE /\ ~w.id /\ made < MaxPw /\ made' = made + 1 /\ acct # 0
             /\ botq' = Append(botq, [op |-> "reset", pw |-> made + 1])
             /\ w' = [w EXCEPT !.pw = made + 1] /\ pc' = "recover"
             /\ UNCHANGED <<acct, tok, faults>>
    <2>1. /\ botq' \in Seq(Command) /\ Rising(botq', made') /\ botq' # <<>>
          /\ Len(botq') \in Resets(botq')
      BY <1>1, <1>9, ResetQueued
    <2>2. w' \in Human /\ w'.id = w.id /\ w'.pw = made' /\ w'.rooms = w.rooms /\ w'.rv = w.rv
      BY <1>1, <1>6, <1>9, PwTypes
    <2> QED BY <1>1, <1>2, <1>4, <1>6, <1>9, <2>1, <2>2
            DEF AsksReset, PCs, TypeInv, TypeOK, QueueInv, kube
  <1> QED BY <1>2, <1>5, <1>7, <1>8, <1>9 DEF Infra

LEMMA RecoverEffect ==
    ASSUME TypeInv, Recover
    PROVE  /\ pc = "recover" /\ TypeInv'
           /\ UNCHANGED <<kube, env, world, base, desired, todo, cur, made>>
           /\ w'.id = w.id \/ w'.id
           /\ w'.rooms = w.rooms /\ w'.rv = w.rv
           /\ \/ pc' = "name" /\ acct = w.pw /\ w'.id /\ w'.pw = w.pw
              \/ pc' = "patch" /\ w'.id = w.id /\ w'.pw = base.pw
  <1>1. w \in Human /\ faults \in 0 .. MaxFaults /\ w.pw \in Nat /\ base.pw \in Nat
    BY DEF TypeInv, TypeOK, Human
  <1>2. UNCHANGED <<kube, env, world, base, desired, todo, cur, made, lives>> /\ pc = "recover"
    BY DEF Recover
  <1>3. faults' = faults \/ Fault("slow")
    BY DEF Recover
  <1>4. faults' \in 0 .. MaxFaults
    BY <1>1, <1>3, FaultType
  <1>5. CASE acct = w.pw /\ w' = Provisioned(w, w.pw) /\ tok' = TRUE /\ pc' = "name"
    <2>1. w' \in Human /\ w'.id /\ w'.pw = w.pw /\ w'.rooms = w.rooms /\ w'.rv = w.rv
      BY <1>1, <1>5, ProvisionedTypes
    <2> QED BY <1>2, <1>4, <1>5, <2>1
            DEF PCs, TypeInv, TypeOK, QueueInv, kube, world
  <1>6. CASE /\ w' = [w EXCEPT !.pw = base.pw, !.phase = PhaseAfterError(w)]
             /\ pc' = "patch" /\ UNCHANGED tok
    <2> DEFINE f == PhaseAfterError(w)
               p == base.pw
               v == [w EXCEPT !.pw = p]
    <2>1. f \in Phases /\ p \in Nat /\ w' = [v EXCEPT !.phase = f]
      BY <1>1, <1>6, ErrorPhase
    <2> HIDE DEF f, p
    <2>2. v \in Human /\ v.id = w.id /\ v.pw = p /\ v.rooms = w.rooms /\ v.rv = w.rv
      BY <1>1, <2>1, PwTypes
    <2> HIDE DEF v
    <2>3. Noted(w', v)
      BY <2>1, <2>2, PhaseNoted
    <2> QED BY <1>2, <1>4, <1>6, <2>2, <2>3
            DEF p, Noted, Same, PCs, TypeInv, TypeOK, QueueInv, kube, world
  <1> QED BY <1>5, <1>6 DEF Recover

LEMMA SyncNameEffect ==
    ASSUME TypeInv, SyncName
    PROVE  /\ pc = "name" /\ pc' = "invite" /\ TypeInv'
           /\ UNCHANGED <<kube, env, acct, botq, mem, up, sweep, base, cur, made>>
           /\ Noted(w', w) /\ todo' \subseteq up
  <1>1. /\ w \in Human /\ faults \in 0 .. MaxFaults /\ w.access \subseteq Rooms
        /\ shown \in Nat /\ w.gen \in Nat /\ up \subseteq Rooms
    BY DEF TypeInv, TypeOK, Human
  <1>2. /\ UNCHANGED <<kube, env, acct, botq, mem, up, left, sweep, row, base, cur, made, lives>>
        /\ pc = "name" /\ pc' = "invite"
        /\ desired' = w.access \cap up /\ todo' = desired' \ w.rooms
    BY DEF SyncName, ReadRooms
  <1>3. faults' = faults \/ Fault("matrix")
    BY DEF SyncName
  <1>4. faults' \in 0 .. MaxFaults
    BY <1>1, <1>3, FaultType
  <1>5. \/ UNCHANGED <<shown, w, tok>>
        \/ shown' = w.gen /\ w' = [w EXCEPT !.synced = w.gen] /\ tok' = TRUE
    BY DEF SyncName
  <1>6. Noted(w', w) /\ shown' \in Nat /\ tok' \in BOOLEAN
    <2>1. Noted(w, w)
      BY <1>1 DEF Noted, Same
    <2>2. Noted([w EXCEPT !.synced = w.gen], w)
      BY <1>1, SyncedNoted
    <2> QED BY <1>1, <1>5, <2>1, <2>2 DEF TypeInv, TypeOK
  <1> QED BY <1>1, <1>2, <1>4, <1>6
          DEF Noted, PCs, TypeInv, TypeOK, QueueInv, kube

LEMMA InviteEffect ==
    ASSUME TypeInv, Invite
    PROVE  /\ pc = "invite" /\ pc' \in {"invite", "join", "kick"} /\ TypeInv'
           /\ UNCHANGED <<kube, env, acct, botq, up, sweep, w, base, desired, made>>
           /\ \A x \in Rooms : mem[x] = "joined" => mem'[x] = "joined"
           /\ pc' # "kick" => todo' \subseteq todo
           /\ pc' = "join" => cur' \in todo
  <1>1. faults' = faults \/ Fault("matrix")
    BY DEF Invite
  <1>2. faults' \in 0 .. MaxFaults
    BY <1>1, FaultType DEF TypeInv, TypeOK
  <1>3. todo \subseteq Rooms /\ w.rooms \subseteq Rooms /\ mem \in [Rooms -> {"out", "invited", "joined"}]
    BY DEF TypeInv, TypeOK, Human
  <1>4. \/ \E r \in todo : /\ todo' = todo \ {r} /\ cur' = r /\ pc' = "join"
                           /\ mem' = [mem EXCEPT ![r] = IF @ = "out" THEN "invited" ELSE @]
        \/ \E r \in todo : todo' = todo \ {r} /\ UNCHANGED <<mem, cur, pc>>
        \/ todo' = w.rooms \ desired /\ pc' = "kick" /\ UNCHANGED <<mem, cur>>
    BY DEF Invite
  <1>5. /\ UNCHANGED <<kube, env, acct, shown, botq, up, left, sweep, row, w, base, tok, desired, made, lives>>
        /\ pc = "invite"
    BY DEF Invite
  <1>6. mem' \in [Rooms -> {"out", "invited", "joined"}] /\ todo' \subseteq Rooms
        /\ cur' \in Rooms \cup {NoRoom} /\ (pc' = "join" => cur' \in Rooms)
    BY <1>3, <1>4, <1>5 DEF TypeInv, TypeOK
  <1>7. \A x \in Rooms : mem[x] = "joined" => mem'[x] = "joined"
    BY <1>3, <1>4
  <1> QED BY <1>2, <1>4, <1>5, <1>6, <1>7 DEF PCs, TypeInv, TypeOK, QueueInv, kube

LEMMA JoinEffect ==
    ASSUME TypeInv, Join
    PROVE  /\ pc = "join" /\ pc' = "invite" /\ TypeInv'
           /\ UNCHANGED <<kube, env, acct, botq, up, sweep, base, desired, todo, made>>
           /\ \/ UNCHANGED <<mem, w>>
              \/ /\ w'.rooms = w.rooms \cup {cur}
                 /\ w'.id = w.id /\ w'.pw = w.pw /\ w'.rv = w.rv
                 /\ mem'[cur] = "joined" /\ \A x \in Rooms : x # cur => mem'[x] = mem[x]
  <1>1. faults' = faults \/ Fault("join")
    BY DEF Join
  <1>2. faults' \in 0 .. MaxFaults
    BY <1>1, FaultType DEF TypeInv, TypeOK
  <1>3. /\ UNCHANGED <<kube, env, acct, shown, botq, up, left, sweep, row, base, desired, todo, made, lives>>
        /\ pc = "join" /\ pc' = "invite" /\ cur' = NoRoom
    BY DEF Join
  <1>4. tok' \in BOOLEAN
    BY DEF Join, TypeInv, TypeOK
  <1>5. CASE UNCHANGED <<mem, w>>
    BY <1>2, <1>3, <1>4, <1>5 DEF PCs, TypeInv, TypeOK, QueueInv, kube
  <1>6. CASE /\ mem' = [mem EXCEPT ![cur] = "joined"]
             /\ w' = [w EXCEPT !.rooms = @ \cup {cur}]
    <2>1. cur \in Rooms /\ w \in Human /\ w.rooms \cup {cur} \in SUBSET Rooms
      BY <1>3 DEF TypeInv, TypeOK, Human
    <2>2. w' \in Human /\ w'.id = w.id /\ w'.pw = w.pw /\ w'.rooms = w.rooms \cup {cur} /\ w'.rv = w.rv
      BY <1>6, <2>1, RoomsTypes
    <2>3. /\ mem' \in [Rooms -> {"out", "invited", "joined"}]
          /\ mem'[cur] = "joined" /\ \A x \in Rooms : x # cur => mem'[x] = mem[x]
      BY <1>6, <2>1 DEF TypeInv, TypeOK
    <2> QED BY <1>2, <1>3, <1>4, <2>2, <2>3 DEF PCs, TypeInv, TypeOK, QueueInv, kube
  <1> QED BY <1>5, <1>6 DEF Join

LEMMA KickEffect ==
    ASSUME TypeInv, Kick
    PROVE  /\ pc = "kick" /\ pc' \in {"kick", "patch"} /\ TypeInv'
           /\ UNCHANGED <<kube, env, acct, botq, up, sweep, base, desired, cur, made>>
           /\ w'.id = w.id /\ w'.pw = w.pw /\ w'.rv = w.rv /\ w'.rooms \subseteq w.rooms
           /\ \A x \in w'.rooms : mem'[x] = mem[x]
  <1>1. faults' = faults \/ Fault("matrix") \/ Fault("api")
    BY DEF Kick, Legacy
  <1>2. faults' \in 0 .. MaxFaults
    BY <1>1, FaultType DEF TypeInv, TypeOK
  <1>3. /\ UNCHANGED <<kube, env, acct, shown, botq, up, left, sweep, base, tok, desired, cur, made, lives>>
        /\ pc = "kick"
    BY DEF Kick
  <1>4. w \in Human /\ w.rooms \subseteq Rooms /\ todo \subseteq Rooms
    BY DEF TypeInv, TypeOK, Human
  <1>5. row' \in BOOLEAN
    BY DEF Kick, Legacy, TypeInv, TypeOK
  <1>6. CASE \E r \in todo : /\ todo' = todo \ {r} /\ UNCHANGED <<row, pc>>
                             /\ \/ /\ mem' = [mem EXCEPT ![r] = "out"]
                                   /\ w' = [w EXCEPT !.rooms = @ \ {r}]
                                \/ mem' = mem /\ w' = [w EXCEPT !.rooms = @ \ {r}]
                                \/ UNCHANGED <<mem, w>>
    <2>1. PICK r \in todo : /\ todo' = todo \ {r} /\ UNCHANGED <<row, pc>>
                            /\ \/ /\ mem' = [mem EXCEPT ![r] = "out"]
                                  /\ w' = [w EXCEPT !.rooms = @ \ {r}]
                               \/ mem' = mem /\ w' = [w EXCEPT !.rooms = @ \ {r}]
                               \/ UNCHANGED <<mem, w>>
      BY <1>6
    <2>2. CASE /\ mem' = [mem EXCEPT ![r] = "out"] \/ mem' = mem
               /\ w' = [w EXCEPT !.rooms = @ \ {r}]
      <3>1. w.rooms \ {r} \in SUBSET Rooms
        BY <1>4
      <3>2. w' \in Human /\ w'.id = w.id /\ w'.pw = w.pw /\ w'.rooms = w.rooms \ {r} /\ w'.rv = w.rv
        BY <1>4, <2>2, <3>1, RoomsTypes
      <3>3. /\ mem' \in [Rooms -> {"out", "invited", "joined"}]
            /\ \A x \in Rooms : x # r => mem'[x] = mem[x]
        BY <2>2 DEF TypeInv, TypeOK
      <3>4. \A x \in w'.rooms : x \in Rooms /\ x # r
        BY <1>4, <3>2
      <3> QED BY <1>2, <1>3, <1>4, <1>5, <2>1, <3>2, <3>3, <3>4
              DEF PCs, TypeInv, TypeOK, QueueInv, kube
    <2>3. CASE UNCHANGED <<mem, w>>
      BY <1>2, <1>3, <1>4, <1>5, <2>1, <2>3 DEF PCs, TypeInv, TypeOK, QueueInv, kube
    <2> QED BY <2>1, <2>2, <2>3
  <1>7. CASE Legacy
    <2> DEFINE p == IF w.id THEN "Active" ELSE "Pending"
    <2>1. pc' = "patch" /\ w' = [w EXCEPT !.phase = p] /\ UNCHANGED <<mem, todo>>
      BY <1>7 DEF Legacy
    <2>2. p \in Phases
      BY DEF Phases
    <2> HIDE DEF p
    <2>3. Noted(w', w)
      BY <1>4, <2>1, <2>2, PhaseNoted
    <2> QED BY <1>2, <1>3, <1>5, <2>1, <2>3
            DEF Noted, Same, PCs, TypeInv, TypeOK, QueueInv, kube
  <1> QED BY <1>6, <1>7 DEF Kick

LEMMA PatchStatusEffect ==
    ASSUME TypeInv, PatchStatus
    PROVE  /\ pc = "patch" /\ pc' = "idle" /\ TypeInv' /\ Sends
           /\ UNCHANGED <<env, world, made>> /\ desired' = {}
           /\ api'.exists = api.exists /\ api'.fin = api.fin /\ api'.deleting = api.deleting
           /\ \/ /\ PatchAccepted(w, base)
                 /\ api'.id = Merged(api.id, base.id, w.id)
                 /\ api'.pw = Merged(api.pw, base.pw, w.pw)
                 /\ api'.rooms = Merged(api.rooms, base.rooms, w.rooms)
              \/ UNCHANGED <<api, watch>> /\ (PatchAccepted(w, base) => "api" \in env.faults)
  <1>1. faults' = faults \/ Fault("api")
    BY DEF PatchStatus
  <1>2. faults' \in 0 .. MaxFaults
    BY <1>1, FaultType DEF TypeInv, TypeOK
  <1>3. UNCHANGED <<cache, env, world, made, lives>> /\ pc = "patch" /\ Finish
    BY DEF PatchStatus
  <1>4. CASE UNCHANGED <<api, watch>> /\ (PatchAccepted(w, base) => Fault("api"))
    BY <1>2, <1>3, <1>4, FinishTypes DEF Fault, Sends, TypeInv, TypeOK, QueueInv, world
  <1>5. CASE PatchAccepted(w, base) /\ Write(Merge(api, base, w))
    <2> DEFINE o == Merge(api, base, w)
    <2>1. /\ o \in Human
          /\ o.exists = api.exists /\ o.fin = api.fin /\ o.deleting = api.deleting
          /\ o.id = Merged(api.id, base.id, w.id) /\ o.pw = Merged(api.pw, base.pw, w.pw)
          /\ o.rooms = Merged(api.rooms, base.rooms, w.rooms)
      BY MergeTypes DEF TypeInv, TypeOK
    <2> HIDE DEF o
    <2>2. Write(o)
      BY <1>5 DEF o
    <2>3. /\ api' \in Human /\ watch' \subseteq Human
          /\ api'.exists = o.exists /\ api'.fin = o.fin /\ api'.deleting = o.deleting
          /\ Same(api', o)
          /\ UNCHANGED <<api, watch>> \/ (api'.rv = api.rv + 1 /\ watch' = watch \cup {api'})
      BY <2>1, <2>2, WriteEffect DEF TypeInv, TypeOK
    <2> QED BY <1>2, <1>3, <1>5, <2>1, <2>3, FinishTypes
            DEF Same, Sends, TypeInv, TypeOK, QueueInv, world
  <1> QED BY <1>4, <1>5 DEF PatchStatus

LEMMA LeaveRoomsEffect ==
    ASSUME TypeInv, LeaveRooms
    PROVE  /\ pc = "leave" /\ pc' = "unfinalize" /\ TypeInv'
           /\ UNCHANGED <<kube, env, acct, mem, up, sweep, w, base, desired, todo, cur, made>>
           /\ Resets(botq) = {} => Resets(botq') = {}
           /\ w.rooms = {} => botq' = botq
  <1>1. faults' = faults \/ Fault("bot") \/ Fault("api")
    BY DEF LeaveRooms
  <1>2. faults' \in 0 .. MaxFaults
    BY <1>1, FaultType DEF TypeInv, TypeOK
  <1>3. /\ UNCHANGED <<kube, env, acct, shown, mem, up, left, sweep, w, base, tok, desired, todo, cur,
                       made, lives>>
        /\ pc = "leave" /\ pc' = "unfinalize" /\ row' \in BOOLEAN
        /\ \E sent \in SUBSET w.rooms : botq' = botq \o Leaves(sent)
    BY DEF LeaveRooms, TypeInv, TypeOK
  <1>4. PICK sent \in SUBSET w.rooms : botq' = botq \o Leaves(sent)
    BY <1>3
  <1>5. /\ botq \in Seq(Command) /\ made \in Nat /\ Rising(botq, made)
        /\ sent \in SUBSET Rooms /\ (w.rooms = {} => sent = {})
    <2>1. w.rooms \subseteq Rooms
      BY DEF TypeInv, TypeOK, Human
    <2>2. made \in Nat /\ botq \in Seq(Command) /\ Rising(botq, made)
      BY HumanAssumption DEF TypeInv, TypeOK, QueueInv
    <2> QED BY <2>1, <2>2
  <1>6. /\ botq' \in Seq(Command) /\ Rising(botq', made)
        /\ Resets(botq) = {} => Resets(botq') = {}
        /\ w.rooms = {} => botq' = botq
    BY <1>4, <1>5, LeavesQueued
  <1> QED BY <1>2, <1>3, <1>6 DEF PCs, TypeInv, TypeOK, QueueInv, kube

LEMMA RemoveFinalizerEffect ==
    ASSUME TypeInv, RemoveFinalizer
    PROVE  /\ pc = "unfinalize" /\ pc' = "idle" /\ TypeInv' /\ Sends
           /\ UNCHANGED <<env, world, made>> /\ desired' = {}
           /\ \/ UNCHANGED <<api, watch>>
              \/ /\ Same(api', api) /\ ~api'.fin /\ api'.deleting = api.deleting
                 /\ api'.exists = ~api.deleting
  <1>1. faults' = faults \/ Fault("api")
    BY DEF RemoveFinalizer
  <1>2. faults' \in 0 .. MaxFaults
    BY <1>1, FaultType DEF TypeInv, TypeOK
  <1>3. UNCHANGED <<cache, env, world, made, lives>> /\ pc = "unfinalize" /\ Finish
    BY DEF RemoveFinalizer
  <1>4. CASE UNCHANGED <<api, watch>>
    BY <1>2, <1>3, <1>4, FinishTypes DEF Sends, TypeInv, TypeOK, QueueInv, world
  <1>5. CASE Write(Unfinalized(api))
    <2> DEFINE o == Unfinalized(api)
    <2>1. /\ o \in Human /\ Same(o, api) /\ ~o.fin /\ o.exists = ~api.deleting
          /\ o.deleting = api.deleting
      BY UnfinalizedTypes DEF TypeInv, TypeOK
    <2> HIDE DEF o
    <2>2. Write(o)
      BY <1>5 DEF o
    <2>3. /\ api' \in Human /\ watch' \subseteq Human
          /\ api'.exists = o.exists /\ api'.fin = o.fin /\ api'.deleting = o.deleting
          /\ Same(api', o)
          /\ UNCHANGED <<api, watch>> \/ (api'.rv = api.rv + 1 /\ watch' = watch \cup {api'})
      BY <2>1, <2>2, WriteEffect DEF TypeInv, TypeOK
    <2> QED BY <1>2, <1>3, <2>1, <2>3, FinishTypes
            DEF Same, Sends, TypeInv, TypeOK, QueueInv, world
  <1> QED BY <1>4, <1>5 DEF RemoveFinalizer

LEMMA NextTypes == ASSUME TypeInv, [Next]_vars PROVE TypeInv'
  <1>1. CASE UNCHANGED vars
    BY <1>1 DEF vars, TypeInv, TypeOK, QueueInv
  <1>2. CASE Next
    BY <1>2, DeliverEffect, CreateCREffect, EditEffect, DeleteCREffect, UserRotatesEffect,
       PublishEffect, AdminLeavesEffect, ReadMembersEffect, SetMembersEffect, BotRunsEffect,
       CrashEffect,
       BeginEffect, AddFinalizerEffect, InfraEffect, RecoverEffect, SyncNameEffect,
       InviteEffect, JoinEffect, KickEffect, PatchStatusEffect, LeaveRoomsEffect,
       RemoveFinalizerEffect
       DEF Next, Reconcile, Sweep
  <1> QED BY <1>1, <1>2

LEMMA Revisions ==
    ASSUME TypeInv
    PROVE  /\ api.rv \in Nat /\ cache.rv \in Nat /\ w.rv \in Nat /\ base.rv \in Nat
           /\ \A u \in watch : u.rv \in Nat
  <1>1. \A h \in Human : h.rv \in Nat
    BY Zenon DEF Human
  <1>2. api \in Human /\ cache \in Human /\ w \in Human /\ base \in Human /\ watch \subseteq Human
    BY DEF TypeInv, TypeOK
  <1> QED BY <1>1, <1>2

-----------------------------------------------------------------------------
(***************************************************************************)
(* The watch carries versions up to the current one, and whoever received  *)
(* all of them has the current one.                                        *)
(***************************************************************************)
WatchInv ==
    /\ \A u \in watch : u.rv < api.rv \/ u = api
    /\ watch # {} => api \in watch
    /\ watch = {} => cache = api

LEMMA SendsKeepsWatch == ASSUME TypeInv, WatchInv, Sends PROVE WatchInv'
  <1>1. CASE UNCHANGED <<api, watch>>
    BY <1>1 DEF WatchInv, Sends
  <1>2. CASE api'.rv = api.rv + 1 /\ watch' = watch \cup {api'}
    <2>1. api.rv \in Nat /\ \A u \in watch : u.rv \in Nat
      BY Revisions
    <2>2. \A u \in watch : u.rv < api'.rv
      <3> TAKE u \in watch
      <3>1. u.rv <= api.rv
        BY <2>1 DEF WatchInv
      <3> QED BY <1>2, <2>1, <3>1
    <2> QED BY <1>2, <2>2 DEF WatchInv
  <1> QED BY <1>1, <1>2 DEF Sends

LEMMA DeliverKeepsWatch == ASSUME TypeInv, WatchInv, Deliver PROVE WatchInv'
  <1>1. PICK v \in watch : cache' = v /\ watch' = {u \in watch : u.rv > v.rv}
    BY DeliverEffect
  <1>2. api' = api
    BY DeliverEffect
  <1>3. /\ api.rv \in Nat /\ v.rv \in Nat /\ v.rv <= api.rv
        /\ \A u \in watch : u.rv \in Nat /\ u.rv <= api.rv
    <2>1. api.rv \in Nat /\ \A u \in watch : u.rv \in Nat
      BY Revisions
    <2> QED BY <2>1 DEF WatchInv
  <1>4. CASE watch' = {}
    <2>1. ~(api.rv > v.rv)
      BY <1>1, <1>4 DEF WatchInv
    <2>2. v = api
      BY <1>1, <1>3, <2>1 DEF WatchInv
    <2> QED BY <1>1, <1>2, <1>4, <2>2 DEF WatchInv
  <1>5. CASE watch' # {}
    <2>1. PICK u \in watch : u.rv > v.rv
      BY <1>1, <1>5
    <2>2. api.rv > v.rv
      BY <1>3, <2>1
    <2>3. api \in watch'
      BY <1>1, <2>2 DEF WatchInv
    <2> QED BY <1>1, <1>2, <1>5, <2>3 DEF WatchInv
  <1> QED BY <1>4, <1>5

LEMMA WatchKept == ASSUME TypeInv, WatchInv, [Next]_vars PROVE WatchInv'
  <1>1. CASE UNCHANGED kube
    BY <1>1 DEF kube, WatchInv
  <1>2. CASE CreateCR \/ Edit \/ DeleteCR \/ AddFinalizer \/ PatchStatus \/ RemoveFinalizer
    BY <1>2, SendsKeepsWatch, CreateCREffect, EditEffect, DeleteCREffect, AddFinalizerEffect,
       PatchStatusEffect, RemoveFinalizerEffect
  <1>3. CASE Deliver
    BY <1>3, DeliverKeepsWatch
  <1>4. CASE Crash
    <2>1. api' = api /\ cache' = api /\ watch' = {}
      BY <1>4, CrashEffect
    <2> QED BY <2>1 DEF WatchInv
  <1>5. ASSUME UNCHANGED vars PROVE UNCHANGED kube
    BY <1>5 DEF vars, kube
  <1> QED BY <1>1, <1>2, <1>3, <1>4, <1>5, UserRotatesEffect,
             PublishEffect, AdminLeavesEffect, ReadMembersEffect, SetMembersEffect, BotRunsEffect,
             BeginEffect, InfraEffect, RecoverEffect, SyncNameEffect,
             InviteEffect, JoinEffect, KickEffect, LeaveRoomsEffect
             DEF Next, Reconcile, Sweep

-----------------------------------------------------------------------------
(***************************************************************************)
(* A pass works on rooms that are up, and only owners that set their       *)
(* members on every pass have a members list in their hands.               *)
(***************************************************************************)
PlacesInv ==
    /\ pc \in {"invite", "join"} => todo \subseteq up
    /\ pc = "join" => cur \in up
    /\ \A r \in Rooms : sweep[r] # "idle" => r \in env.swept

LEMMA PlacesKept == ASSUME TypeInv, PlacesInv, [Next]_vars PROVE PlacesInv'
  <1>1. CASE UNCHANGED <<env, sweep, up, pc, todo, cur>>
    BY <1>1 DEF PlacesInv
  <1>2. ASSUME NEW r \in Rooms, Publish(r) PROVE PlacesInv'
    <2>1. UNCHANGED <<env, sweep, local>> /\ up \subseteq up'
      BY <1>2, PublishEffect
    <2> QED BY <2>1 DEF PlacesInv, local
  <1>12. ASSUME NEW r \in Rooms, AdminLeaves(r) PROVE PlacesInv'
    <2>1. UNCHANGED <<env, sweep, up, local>>
      BY <1>12, AdminLeavesEffect
    <2> QED BY <1>1, <2>1 DEF local
  <1>3. ASSUME NEW r \in Rooms, Sweep(r) PROVE PlacesInv'
    <2>1. CASE ReadMembers(r)
      <3>1. UNCHANGED <<env, up, local>> /\ r \in env.swept
            /\ \A x \in Rooms : x # r => sweep'[x] = sweep[x]
        BY <2>1, ReadMembersEffect
      <3> QED BY <3>1 DEF PlacesInv, local
    <2>2. CASE SetMembers(r)
      <3>1. UNCHANGED <<env, up, local>> 
            /\ \A x \in Rooms : sweep'[x] # "idle" => sweep'[x] = sweep[x]
        BY <2>2, SetMembersEffect
      <3> QED BY <3>1 DEF PlacesInv, local
    <2> QED BY <1>3, <2>1, <2>2 DEF Sweep
  <1>4. CASE pc' \notin {"invite", "join"} /\ UNCHANGED <<env, sweep>>
    BY <1>4 DEF PlacesInv
  <1>5. CASE SyncName
    BY <1>5, SyncNameEffect DEF PlacesInv
  <1>6. CASE Invite
    <2>1. /\ pc = "invite" /\ UNCHANGED <<env, up, sweep>>
          /\ pc' # "kick" => todo' \subseteq todo
          /\ pc' = "join" => cur' \in todo
      BY <1>6, InviteEffect
    <2> QED BY <2>1 DEF PlacesInv
  <1>7. CASE Join
    <2>1. pc = "join" /\ pc' = "invite" /\ UNCHANGED <<env, up, sweep, todo>>
      BY <1>7, JoinEffect
    <2> QED BY <2>1 DEF PlacesInv
  <1>8. CASE Crash \/ PatchStatus \/ RemoveFinalizer
    BY <1>4, <1>8, CrashEffect, PatchStatusEffect, RemoveFinalizerEffect DEF world
  <1>9. CASE \/ Begin \/ AddFinalizer \/ Infra \/ Recover \/ Kick \/ LeaveRooms
    BY <1>4, <1>9, BeginEffect, AddFinalizerEffect, InfraEffect, RecoverEffect, KickEffect,
       LeaveRoomsEffect
       DEF world, HasAccount, Registers, GivesUp, AsksReset
  <1>10. CASE Deliver \/ CreateCR \/ Edit \/ DeleteCR \/ UserRotates \/ BotRuns
    BY <1>1, <1>10, DeliverEffect, CreateCREffect, EditEffect, DeleteCREffect,
       UserRotatesEffect, BotRunsEffect
       DEF world, local
  <1>11. ASSUME UNCHANGED vars PROVE UNCHANGED <<env, sweep, up, pc, todo, cur>>
    BY <1>11 DEF vars
  <1> QED BY <1>1, <1>2, <1>3, <1>5, <1>6, <1>7, <1>8, <1>9, <1>10, <1>11, <1>12
          DEF Next, Reconcile

-----------------------------------------------------------------------------
(***************************************************************************)
(* The account and its password, as long as passes start from the current  *)
(* CR.                                                                     *)
(***************************************************************************)
Running == {"name", "invite", "join", "kick"}

\* A recorded account is registered and no queued command touches it.
ApiInv ==
    /\ api.id <=> api.pw # 0
    /\ api.rooms # {} => api.id
    /\ api.rooms \subseteq up
    /\ api.exists /\ ~api.fin => ~api.id /\ ~api.deleting
    /\ api.id => acct # 0 /\ Resets(botq) = {}
    /\ Live /\ api.id => botq = <<>>
    /\ acct = 0 => botq = <<>>

\* Nobody but the pass writes the status it started from.
Held ==
    /\ api.exists /\ api.fin /\ Same(base, api)
    /\ base.rv # w.rv => api.rooms = {}
    /\ w.rooms \subseteq up

HoldsAccount == w.id /\ w.pw # 0 /\ acct # 0 /\ botq = <<>>

\* The newest command in the queue is the one that sets the password.
AwaitsReset ==
    /\ ~api.id /\ w.pw = made /\ w.pw # 0
    /\ acct = w.pw => botq = <<>>
    /\ botq # <<>> => Len(botq) \in Resets(botq)

PassInv ==
    /\ pc = "finalizer" => ~w.fin /\ w = base /\ w.rv <= api.rv /\ (w.rv = api.rv => w = api)
    /\ pc \in {"infra", "recover"} => Held /\ w.id = api.id /\ w.rooms = api.rooms
    /\ pc = "infra" => w.pw = api.pw /\ (api.id => botq = <<>>)
    /\ pc = "recover" => AwaitsReset
    /\ pc \in Running => Held /\ HoldsAccount
    /\ pc = "patch" => Same(w, base) \/ (Held /\ HoldsAccount)
    /\ pc \in {"leave", "unfinalize"} => api.exists /\ api.deleting /\ api.fin
    /\ pc = "leave" => w.rooms = api.rooms

Fresh == TypeInv /\ WatchInv /\ PlacesInv /\ ApiInv /\ PassInv /\ env.lag = "none"

\* The users' writes: a new CR has no account, and a finalizer keeps the old.
LEMMA CreateCRKeepsPw == ASSUME Fresh, CreateCR PROVE ApiInv' /\ PassInv'
  <1>1. /\ Sends /\ UNCHANGED <<env, world, local, made, faults>>
        /\ ~api.exists /\ api'.exists /\ ~api'.fin /\ ~api'.deleting
        /\ ~api'.id /\ api'.pw = 0 /\ api'.rooms = {}
    BY CreateCREffect DEF Fresh
  <1>2. api'.rv = api.rv + 1
    BY <1>1 DEF Sends
  <1>3. ApiInv'
    BY <1>1 DEF Fresh, ApiInv, Live, world
  <1>4. w.rv <= api.rv => w.rv <= api'.rv /\ w.rv # api'.rv
    BY <1>2, Revisions DEF Fresh
  <1>5. PassInv'
    BY <1>1, <1>4 DEF Fresh, PassInv, Held, Same, Running, local
  <1> QED BY <1>3, <1>5

LEMMA EditKeepsPw == ASSUME Fresh, Edit \/ DeleteCR PROVE ApiInv' /\ PassInv'
  <1>1. /\ Sends /\ UNCHANGED <<env, world, local, counts>> /\ Same(api', api)
        /\ api'.fin = api.fin
        /\ \/ api'.exists = api.exists /\ api'.deleting = api.deleting
           \/ ~api.deleting /\ api'.exists = api.fin /\ api'.deleting
    BY EditEffect, DeleteCREffect DEF Fresh
  <1>2. ApiInv'
    BY <1>1 DEF Fresh, ApiInv, Live, Same, world
  <1>3. w.rv <= api.rv => w.rv <= api'.rv /\ (w.rv = api'.rv => api' = api /\ w.rv = api.rv)
    BY <1>1, Revisions DEF Fresh, Sends
  <1>4. PassInv'
    BY <1>1, <1>3 DEF Fresh, PassInv, Held, HoldsAccount, AwaitsReset, Same, Running,
                      local, world, counts
  <1> QED BY <1>2, <1>4

\* The user needs the recorded password to change it.
LEMMA UserRotatesKeepsPw == ASSUME Fresh, UserRotates PROVE ApiInv' /\ PassInv'
  <1>1. /\ UNCHANGED <<kube, env, botq, mem, up, sweep, local, faults>>
        /\ acct # 0 /\ acct = api.pw /\ acct' # 0
    BY UserRotatesEffect DEF Fresh
  <1>2. api.id /\ pc # "recover"
    BY <1>1 DEF Fresh, ApiInv, PassInv, AwaitsReset
  <1>3. ApiInv'
    BY <1>1 DEF Fresh, ApiInv, Live, kube
  <1>4. PassInv'
    BY <1>1, <1>2 DEF Fresh, PassInv, Held, HoldsAccount, Same, Running, local, kube
  <1> QED BY <1>3, <1>4

LEMMA OwnerKeepsPw ==
    ASSUME Fresh, NEW r \in Rooms, Publish(r) \/ AdminLeaves(r) \/ Sweep(r)
    PROVE  ApiInv' /\ PassInv'
  <1>1. UNCHANGED <<kube, env, acct, botq, local, counts>> /\ up \subseteq up'
    BY PublishEffect, AdminLeavesEffect, ReadMembersEffect, SetMembersEffect DEF Fresh, Sweep
  <1>2. ApiInv'
    BY <1>1 DEF Fresh, ApiInv, Live, kube
  <1>3. PassInv'
    BY <1>1 DEF Fresh, PassInv, Held, HoldsAccount, AwaitsReset, Same, Running,
                local, kube, counts
  <1> QED BY <1>2, <1>3

\* The bot works on what an earlier pass or an earlier CR left.
LEMMA BotRunsKeepsPw == ASSUME Fresh, BotRuns PROVE ApiInv' /\ PassInv'
  <1>1. /\ UNCHANGED <<kube, env, up, sweep, local, counts>>
        /\ botq # <<>> /\ (acct' = acct \/ acct' # 0)
        /\ acct' # acct => /\ Resets(botq) # {}
                           /\ \A i \in Resets(botq') : acct' < botq'[i].pw
        /\ Resets(botq) = {} => Resets(botq') = {}
        /\ Len(botq) \in Resets(botq) /\ botq' # <<>> => Len(botq') \in Resets(botq')
    BY BotRunsEffect DEF Fresh
  <1>2. ApiInv'
    BY <1>1 DEF Fresh, ApiInv, Live, kube
  <1>3. ASSUME pc = "recover" PROVE AwaitsReset'
    <2>1. /\ acct # w.pw /\ Len(botq) \in Resets(botq) /\ w.pw = made
          /\ UNCHANGED <<api, w, made>> /\ ~api.id /\ w.pw # 0
      BY <1>1, <1>3 DEF Fresh, PassInv, AwaitsReset, kube, local, counts
    <2>2. ASSUME acct' = w.pw, botq' # <<>> PROVE FALSE
      <3>1. Len(botq') \in Resets(botq') /\ acct' < botq'[Len(botq')].pw
        BY <1>1, <2>1, <2>2
      <3>2. botq'[Len(botq')].pw \in 1 .. made' /\ acct' \in Nat /\ made' \in Nat
        <4>1. TypeInv'
          BY BotRunsEffect DEF Fresh
        <4>2. Rising(botq', made') /\ acct' \in 0 .. MaxPw /\ made' \in 0 .. MaxPw
          BY <4>1 DEF TypeInv, TypeOK, QueueInv
        <4> QED BY <3>1, <4>2, HumanAssumption DEF Rising
      <3> QED BY <2>1, <2>2, <3>1, <3>2
    <2> QED BY <1>1, <2>1, <2>2 DEF AwaitsReset
  <1>4. PassInv'
    BY <1>1, <1>3 DEF Fresh, PassInv, Held, HoldsAccount, Same, Running, local, kube
  <1> QED BY <1>2, <1>4

LEMMA DeliverKeepsPw == ASSUME Fresh, Deliver PROVE ApiInv' /\ PassInv'
  <1>1. UNCHANGED <<api, env, world, local, counts>>
    BY DeliverEffect DEF Fresh
  <1> QED BY <1>1 DEF Fresh, ApiInv, PassInv, Held, HoldsAccount, AwaitsReset, Same, Running,
                      Live, local, world, counts

LEMMA CrashKeepsPw == ASSUME Fresh, Crash PROVE ApiInv' /\ PassInv'
  <1>1. UNCHANGED <<api, env, world>> /\ pc' = "idle"
    BY CrashEffect DEF Fresh
  <1> QED BY <1>1 DEF Fresh, ApiInv, PassInv, Live, world, Running

\* The pass.
LEMMA BeginKeepsPw == ASSUME Fresh, Begin PROVE ApiInv' /\ PassInv'
  <1>1. /\ UNCHANGED <<kube, env, world, counts>>
        /\ cache = api /\ api.exists /\ w' = api /\ base' = api
        /\ \/ pc' = "leave" /\ api.deleting /\ api.fin
           \/ pc' = "infra" /\ ~api.deleting /\ api.fin
           \/ pc' = "finalizer" /\ ~api.deleting /\ ~api.fin
    BY BeginEffect DEF Fresh, WatchInv
  <1>2. api.rv <= api.rv
    BY Revisions DEF Fresh
  <1>3. ApiInv'
    BY <1>1 DEF Fresh, ApiInv, Live, kube, world
  <1>4. PassInv'
    BY <1>1, <1>2 DEF Fresh, ApiInv, PassInv, Held, Same, Live, Running, kube, world
  <1> QED BY <1>3, <1>4

LEMMA AddFinalizerKeepsPw == ASSUME Fresh, AddFinalizer PROVE ApiInv' /\ PassInv'
  <1>1. /\ pc = "finalizer" /\ UNCHANGED <<env, world, base, made>>
        /\ \/ /\ UpdateAccepted(w) /\ w' = api' /\ pc' = "infra"
              /\ Same(api', api) /\ api'.fin
              /\ api'.exists = api.exists /\ api'.deleting = api.deleting
           \/ UNCHANGED <<api, watch>> /\ pc' = "patch" /\ Noted(w', w)
    BY AddFinalizerEffect DEF Fresh
  <1>2. CASE pc' = "patch"
    BY <1>1, <1>2 DEF Fresh, ApiInv, PassInv, Same, Noted, Live, Running, world
  <1>3. CASE pc' = "infra"
    <2>1. w = api /\ base = api /\ api.exists /\ ~api.fin
      BY <1>1, <1>3 DEF Fresh, PassInv, UpdateAccepted
    <2>2. ~api.id /\ ~api.deleting /\ api.rooms = {}
      BY <2>1 DEF Fresh, ApiInv
    <2> QED BY <1>1, <1>3, <2>1, <2>2 
            DEF Fresh, ApiInv, PassInv, Held, Same, Live, Running, world
  <1> QED BY <1>1, <1>2, <1>3

LEMMA InfraKeepsPw == ASSUME Fresh, Infra PROVE ApiInv' /\ PassInv'
  <1>1. /\ pc = "infra" /\ UNCHANGED <<kube, env, mem, up, sweep, base>>
        /\ HasAccount \/ Registers \/ GivesUp \/ AsksReset
    BY InfraEffect DEF Fresh
  <1>2. Held /\ w.id = api.id /\ w.rooms = api.rooms /\ w.pw = api.pw /\ (api.id => botq = <<>>)
    BY <1>1 DEF Fresh, PassInv
  <1>3. CASE HasAccount
    BY <1>1, <1>2, <1>3
       DEF Fresh, ApiInv, PassInv, HasAccount, Held, HoldsAccount, Same, Live, Running, kube
  <1>4. CASE Registers
    BY <1>1, <1>2, <1>4
       DEF Fresh, ApiInv, PassInv, Registers, Held, HoldsAccount, Same, Live, Running, kube
  <1>5. CASE GivesUp
    BY <1>1, <1>2, <1>5
       DEF Fresh, ApiInv, PassInv, GivesUp, Held, Noted, Same, Live, Running, kube
  <1>6. CASE AsksReset
    <2>1. acct' # w'.pw
      <3>1. acct \in Nat /\ acct < w'.pw /\ acct' = acct
        BY <1>6, HumanAssumption DEF AsksReset, Fresh, TypeInv, TypeOK
      <3> QED BY <3>1
    <2> QED BY <1>1, <1>2, <1>6, <2>1
            DEF Fresh, ApiInv, PassInv, AsksReset, AwaitsReset, Held, Same, Live, Running, kube
  <1> QED BY <1>1, <1>3, <1>4, <1>5, <1>6

LEMMA RecoverKeepsPw == ASSUME Fresh, Recover PROVE ApiInv' /\ PassInv'
  <1>1. /\ pc = "recover" /\ UNCHANGED <<kube, env, world, base, made>>
        /\ w'.rooms = w.rooms /\ w'.rv = w.rv
        /\ \/ pc' = "name" /\ acct = w.pw /\ w'.id /\ w'.pw = w.pw
           \/ pc' = "patch" /\ w'.id = w.id /\ w'.pw = base.pw
    BY RecoverEffect DEF Fresh
  <1>2. Held /\ w.id = api.id /\ w.rooms = api.rooms /\ AwaitsReset
    BY <1>1 DEF Fresh, PassInv
  <1> QED BY <1>1, <1>2
          DEF Fresh, ApiInv, PassInv, AwaitsReset, Held, HoldsAccount, Same, Live, Running,
              kube, world

LEMMA RunningKeepsPw ==
    ASSUME Fresh, SyncName \/ Invite \/ Join \/ Kick PROVE ApiInv' /\ PassInv'
  <1>1. /\ pc \in Running /\ pc' \in Running \cup {"patch"}
        /\ UNCHANGED <<kube, env, acct, botq, up, sweep, base, made>>
        /\ w'.id = w.id /\ w'.pw = w.pw /\ w'.rv = w.rv
    BY SyncNameEffect, InviteEffect, JoinEffect, KickEffect DEF Fresh, Noted, Same, Running
  <1>2. Held /\ HoldsAccount
    BY <1>1 DEF Fresh, PassInv
  <1>3. w'.rooms \subseteq up
    <2>1. CASE SyncName
      BY <1>2, <2>1, SyncNameEffect DEF Fresh, Noted, Same, Held
    <2>2. CASE Invite
      BY <1>2, <2>2, InviteEffect DEF Fresh, Held
    <2>3. CASE Join
      <3>1. pc = "join" /\ (w' = w \/ w'.rooms = w.rooms \cup {cur})
        BY <2>3, JoinEffect DEF Fresh
      <3> QED BY <1>2, <3>1 DEF Fresh, PlacesInv, Held
    <2>4. CASE Kick
      BY <1>2, <2>4, KickEffect DEF Fresh, Held
    <2> QED BY <2>1, <2>2, <2>3, <2>4
  <1>4. ApiInv'
    BY <1>1 DEF Fresh, ApiInv, Live, kube
  <1>5. Held' /\ HoldsAccount'
    BY <1>1, <1>2, <1>3 DEF Held, HoldsAccount, Same, kube
  <1> QED BY <1>1, <1>4, <1>5 DEF PassInv, Running

LEMMA PatchStatusKeepsPw == ASSUME Fresh, PatchStatus PROVE ApiInv' /\ PassInv'
  <1>1. /\ pc = "patch" /\ pc' = "idle" /\ UNCHANGED <<env, world, made>>
        /\ api'.exists = api.exists /\ api'.fin = api.fin /\ api'.deleting = api.deleting
        /\ \/ /\ api'.id = Merged(api.id, base.id, w.id)
              /\ api'.pw = Merged(api.pw, base.pw, w.pw)
              /\ api'.rooms = Merged(api.rooms, base.rooms, w.rooms)
           \/ UNCHANGED <<api, watch>>
    BY PatchStatusEffect DEF Fresh
  <1>2. PassInv'
    BY <1>1 DEF PassInv, Running
  <1>3. CASE Same(api', api)
    <2>1. /\ UNCHANGED <<env, world>> /\ ApiInv
          /\ api'.exists = api.exists /\ api'.fin = api.fin /\ api'.deleting = api.deleting
      BY <1>1 DEF Fresh
    <2> QED BY <1>2, <1>3, <2>1 DEF ApiInv, Same, Live, world
  <1>4. CASE ~Same(api', api)
    <2>1. Held /\ HoldsAccount
      BY <1>1, <1>4 DEF Fresh, PassInv, Same, Merged
    <2>2. api'.id = w.id /\ api'.pw = w.pw /\ api'.rooms = w.rooms
      BY <1>1, <1>4, <2>1 DEF Held, Same, Merged
    <2>3. Resets(<<>>) = {}
      BY EmptySeq DEF Resets
    <2>4. /\ api'.id /\ api'.pw # 0 /\ api'.rooms \subseteq up' /\ acct' # 0 /\ botq' = <<>>
          /\ api'.exists /\ api'.fin
      BY <1>1, <2>1, <2>2 DEF Held, HoldsAccount, world
    <2> QED BY <1>2, <2>3, <2>4 DEF ApiInv, Live
  <1> QED BY <1>2, <1>3, <1>4

LEMMA LeavesKeepPw == ASSUME Fresh, LeaveRooms \/ RemoveFinalizer PROVE ApiInv' /\ PassInv'
  <1>1. CASE LeaveRooms
    <2>1. /\ pc = "leave" /\ pc' = "unfinalize" /\ UNCHANGED <<kube, env, acct, up, made>>
          /\ Resets(botq) = {} => Resets(botq') = {}
          /\ w.rooms = {} => botq' = botq
      BY <1>1, LeaveRoomsEffect DEF Fresh
    <2>2. api.exists /\ api.deleting /\ api.fin /\ w.rooms = api.rooms
      BY <2>1 DEF Fresh, PassInv
    <2> QED BY <2>1, <2>2 DEF Fresh, ApiInv, PassInv, Live, Running, kube
  <1>2. CASE RemoveFinalizer
    <2>1. /\ pc = "unfinalize" /\ pc' = "idle" /\ UNCHANGED <<env, world, made>>
          /\ \/ UNCHANGED <<api, watch>>
             \/ /\ Same(api', api) /\ ~api'.fin /\ api'.deleting = api.deleting
                /\ api'.exists = ~api.deleting
      BY <1>2, RemoveFinalizerEffect DEF Fresh
    <2>2. api.exists /\ api.deleting /\ api.fin
      BY <2>1 DEF Fresh, PassInv
    <2> QED BY <2>1, <2>2 DEF Fresh, ApiInv, PassInv, Same, Live, Running, world
  <1> QED BY <1>1, <1>2

LEMMA PwKept == ASSUME Fresh, [Next]_vars PROVE ApiInv' /\ PassInv'
  <1>1. CASE UNCHANGED vars
    BY <1>1 DEF Fresh, ApiInv, PassInv, Held, HoldsAccount, AwaitsReset, Same, Running, Live, vars
  <1>2. CASE Next
    BY <1>2, CreateCRKeepsPw, EditKeepsPw, UserRotatesKeepsPw, OwnerKeepsPw, BotRunsKeepsPw,
       DeliverKeepsPw, CrashKeepsPw, BeginKeepsPw, AddFinalizerKeepsPw, InfraKeepsPw,
       RecoverKeepsPw, RunningKeepsPw, PatchStatusKeepsPw, LeavesKeepPw
       DEF Next, Reconcile
  <1> QED BY <1>1, <1>2

-----------------------------------------------------------------------------
(***************************************************************************)
(* The rooms the status names, or will name once the pass is over.         *)
(***************************************************************************)
Claimed == IF pc \in Running THEN w.rooms
           ELSE IF pc = "patch" THEN Merged(api.rooms, base.rooms, w.rooms)
           ELSE api.rooms

JoinedInv == Live => \A r \in Claimed : mem[r] = "joined"

\* No owner and no lost status patch interferes.
Calm == OwnersAgree /\ env.faults \cap {"api", "crash"} = {}

\* What a pass will write is what it has, unless it writes nothing.
LEMMA ClaimedIs ==
    ASSUME Fresh
    PROVE  /\ Claimed \subseteq up /\ up \subseteq Rooms
           /\ pc = "patch" => \/ Same(w, base) /\ Claimed = api.rooms
                              \/ Held /\ HoldsAccount /\ Claimed = w.rooms
           /\ pc \in {"infra", "recover"} \cup Running => Claimed = w.rooms
           /\ pc \notin Running \cup {"patch"} => Claimed = api.rooms
  <1>1. pc = "patch" => \/ Same(w, base) /\ Claimed = api.rooms
                        \/ Held /\ HoldsAccount /\ Claimed = w.rooms
    BY DEF Fresh, PassInv, Claimed, Same, Held, Merged, Running
  <1>2. pc \in {"infra", "recover"} \cup Running => Claimed = w.rooms
    BY DEF Fresh, PassInv, Claimed, Running
  <1>3. pc \notin Running \cup {"patch"} => Claimed = api.rooms
    BY DEF Claimed
  <1>4. up \subseteq Rooms
    BY DEF Fresh, TypeInv, TypeOK
  <1> QED BY <1>1, <1>2, <1>3, <1>4 DEF Fresh, ApiInv, PassInv, Held

\* Between the passes, and beside them: Live is not regained, and who is in
\* a room of the status stays there.
LEMMA SameClaims ==
    ASSUME JoinedInv, Live' => Live, Claimed' \subseteq Claimed,
           \A r \in Claimed : Live /\ mem[r] = "joined" => mem'[r] = "joined"
    PROVE  JoinedInv'
  BY DEF JoinedInv

LEMMA UsersKeepJoined ==
    ASSUME Fresh, JoinedInv, CreateCR \/ Edit \/ DeleteCR PROVE JoinedInv'
  <1>1. CASE CreateCR
    <2>1. UNCHANGED <<world, local>> /\ ~api.exists /\ api'.rooms = {}
      BY <1>1, CreateCREffect DEF Fresh
    <2>2. pc \notin Running /\ (pc = "patch" => w.rooms = base.rooms)
      BY <2>1 DEF Fresh, PassInv, Held, Same, Running
    <2>3. Claimed' = {}
      BY <2>1, <2>2 DEF Claimed, Merged, local
    <2> QED BY <2>3 DEF JoinedInv
  <1>2. CASE Edit \/ DeleteCR
    <2>1. /\ UNCHANGED <<world, local>> /\ Same(api', api)
          /\ Live' => Live
      BY <1>2, EditEffect, DeleteCREffect DEF Fresh, Live
    <2>2. Claimed' = Claimed
      BY <2>1 DEF Claimed, Same, local
    <2> QED BY <2>1, <2>2, SameClaims DEF world
  <1> QED BY <1>1, <1>2

LEMMA OthersKeepJoined ==
    ASSUME Fresh, JoinedInv, Calm,
           \/ Deliver \/ UserRotates \/ BotRuns
           \/ \E r \in Rooms : Sweep(r) \/ Publish(r) \/ AdminLeaves(r)
    PROVE  JoinedInv'
  <1>1. UNCHANGED <<api, local>>
    BY DeliverEffect, UserRotatesEffect, BotRunsEffect, PublishEffect, AdminLeavesEffect,
       ReadMembersEffect, SetMembersEffect
       DEF Fresh, kube, Sweep
  <1>2. Claimed' = Claimed /\ (Live' => Live)
    BY <1>1 DEF Claimed, Live, local
  <1>3. CASE Deliver \/ UserRotates \/ \E r \in Rooms : ReadMembers(r) \/ AdminLeaves(r)
    <2>1. mem' = mem
      BY <1>3, DeliverEffect, UserRotatesEffect, ReadMembersEffect, AdminLeavesEffect
         DEF Fresh, world
    <2> QED BY <1>2, <2>1, SameClaims
  <1>4. CASE BotRuns
    <2>1. botq # <<>>
      BY <1>4, BotRunsEffect DEF Fresh
    <2>2. Live => Claimed = {}
      BY <2>1, ClaimedIs DEF Fresh, ApiInv, PassInv, HoldsAccount
    <2> QED BY <1>2, <2>2, SameClaims
  <1>5. ASSUME NEW r \in Rooms, Publish(r) PROVE JoinedInv'
    <2>1. r \notin up /\ \A x \in Rooms : x # r => mem'[x] = mem[x]
      BY <1>5, PublishEffect DEF Fresh
    <2> QED BY <1>2, <2>1, ClaimedIs, SameClaims
  <1>6. ASSUME NEW r \in Rooms, SetMembers(r) PROVE JoinedInv'
    <2>1. /\ sweep[r] # "idle"
          /\ \A x \in Rooms : mem[x] = "joined" /\ (x = r => r \in env.listed)
                                => mem'[x] = "joined"
      BY <1>6, SetMembersEffect DEF Fresh
    <2>2. r \in env.listed
      BY <2>1 DEF Fresh, PlacesInv, Calm, OwnersAgree
    <2> QED BY <1>2, <2>1, <2>2, ClaimedIs, SameClaims
  <1> QED BY <1>3, <1>4, <1>5, <1>6 DEF Sweep

LEMMA PassKeepsJoined ==
    ASSUME Fresh, JoinedInv,
           Begin \/ AddFinalizer \/ Infra \/ Recover \/ LeaveRooms \/ RemoveFinalizer
    PROVE  JoinedInv'
  <1>1. CASE Begin
    <2>1. /\ UNCHANGED <<kube, world>> /\ pc' \notin Running \cup {"patch"}
          /\ pc = "idle"
      BY <1>1, BeginEffect DEF Fresh, Running, Begin
    <2> QED BY <2>1 DEF JoinedInv, Claimed, Running, Live, kube, world
  <1>2. CASE AddFinalizer
    <2>1. /\ pc = "finalizer" /\ UNCHANGED <<world, base>> /\ Same(api', api) /\ (Live' => Live)
          /\ pc' = "infra" \/ (pc' = "patch" /\ w'.rooms = w.rooms)
      BY <1>2, AddFinalizerEffect DEF Fresh, Same, Noted, Live
    <2>2. w = base
      BY <2>1 DEF Fresh, PassInv
    <2>3. Claimed' = Claimed
      BY <2>1, <2>2 DEF Claimed, Same, Merged, Running
    <2> QED BY <2>1, <2>3, SameClaims DEF world
  <1>3. CASE Infra \/ Recover
    <2>1. /\ pc \in {"infra", "recover"} /\ pc' \in {"recover", "patch"} \cup Running
          /\ UNCHANGED <<api, mem, base>> /\ w'.rooms = w.rooms
      BY <1>3, InfraEffect, RecoverEffect
         DEF Fresh, HasAccount, Registers, GivesUp, AsksReset, Noted, Same, Running, kube, world
    <2>2. w.rooms = api.rooms /\ base.rooms = api.rooms
      BY <2>1 DEF Fresh, PassInv, Held, Same
    <2>3. Claimed' = Claimed
      BY <2>1, <2>2 DEF Claimed, Merged, Running
    <2> QED BY <2>1, <2>3, SameClaims DEF Live
  <1>4. CASE LeaveRooms \/ RemoveFinalizer
    <2>1. /\ pc \in {"leave", "unfinalize"} /\ pc' \in {"unfinalize", "idle"}
          /\ mem' = mem /\ api'.rooms = api.rooms
          /\ api' = api \/ api'.deleting = api.deleting
      BY <1>4, LeaveRoomsEffect, RemoveFinalizerEffect DEF Fresh, Same, kube, world
    <2>2. ~Live'
      BY <2>1 DEF Fresh, PassInv, Live
    <2> QED BY <2>2 DEF JoinedInv
  <1> QED BY <1>1, <1>2, <1>3, <1>4

LEMMA RunningKeepsJoined ==
    ASSUME Fresh, JoinedInv, SyncName \/ Invite \/ Join \/ Kick PROVE JoinedInv'
  <1>1. /\ pc \in Running /\ pc' \in Running \cup {"patch"} /\ UNCHANGED <<api, base>>
        /\ w.rooms \subseteq Rooms
    BY SyncNameEffect, InviteEffect, JoinEffect, KickEffect, ClaimedIs DEF Fresh, Running, kube
  <1>2. Claimed = w.rooms /\ Claimed' = w'.rooms /\ (Live' => Live)
    <2>1. base.rooms = api.rooms
      BY <1>1 DEF Fresh, PassInv, Held, Same
    <2> QED BY <1>1, <2>1 DEF Claimed, Merged, Live, Running
  <1>3. CASE SyncName
    <2>1. w'.rooms = w.rooms /\ mem' = mem
      BY <1>3, SyncNameEffect DEF Fresh, Noted, Same
    <2> QED BY <1>2, <2>1, SameClaims
  <1>4. CASE Invite
    <2>1. w' = w /\ \A x \in Rooms : mem[x] = "joined" => mem'[x] = "joined"
      BY <1>4, InviteEffect DEF Fresh
    <2> QED BY <1>1, <1>2, <2>1, SameClaims
  <1>5. CASE Join
    <2>1. \/ UNCHANGED <<mem, w>>
          \/ /\ w'.rooms = w.rooms \cup {cur}
             /\ mem'[cur] = "joined" /\ \A x \in Rooms : x # cur => mem'[x] = mem[x]
      BY <1>5, JoinEffect DEF Fresh
    <2> QED BY <1>1, <1>2, <2>1 DEF JoinedInv
  <1>6. CASE Kick
    <2>1. w'.rooms \subseteq w.rooms /\ \A x \in w'.rooms : mem'[x] = mem[x]
      BY <1>6, KickEffect DEF Fresh
    <2> QED BY <1>2, <2>1 DEF JoinedInv
  <1> QED BY <1>3, <1>4, <1>5, <1>6

\* A patch that is refused belongs to a pass that found no rooms recorded.
LEMMA PatchKeepsJoined == ASSUME Fresh, JoinedInv, Calm, PatchStatus PROVE JoinedInv'
  <1>1. /\ pc = "patch" /\ pc' = "idle" /\ mem' = mem
        /\ api'.exists = api.exists /\ api'.deleting = api.deleting
        /\ \/ api'.rooms = Merged(api.rooms, base.rooms, w.rooms)
           \/ UNCHANGED <<api, watch>> /\ ~PatchAccepted(w, base)
    BY PatchStatusEffect DEF Fresh, Calm, world
  <1>2. Live' => Live
    BY <1>1 DEF Live
  <1>3. Claimed' = api'.rooms
    BY <1>1 DEF Claimed, Running
  <1>4. CASE api'.rooms = Claimed
    BY <1>1, <1>2, <1>3, <1>4, SameClaims
  <1>5. CASE UNCHANGED api /\ ~PatchAccepted(w, base) /\ api.rooms # Claimed
    <2>1. Held
      BY <1>1, <1>5, ClaimedIs
    <2>2. api.rooms = {}
      BY <1>5, <2>1 DEF Held, PatchAccepted
    <2> QED BY <1>3, <1>5, <2>2 DEF JoinedInv
  <1>6. Claimed = Merged(api.rooms, base.rooms, w.rooms)
    BY <1>1 DEF Claimed, Running
  <1> QED BY <1>1, <1>4, <1>5, <1>6

LEMMA JoinedKept == ASSUME Fresh, JoinedInv, Calm, [Next]_vars PROVE JoinedInv'
  <1>1. CASE UNCHANGED vars
    BY <1>1 DEF JoinedInv, Claimed, Running, Live, vars
  <1>2. CASE Crash
    BY <1>2, CrashEffect DEF Fresh, Calm
  <1>3. CASE Next /\ ~Crash
    BY <1>3, UsersKeepJoined, OthersKeepJoined, PassKeepsJoined, RunningKeepsJoined,
       PatchKeepsJoined
       DEF Next, Reconcile
  <1> QED BY <1>1, <1>2, <1>3

-----------------------------------------------------------------------------
(***************************************************************************)
(* The password of an account that the status records, however late the    *)
(* rest of the status may be read.                                         *)
(***************************************************************************)
Settled == acct # 0 /\ Resets(botq) = {}

\* A pass that knows no account runs only while the status has none, and what
\* it asks the bot for is the newest of the commands.
AccountInv ==
    /\ api.id => Settled
    /\ acct = 0 => Resets(botq) = {}
    /\ pc # "idle" /\ ~w.id => ~api.id
    /\ pc # "idle" /\ w.id /\ ~base.id => Settled
    /\ pc = "recover" => /\ ~w.id /\ w.pw # 0 /\ w.pw <= made
                         /\ acct = w.pw => Resets(botq) = {}
                         /\ \A i \in Resets(botq) : botq[i].pw <= w.pw

Informed == TypeInv /\ WatchInv /\ AccountInv /\ env.lag # "any"

\* Who writes neither the account nor the queue, and no new ID.
LEMMA AccountAside ==
    ASSUME AccountInv, UNCHANGED <<acct, botq, local, made>>, api'.id => api.id
    PROVE  AccountInv'
  BY DEF AccountInv, Settled, local

LEMMA OthersKeepAccount ==
    ASSUME Informed,
           \/ Deliver \/ CreateCR \/ Edit \/ DeleteCR
           \/ \E r \in Rooms : Publish(r) \/ AdminLeaves(r) \/ Sweep(r)
    PROVE  AccountInv'
  <1>1. UNCHANGED <<acct, botq, local, made>> /\ (api'.id => api.id)
    BY DeliverEffect, CreateCREffect, EditEffect, DeleteCREffect, PublishEffect,
       AdminLeavesEffect, ReadMembersEffect, SetMembersEffect
       DEF Informed, Sweep, Same, world, counts, kube
  <1> QED BY <1>1, AccountAside DEF Informed

\* What the user sets is newer than what any pass asked for.
LEMMA UserRotatesKeepsAccount == ASSUME Informed, UserRotates PROVE AccountInv'
  <1>1. UNCHANGED <<kube, botq, local>> /\ acct # 0 /\ acct' # 0
    BY UserRotatesEffect DEF Informed
  <1>2. made \in Nat /\ w.pw \in Nat /\ made' = made + 1 /\ acct' = made + 1
    <2>1. w \in Human /\ made \in 0 .. MaxPw
      BY DEF Informed, TypeInv, TypeOK
    <2>2. w.pw \in Nat
      BY <2>1 DEF Human
    <2> QED BY <2>1, <2>2, HumanAssumption DEF UserRotates
  <1>3. w.pw <= made => w.pw <= made' /\ acct' # w.pw
    BY <1>2
  <1> QED BY <1>1, <1>3 DEF Informed, AccountInv, Settled, kube, local

LEMMA BotRunsKeepsAccount == ASSUME Informed, BotRuns PROVE AccountInv'
  <1>1. /\ UNCHANGED <<kube, local, counts>>
        /\ botq # <<>> /\ (acct' = acct \/ acct' # 0)
        /\ acct' # acct => /\ Resets(botq) # {}
                           /\ \A i \in Resets(botq') : acct' < botq'[i].pw
        /\ Resets(botq) = {} => Resets(botq') = {}
    BY BotRunsEffect DEF Informed
  <1>2. UNCHANGED <<api, pc, w, base, made>>
    BY <1>1 DEF kube, local, counts
  <1>3. Settled => Settled'
    BY <1>1 DEF Settled
  <1>4. acct' = 0 => Resets(botq') = {}
    BY <1>1 DEF Informed, AccountInv
  <1>5. ASSUME pc = "recover"
        PROVE  /\ \A i \in Resets(botq') : botq'[i].pw <= w.pw
               /\ acct' = w.pw => Resets(botq') = {}
    <2>1. /\ \A i \in Resets(botq) : botq[i].pw <= w.pw
          /\ acct = w.pw => Resets(botq) = {}
      BY <1>5 DEF Informed, AccountInv
    <2>2. /\ botq \in Seq(Command) /\ botq # <<>> /\ botq' = Tail(botq)
          /\ Len(botq) \in Nat /\ Len(botq) > 0
          /\ DOMAIN botq = 1 .. Len(botq) /\ DOMAIN botq' = 1 .. Len(botq) - 1
          /\ \A i \in 1 .. Len(botq) - 1 : botq'[i] = botq[i + 1]
      <3>1. botq \in Seq(Command) /\ botq # <<>> /\ botq' = Tail(botq)
        BY <1>1 DEF BotRuns, Informed, TypeInv, TypeOK
      <3> QED BY <3>1, HeadTailProperties, LenProperties, EmptySeq
    <2>3. \A i \in Resets(botq') : i + 1 \in Resets(botq) /\ botq'[i] = botq[i + 1]
      BY <2>2 DEF Resets
    <2>4. \A i \in Resets(botq') : botq'[i].pw <= w.pw
      BY <2>1, <2>3
    <2>5. \A i \in Resets(botq') : botq'[i].pw \in Nat
      <3>1. TypeInv'
        BY BotRunsEffect DEF Informed
      <3>2. Rising(botq', made')
        BY <3>1 DEF TypeInv, QueueInv
      <3>3. \A i \in Resets(botq') : botq'[i].pw \in 1 .. made'
        BY <3>2 DEF Rising
      <3> QED BY <3>3
    <2>6. ASSUME acct' = w.pw, NEW i \in Resets(botq') PROVE FALSE
      <3>1. CASE acct' = acct
        BY <1>1, <2>1, <2>3, <2>6, <3>1
      <3>2. CASE acct' # acct
        <4>1. w.pw < botq'[i].pw /\ botq'[i].pw <= w.pw
          BY <1>1, <2>4, <2>6, <3>2
        <4>2. w.pw \in Nat
          BY DEF Informed, TypeInv, TypeOK, Human
        <4> QED BY <2>5, <4>1, <4>2
      <3> QED BY <3>1, <3>2
    <2> QED BY <2>4, <2>6
  <1>6. pc = "recover" => ~w.id /\ w.pw # 0 /\ w.pw <= made
    BY DEF Informed, AccountInv
  <1> QED BY <1>2, <1>3, <1>4, <1>5, <1>6 DEF Informed, AccountInv

\* The status that names the account was received, so a pass that starts
\* without an account starts while none is recorded.
LEMMA BeginKeepsAccount == ASSUME Informed, Begin PROVE AccountInv'
  <1>1. /\ UNCHANGED <<kube, world>> /\ w' = cache /\ base' = cache /\ pc' # "recover"
        /\ env.lag # "none" \/ watch = {}
        /\ env.lag = "account" => (api.id => cache.id)
    BY BeginEffect DEF Informed
  <1>2. env.lag \in {"none", "account"}
    BY EnvType DEF Informed, TypeInv, TypeOK, Env
  <1>3. api.id => cache.id
    BY <1>1, <1>2 DEF Informed, WatchInv
  <1> QED BY <1>1, <1>3 DEF Informed, AccountInv, Settled, kube, world

LEMMA InfraKeepsAccount == ASSUME Informed, Infra PROVE AccountInv'
  <1>1. /\ pc = "infra" /\ UNCHANGED <<kube, base>>
        /\ HasAccount \/ Registers \/ GivesUp \/ AsksReset
    BY InfraEffect DEF Informed
  <1>2. api' = api /\ base' = base
    BY <1>1 DEF kube
  <1>3. CASE HasAccount
    BY <1>1, <1>2, <1>3 DEF Informed, AccountInv, Settled, HasAccount
  <1>4. CASE Registers
    BY <1>1, <1>2, <1>4 DEF Informed, AccountInv, Settled, Registers
  <1>5. CASE GivesUp
    BY <1>1, <1>2, <1>5 DEF Informed, AccountInv, Settled, GivesUp, Noted, Same
  <1>6. CASE AsksReset
    <2>1. TypeInv' /\ w'.pw = made' /\ acct' = acct /\ acct < made'
      BY <1>6, InfraEffect DEF Informed, AsksReset
    <2>2. Rising(botq', made') /\ made' \in Nat /\ acct' # w'.pw
      <3>1. made' \in Nat /\ acct \in Nat
        BY <2>1, HumanAssumption DEF Informed, TypeInv, TypeOK
      <3> QED BY <2>1, <3>1 DEF TypeInv, QueueInv
    <2>3. w'.pw <= made' /\ \A i \in Resets(botq') : botq'[i].pw <= w'.pw
      <3>1. \A i \in Resets(botq') : botq'[i].pw \in 1 .. made'
        BY <2>2 DEF Rising
      <3> QED BY <2>1, <2>2, <3>1
    <2>4. ~w'.id /\ w'.pw # 0 /\ ~api'.id /\ acct' # 0 /\ pc' = "recover"
      BY <1>1, <1>2, <1>6 DEF Informed, AccountInv, AsksReset
    <2> QED BY <2>2, <2>3, <2>4 DEF AccountInv
  <1> QED BY <1>1, <1>3, <1>4, <1>5, <1>6

LEMMA PatchStatusKeepsAccount == ASSUME Informed, PatchStatus PROVE AccountInv'
  <1>1. /\ pc = "patch" /\ pc' = "idle" /\ UNCHANGED world
        /\ api'.id = Merged(api.id, base.id, w.id) \/ api' = api
    BY PatchStatusEffect DEF Informed
  <1>2. acct' = acct /\ botq' = botq
    BY <1>1 DEF world
  <1>3. w.id \in BOOLEAN /\ base.id \in BOOLEAN
    BY DEF Informed, TypeInv, TypeOK, Human
  <1>4. api'.id => api.id \/ (w.id /\ ~base.id)
    BY <1>1, <1>3 DEF Merged
  <1> QED BY <1>1, <1>2, <1>4 DEF Informed, AccountInv, Settled

LEMMA PassKeepsAccount ==
    ASSUME Informed,
           \/ AddFinalizer \/ Recover \/ SyncName \/ Invite \/ Join \/ Kick
           \/ LeaveRooms \/ RemoveFinalizer \/ Crash
    PROVE  AccountInv'
  <1>1. CASE AddFinalizer
    <2>1. /\ pc = "finalizer" /\ UNCHANGED <<world, base>> /\ pc' # "recover"
          /\ \/ w' = api' /\ Same(api', api)
             \/ api' = api /\ Noted(w', w)
      BY <1>1, AddFinalizerEffect DEF Informed
    <2> QED BY <2>1 DEF Informed, AccountInv, Settled, Same, Noted, world
  <1>2. CASE Recover
    <2>1. /\ pc = "recover" /\ UNCHANGED <<kube, world, base>>
          /\ \/ pc' = "name" /\ acct = w.pw /\ w'.id
             \/ pc' = "patch" /\ w'.id = w.id
      BY <1>2, RecoverEffect DEF Informed
    <2> QED BY <2>1 DEF Informed, AccountInv, Settled, kube, world
  <1>3. CASE SyncName \/ Invite \/ Join \/ Kick
    <2>1. /\ pc # "idle" /\ pc' # "recover" /\ UNCHANGED <<kube, acct, botq, base>>
          /\ w'.id = w.id
      BY <1>3, SyncNameEffect, InviteEffect, JoinEffect, KickEffect DEF Informed, Noted, Same
    <2> QED BY <2>1 DEF Informed, AccountInv, Settled, kube
  <1>4. CASE LeaveRooms
    <2>1. /\ pc = "leave" /\ pc' = "unfinalize" /\ UNCHANGED <<kube, acct, w, base>>
          /\ Resets(botq) = {} => Resets(botq') = {}
      BY <1>4, LeaveRoomsEffect DEF Informed
    <2> QED BY <2>1 DEF Informed, AccountInv, Settled, kube
  <1>5. CASE RemoveFinalizer \/ Crash
    <2>1. pc' = "idle" /\ UNCHANGED world /\ api'.id = api.id
      BY <1>5, RemoveFinalizerEffect, CrashEffect DEF Informed, Same
    <2> QED BY <2>1 DEF Informed, AccountInv, Settled, world
  <1> QED BY <1>1, <1>2, <1>3, <1>4, <1>5

LEMMA AccountKept == ASSUME Informed, [Next]_vars PROVE AccountInv'
  <1>1. CASE UNCHANGED vars
    BY <1>1 DEF Informed, AccountInv, Settled, vars
  <1>2. CASE Next
    BY <1>2, OthersKeepAccount, UserRotatesKeepsAccount, BotRunsKeepsAccount,
       BeginKeepsAccount, InfraKeepsAccount, PatchStatusKeepsAccount, PassKeepsAccount
       DEF Next, Reconcile
  <1> QED BY <1>1, <1>2

-----------------------------------------------------------------------------
(***************************************************************************)
(* The inductive invariant and the theorems.                               *)
(***************************************************************************)
HumanInv ==
    /\ TypeInv /\ WatchInv /\ PlacesInv
    /\ env.lag = "none" => ApiInv /\ PassInv /\ (Calm => JoinedInv)
    /\ env.lag # "any" => AccountInv

LEMMA EnvKept == ASSUME TypeInv, [Next]_vars PROVE env' = env
  <1>1. CASE UNCHANGED vars
    BY <1>1 DEF vars
  <1>2. CASE Next
    BY <1>2, DeliverEffect, CreateCREffect, EditEffect, DeleteCREffect, UserRotatesEffect,
       PublishEffect, AdminLeavesEffect, ReadMembersEffect, SetMembersEffect, BotRunsEffect,
       CrashEffect,
       BeginEffect, AddFinalizerEffect, InfraEffect, RecoverEffect, SyncNameEffect,
       InviteEffect, JoinEffect, KickEffect, PatchStatusEffect, LeaveRoomsEffect,
       RemoveFinalizerEffect
       DEF Next, Reconcile, Sweep
  <1> QED BY <1>1, <1>2

LEMMA HumanInvInit == ASSUME Init PROVE HumanInv
  <1>1. TypeInv
    BY InitTypes
  <1>2. WatchInv /\ PlacesInv
    BY DEF Init, WatchInv, PlacesInv
  <1>3. /\ ~api.exists /\ ~api.id /\ api.pw = 0 /\ api.rooms = {}
        /\ acct = 0 /\ botq = <<>> /\ pc = "idle"
    BY DEF Init, Nil
  <1>4. ApiInv /\ PassInv /\ JoinedInv
    BY <1>3 DEF ApiInv, PassInv, JoinedInv, Live, Running
  <1>5. AccountInv
    <2>1. Resets(botq) = {}
      BY <1>3, EmptySeq DEF Resets
    <2> QED BY <1>3, <2>1 DEF AccountInv
  <1> QED BY <1>1, <1>2, <1>4, <1>5 DEF HumanInv

LEMMA HumanInvNext == ASSUME HumanInv, [Next]_vars PROVE HumanInv'
  <1>1. TypeInv' /\ WatchInv' /\ PlacesInv' /\ env' = env
    BY NextTypes, WatchKept, PlacesKept, EnvKept DEF HumanInv
  <1>2. ASSUME env.lag = "none" PROVE ApiInv' /\ PassInv' /\ (Calm => JoinedInv')
    <2>1. Fresh
      BY <1>2 DEF HumanInv, Fresh
    <2> QED BY <1>2, <2>1, PwKept, JoinedKept DEF HumanInv
  <1>3. env.lag # "any" => AccountInv'
    BY AccountKept DEF HumanInv, Informed
  <1> QED BY <1>1, <1>2, <1>3 DEF HumanInv, Calm, OwnersAgree

LEMMA HumanInvHolds == Spec => []HumanInv
  BY HumanInvInit, HumanInvNext, PTL DEF Spec

\* Every variable keeps its type, whatever fails, whatever is queued and however
\* late the informer is.
THEOREM HumanTypeCorrect == Spec => []TypeOK
  <1>1. HumanInv => TypeOK
    BY DEF HumanInv, TypeInv
  <1> QED BY <1>1, HumanInvHolds, PTL

\* A recorded room is never tried again (ensureHumanRooms), so the Human is
\* in it: whatever was swept, kicked or still queued.
THEOREM RecordedRoomsAreJoined == Spec => []RecordedIsJoined
  <1>1. HumanInv => RecordedIsJoined
    BY DEF HumanInv, RecordedIsJoined, JoinedInv, Claimed, Running, Calm
  <1> QED BY <1>1, HumanInvHolds, PTL

\* Where each pass has received the status that names the account, neither
\* reconcileHumanInfra nor the admin bot's queue touches its password; a pass
\* that has not may reset it: see PasswordNeverReset.
THEOREM PasswordIsTheUsers == Spec => PasswordKept
  <1> DEFINE A == env.lag # "any" /\ Live /\ api.id /\ acct' # acct => UserRotates
  <1>1. ASSUME HumanInv, [Next]_vars PROVE [A]_vars
    <2> SUFFICES ASSUME env.lag # "any", Live, api.id, acct' # acct, Next PROVE UserRotates
      BY <1>1 DEF vars
    <2>1. TypeInv /\ acct # 0 /\ Resets(botq) = {}
      BY <1>1 DEF HumanInv, AccountInv, Settled
    <2>2. ~BotRuns
      BY <2>1, BotRunsEffect
    <2>3. ~Infra
      BY <2>1, InfraEffect DEF HasAccount, Registers, GivesUp, AsksReset
    <2>4. ~Reconcile
      BY <2>1, <2>3, BeginEffect, AddFinalizerEffect, RecoverEffect, SyncNameEffect,
         InviteEffect, JoinEffect, KickEffect, PatchStatusEffect, LeaveRoomsEffect,
         RemoveFinalizerEffect
         DEF Reconcile, world
    <2> QED BY <2>1, <2>2, <2>4, DeliverEffect, CreateCREffect, EditEffect, DeleteCREffect,
               PublishEffect, AdminLeavesEffect, ReadMembersEffect, SetMembersEffect, CrashEffect
               DEF Next, Sweep, world
  <1> QED BY <1>1, HumanInvHolds, PTL DEF Spec, PasswordKept
=============================================================================
