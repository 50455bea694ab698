----------------------------- MODULE LegacyFiles -----------------------------
(***************************************************************************)
(* The files the controller shares with the Manager agent                  *)
(* (internal/service/legacy.go): the Manager's openclaw.json, whose        *)
(* groupAllowFrom lists who may speak to it, and the workers and teams     *)
(* registries.  Every operation is a read-modify-write of a whole object   *)
(* in storage, done by several reconcilers under one mutex.                *)
(*                                                                         *)
(* A read that fails is reported as "does not exist" by the MinIO client   *)
(* (internal/oss/minio.go, any exit status of mc), and the operations take *)
(* it for an empty file.                                                   *)
(***************************************************************************)
EXTENDS Naturals, FiniteSets

CONSTANTS
    Callers,     \* the reconcilers that use LegacyCompat
    Nobody,      \* the mutex is free
    Ids,         \* Matrix ids and registry names
    Registries   \* the registry files

ASSUME LegacyAssumption == Nobody \notin Callers

VARIABLES
    conf,    \* the Manager's openclaw.json in storage
    rows,    \* registry |-> the names that have a row in it
    mu,      \* LegacyCompat.mu
    call     \* caller |-> the call it is in

legacy == <<conf, rows, mu, call>>

-----------------------------------------------------------------------------
\* openclaw.json: whether it exists, groupAllowFrom, and whether its plugin
\* entries have been customised by the user.
Config == [here : BOOLEAN, allow : SUBSET Ids, custom : BOOLEAN]

NoConfig == [here |-> FALSE, allow |-> {}, custom |-> FALSE]

\* An operation: PutManagerConfig ("put"), UpdateManagerGroupAllowFrom with
\* add ("allow") or not ("deny"), Update...Registry ("upsert") and
\* RemoveFrom...Registry ("remove") of the registry file.
Op == [kind : {"put", "allow", "deny", "upsert", "remove"},
       file : Registries \cup {"openclaw.json"}, id : Ids]

OnConfig(op) == op.kind \in {"put", "allow", "deny"}

Idle == [at |-> "idle"]

\* What a call has read: one of the two.
Nothing == [conf |-> NoConfig, rows |-> {}]

\* A call that holds the mutex.
Call == [at : {"read", "write"}, op : Op, seen : [conf : Config, rows : SUBSET Ids]]

LegacyTypeOK ==
    /\ conf \in Config
    /\ rows \in [Registries -> SUBSET Ids]
    /\ mu \in Callers \cup {Nobody}
    /\ call \in [Callers -> {Idle} \cup Call]

\* deployed: the Manager's configuration has been written before.
LegacyInit(deployed) ==
    /\ conf = [NoConfig EXCEPT !.here = deployed]
    /\ rows = [f \in Registries |-> {}]
    /\ mu = Nobody
    /\ call = [c \in Callers |-> Idle]

-----------------------------------------------------------------------------
\* Mutant: the read-modify-write cycles are not serialised.
EnterUnlocked(c, op) ==
    /\ call[c] = Idle
    /\ call' = [call EXCEPT ![c] = [at |-> "read", op |-> op,
                   seen |-> Nothing]]
    /\ UNCHANGED <<conf, rows, mu>>

\* l.mu.Lock()
Enter(c, op) ==
    /\ call[c] = Idle
    /\ mu = Nobody
    /\ mu' = c
    /\ call' = [call EXCEPT ![c] = [at |-> "read", op |-> op,
                   seen |-> Nothing]]
    /\ UNCHANGED <<conf, rows>>

\* The deferred l.mu.Unlock() of every return.
Return(c) ==
    /\ call' = [call EXCEPT ![c] = Idle]
    /\ mu' = IF mu = c THEN Nobody ELSE mu

\* What GetObject returns: nothing at all when it failed.
Seen(op, failed) ==
    CASE failed                  -> Nothing
      [] ~failed /\ OnConfig(op) -> [Nothing EXCEPT !.conf = conf]
      [] OTHER                   -> [Nothing EXCEPT !.rows = rows[op.file]]

\* UpdateManagerGroupAllowFrom returns early when there is no file, and when
\* the id to add is already listed.
NothingToDo(op, seen) ==
    \/ op.kind \in {"allow", "deny"} /\ ~seen.conf.here
    \/ op.kind = "allow" /\ op.id \in seen.conf.allow

Read(c, failed) ==
    /\ call[c].at = "read"
    /\ LET seen == Seen(call[c].op, failed)
       IN IF NothingToDo(call[c].op, seen)
          THEN Return(c)
          ELSE /\ call' = [call EXCEPT ![c].at = "write", ![c].seen = seen]
               /\ UNCHANGED mu
    /\ UNCHANGED <<conf, rows>>

-----------------------------------------------------------------------------
\* PutManagerConfig: the generated file with the existing groupAllowFrom and
\* plugin entries merged into it (mergeGroupAllowFrom, mergeUserPluginConfig).
MergedConfig(op, seen) ==
    [here |-> TRUE, allow |-> seen.allow, custom |-> seen.custom]

NewConfig(op, seen) ==
    CASE op.kind = "put"   -> MergedConfig(op, seen)
      [] op.kind = "allow" -> [seen EXCEPT !.allow = @ \cup {op.id}]
      [] op.kind = "deny"  -> [seen EXCEPT !.allow = @ \ {op.id}]

NewRows(op, seen) == IF op.kind = "upsert" THEN seen \cup {op.id} ELSE seen \ {op.id}

\* PutObject of the whole file (the copy of openclaw.json on the file system
\* shared with the Manager's container is written with it and left out).
Store(c, failed) ==
    /\ call[c].at = "write"
    /\ LET op == call[c].op
           seen == call[c].seen
       IN CASE failed -> UNCHANGED <<conf, rows>>
            [] ~failed /\ OnConfig(op) ->
                 /\ conf' = NewConfig(op, seen.conf)
                 /\ UNCHANGED rows
            [] OTHER ->
                 /\ rows' = [rows EXCEPT ![op.file] = NewRows(op, seen.rows)]
                 /\ UNCHANGED conf
    /\ Return(c)

\* The process stops: the calls and the mutex are gone.
LegacyCrash ==
    /\ mu' = Nobody
    /\ call' = [c \in Callers |-> Idle]
    /\ UNCHANGED <<conf, rows>>

\* The user customises the plugins of the Manager.
CustomiseManager ==
    /\ conf.here
    /\ ~conf.custom
    /\ conf' = [conf EXCEPT !.custom = TRUE]
    /\ UNCHANGED <<rows, mu, call>>
=============================================================================
