------------------------------ MODULE Backend ------------------------------
(***************************************************************************)
(* The worker backends of hiclaw-controller (internal/backend): what one   *)
(* call of the WorkerBackend interface does to the single container (or    *)
(* Pod) that carries a member's name.  Docker and Kubernetes differ where  *)
(* it matters to the reconcilers: a Docker delete is immediate, a Docker   *)
(* create replaces a container of the same name, a Pod delete leaves the   *)
(* Pod visible until it has terminated, a Pod create then conflicts.       *)
(*                                                                         *)
(* A container is a record:                                                *)
(*   st    the raw state ("created" is docker's created / a Pending Pod,   *)
(*         "exited" an exited container / a Succeeded or Failed Pod)       *)
(*   gen   the generation of the spec it was built from                    *)
(*   atObs the status.observedGeneration in its creator's copy of the CR   *)
(*   term  a Pod that has been deleted and has not gone away yet           *)
(***************************************************************************)
EXTENDS Naturals

CONSTANT BackendKind    \* which backend DetectWorkerBackend returns

ASSUME BackendKindAssumption == BackendKind \in {"docker", "k8s"}

RawStates == {"absent", "created", "running", "exited", "unknown"}

Container == [st : RawStates, gen : Nat, atObs : Nat, term : BOOLEAN]

NoContainer == [st |-> "absent", gen |-> 0, atObs |-> 0, term |-> FALSE]

\* A container that has not been told to go away.
Kept(c) == c.st # "absent" /\ ~c.term

\* A kept container that Status reports as running or starting.
Live(c) == Kept(c) /\ c.st \in {"created", "running"}

(***************************************************************************)
(* Status: normalizeDockerStatus and normalizeK8sPodPhase agree once the   *)
(* raw states are identified; a terminating Pod keeps its phase.           *)
(***************************************************************************)
Status(c) == CASE c.st = "running" -> "running"
               [] c.st = "created" -> "starting"
               [] c.st = "exited"  -> "stopped"
               [] c.st = "absent"  -> "not_found"
               [] OTHER            -> "unknown"

\* DELETE ?force=true removes the container; deleting a Pod only marks it.
Delete(c) == IF BackendKind = "docker" \/ c.st = "absent"
             THEN NoContainer
             ELSE [c EXCEPT !.term = TRUE]

\* K8sBackend.Stop is Delete; docker stops a running container in place.
Stop(c) == IF BackendKind = "k8s"
           THEN Delete(c)
           ELSE [c EXCEPT !.st = IF @ \in {"running", "unknown"}
                                 THEN "exited" ELSE @]

\* K8sBackend.Start changes nothing; docker starts a stopped container.
Start(c) == [c EXCEPT !.st = IF BackendKind = "docker" /\ @ \in {"created", "exited"}
                             THEN "running" ELSE @]

(***************************************************************************)
(* Create: the outcomes of a call that meets no fault.  n is the requested *)
(* container; ErrConflict is the value "conflict".                         *)
(***************************************************************************)
Create(c, n) ==
    IF BackendKind = "docker"
    THEN {[ctr |-> [n EXCEPT !.st = "running"], res |-> "ok"]}
    ELSE IF c.st # "absent"
         THEN {[ctr |-> c, res |-> "conflict"]}
         ELSE {[ctr |-> [n EXCEPT !.st = "created"], res |-> "ok"]}

(***************************************************************************)
(* Create when a call inside it fails.  Docker may fail before it touches  *)
(* anything (image pull), after doCreate removed a container of the same   *)
(* name, or between create and start, which leaves a created container.    *)
(***************************************************************************)
CreateFailure(c, n) ==
    {[ctr |-> c, res |-> "error"]}
      \cup IF BackendKind = "docker"
           THEN {[ctr |-> NoContainer, res |-> "error"],
                 [ctr |-> [n EXCEPT !.st = "created"], res |-> "error"]}
           ELSE {}
=============================================================================
