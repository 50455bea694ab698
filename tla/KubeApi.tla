------------------------------ MODULE KubeApi ------------------------------
(***************************************************************************)
(* The Kubernetes API server and the controller-runtime informer, as the   *)
(* reconcilers use them for one custom resource.  Neither is code of this  *)
(* repository: the module states what internal/controller relies on.       *)
(*                                                                         *)
(* Reads of the reconcilers and of the HTTP handlers come from the cache   *)
(* of mgr.GetClient(); writes go to the API server, and each version       *)
(* reaches the cache later, in the order of resourceVersions.  Whoever     *)
(* reads the cache may see any version from the last one delivered on, so  *)
(* a delivery may skip versions but never goes back.                       *)
(***************************************************************************)
EXTENDS Naturals

VARIABLES
    api,      \* the object in the API server; exists = FALSE once removed
    cache,    \* the informer cache's copy
    watch     \* the versions the informer has not received yet

kube == <<api, cache, watch>>

\* A write that changes nothing keeps the resourceVersion and sends no event.
Write(o) ==
    IF o = api
    THEN UNCHANGED <<api, watch>>
    ELSE /\ api' = [o EXCEPT !.rv = api.rv + 1]
         /\ watch' = watch \cup {api'}

\* A watch event (or a burst of them) reaches the cache.
Receive ==
    /\ \E v \in watch : /\ cache' = v
                        /\ watch' = {u \in watch : u.rv > v.rv}
    /\ UNCHANGED api

\* A new process lists the object and starts a new watch.
Relist == cache' = api /\ watch' = {} /\ UNCHANGED api

\* client.Update and Status().Update send the resourceVersion that was read.
UpdateAccepted(o) == api.exists /\ o.rv = api.rv

\* client.MergeFrom sends no resourceVersion, unless the object was refreshed
\* from the API server after the base was copied: the diff then contains it.
PatchAccepted(o, base) == api.exists /\ (o.rv = base.rv \/ o.rv = api.rv)

\* A merge patch carries the fields in which the new copy differs from the
\* base and leaves the others as they are in the API server.
Merged(current, base, new) == IF new = base THEN current ELSE new

\* Asking for deletion only marks an object that has a finalizer.
Deleted(o) == [o EXCEPT !.deleting = TRUE, !.exists = o.fin]

\* Removing the last finalizer of an object marked for deletion removes it.
Unfinalized(o) == [o EXCEPT !.fin = FALSE, !.exists = ~o.deleting]
=============================================================================
