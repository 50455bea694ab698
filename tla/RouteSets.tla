----------------------------- MODULE RouteSets -----------------------------
(***************************************************************************)
(* What the gateway promises about the consumers an AI route allows: every *)
(* change is a change of one consumer's own authorizations.  AIRoutes      *)
(* implements it with reads and writes of whole routes.                    *)
(***************************************************************************)
CONSTANTS Consumers, Routes

VARIABLE allowed

Init == allowed \in [Routes -> SUBSET Consumers]

ChangeOnly(c) ==
    /\ allowed' \in [Routes -> SUBSET Consumers]
    /\ \A r \in Routes : allowed'[r] \ {c} = allowed[r] \ {c}

Next == \E c \in Consumers : ChangeOnly(c)

Spec == Init /\ [][Next]_allowed
=============================================================================
