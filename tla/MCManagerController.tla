------------------------ MODULE MCManagerController ------------------------
(***************************************************************************)
(* Small instances of ManagerController for TLC.                           *)
(***************************************************************************)
EXTENDS ManagerController

\* All that a user may ask of a Manager, and the states that keep its
\* container (docker stops it in place for Sleeping).
MCStates == {"Running", "Sleeping", "Stopped"}
MCStatesKept == {"Running", "Sleeping"}
=============================================================================
