------------------------- MODULE MCWorkerController -------------------------
(***************************************************************************)
(* Small instances of WorkerController for TLC.                            *)
(***************************************************************************)
EXTENDS WorkerController

\* A worker whose spec never sets spec.state, and the states a user or the
\* lifecycle API can ask for.
MCSpecs == {[state |-> s, managed |-> TRUE] : s \in {"", "Sleeping", "Stopped"}}

\* With an edit that keeps the worker running.
MCSpecsAll == MCSpecs \cup {[state |-> "Running", managed |-> TRUE]}

\* Running and sleeping workers, and one whose process is managed outside
\* the controller.
MCSpecsRemote == {[state |-> "", managed |-> TRUE], [state |-> "Sleeping", managed |-> TRUE],
                  [state |-> "", managed |-> FALSE]}

\* One spec and its edit.
MCSpecsRunning == {[state |-> s, managed |-> TRUE] : s \in {"", "Running"}}
=============================================================================
