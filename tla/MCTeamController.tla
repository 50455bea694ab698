------------------------- MODULE MCTeamController -------------------------
EXTENDS TeamController

CONSTANTS lead, dev

MCNames == {lead, dev}

\* Nothing is lost; dev never starts; anything but a cleanup or the ping fails
\* while reads are current; cleanups and pings fail and reads are late.
MCEnvs == {[faults |-> {"infra", "create", "status", "exit"}, lag |-> "none", reverts |-> TRUE,
            broken |-> {}],
           [faults |-> {}, lag |-> "none", reverts |-> FALSE, broken |-> {dev}],
           [faults |-> FaultKinds \ {"exit", "delete", "detect", "status"}, lag |-> "none",
            reverts |-> FALSE, broken |-> {}],
           [faults |-> {"crash", "delete", "detect"}, lag |-> "patches",
            reverts |-> FALSE, broken |-> {}]}

\* A failed cleanup with current reads; a restart with late ones.
MCEnvsLoose == {[faults |-> {"delete"}, lag |-> "none", reverts |-> FALSE,
                 broken |-> {}],
                [faults |-> {"crash"}, lag |-> "patches", reverts |-> FALSE,
                 broken |-> {}]}

\* Only the docker ping fails; only a status of the summary is not read.
MCEnvsPing == {[faults |-> {"detect"}, lag |-> "none", reverts |-> FALSE, broken |-> {}]}

MCEnvsStatus == {[faults |-> {"status"}, lag |-> "none", reverts |-> FALSE, broken |-> {}]}
=============================================================================
