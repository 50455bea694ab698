---------------------------- MODULE MCHumanRooms ----------------------------
EXTENDS HumanRooms

CONSTANTS team, solo

MCRooms == {team, solo}

Quiet == [faults |-> {}, lag |-> "none", start |-> MCRooms, edits |-> {}, rotates |-> FALSE, up |-> {solo},
          listed |-> {team}, swept |-> {}, led |-> {}, lives |-> 1]

\* A homeserver that fails; a name that is used again; lost patches and
\* restarts; a user who changes the password, also with late reads; any late
\* reads; a Team that lists the Human; one that does not; and one with its own
\* admin.
MCEnvs == {[Quiet EXCEPT !.faults = {"matrix"}, !.start = {solo}, !.edits = {"grant", "revoke"},
                         !.lives = 2],
           [Quiet EXCEPT !.faults = {"slow", "bot", "join"}, !.up = MCRooms, !.lives = 2],
           [Quiet EXCEPT !.faults = {"api", "crash"}, !.lives = 2],
           [Quiet EXCEPT !.start = {solo}, !.edits = {"grant", "revoke"}, !.rotates = TRUE],
           [Quiet EXCEPT !.lag = "account", !.rotates = TRUE, !.faults = {"api", "slow"}],
           [Quiet EXCEPT !.lag = "any", !.edits = {"revoke"}],
           [Quiet EXCEPT !.swept = {team}, !.edits = {"revoke"}],
           [Quiet EXCEPT !.swept = {team}, !.listed = {}, !.edits = {"revoke"}],
           [Quiet EXCEPT !.swept = {team}, !.led = {team}, !.edits = {"revoke"}]}

\* Late reads and a user who changes the password; a Team with its own admin.
MCEnvsLate == {[Quiet EXCEPT !.lag = "any", !.rotates = TRUE]}

MCEnvsLed == {[Quiet EXCEPT !.swept = {team}, !.led = {team}]}

MCEnvsSwept == {[Quiet EXCEPT !.swept = {team}, !.listed = {}]}
=============================================================================
