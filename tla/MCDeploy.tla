------------------------------ MODULE MCDeploy -------------------------------
(* Small instance of Deploy for TLC. *)
EXTENDS Deploy

MCIds == {"cr", "runtime", "leader"}

MCSpec(soul, agents, expose) == [soul |-> soul, agents |-> agents, expose |-> expose]

MCSpecs == {MCSpec("none", "none", {80}), MCSpec("s1", "a1", {81})}

MCSpecsPorts == {MCSpec("none", "none", e) : e \in {{}, {80}, {81}}}

MCEnv(role, package, renamed, race, lag, peers, f) ==
    [role |-> role, package |-> package, renamed |-> renamed, race |-> race,
     lag |-> lag, peers |-> peers, faults |-> f]

MCEnvs == {
    MCEnv("standalone", "oss", FALSE, FALSE, FALSE, {}, {"write"}),
    MCEnv("standalone", "none", FALSE, FALSE, TRUE, {}, {}),
    MCEnv("team_leader", "none", FALSE, FALSE, TRUE, {}, {}),
    MCEnv("team_leader", "http", FALSE, FALSE, FALSE, {}, {"fatal", "write", "crash"}),
    MCEnv("standalone", "http", TRUE, TRUE, FALSE, {}, {"read", "fatal", "expose", "crash"}),
    MCEnv("standalone", "none", FALSE, TRUE, FALSE, {}, {"read", "write", "patch"}),
    MCEnv("standalone", "none", FALSE, FALSE, FALSE, {"manager"}, {}),
    MCEnv("standalone", "none", FALSE, FALSE, FALSE, {"team"}, {})}

MCEnvsLate == {MCEnv("standalone", "none", FALSE, FALSE, TRUE, {}, {})}

MCEnvsOneFailure == {MCEnv("standalone", "none", FALSE, FALSE, FALSE, {}, {"fatal"})}
=============================================================================
