----------------------- MODULE MCControllerProcess ---------------------------
(* Small instance of ControllerProcess for TLC. *)
EXTENDS ControllerProcess

All == {"storage", "matrix", "gateway"}

MCRows(ws, ts) == [workers |-> ws, teams |-> ts]

MCEnv(users, fs, ready, before, live) ==
    [users |-> users, faults |-> fs, abrupt |-> FALSE, mirrored |-> FALSE,
     renamed |-> FALSE, ready |-> ready, before |-> before, live |-> live]

MCEnvs == {
    MCEnv({"file", "touch", "remove"}, {}, All, NoRows, {}),
    [MCEnv({"file", "touch", "http"}, {"stop"}, All, NoRows, {}) EXCEPT !.abrupt = TRUE],
    MCEnv({"file", "chmod", "remove", "early", "recreate"}, {"api"}, All, NoRows, {}),
    MCEnv({"console"}, {"gateway", "stop"}, {}, NoRows, {}),
    MCEnv({}, {"timeout", "admin", "storage", "api"}, {}, MCRows({"a", "m"}, {"t"}), {}),
    MCEnv({"delete"}, {"stop"}, All, NoRows, {"a", "t"}),
    [MCEnv({"delete"}, {"stop", "registry", "read"}, All, NoRows, {"t"}) EXCEPT !.abrupt = TRUE],
    MCEnv({"delete"}, {"stop"}, All, MCRows({"a", "m"}, {"t"}), {}),
    [MCEnv({"http", "delete"}, {"stop", "registry"}, All, NoRows, {})
        EXCEPT !.mirrored = TRUE, !.renamed = TRUE]}

MCEnvsRestart == {MCEnv({"file"}, {"stop"}, All, NoRows, {})}
=============================================================================
