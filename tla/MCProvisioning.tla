-------------------------- MODULE MCProvisioning --------------------------
EXTENDS Provisioning, TLC

CONSTANTS ann, mgr, r1, r2

MCClients == {ann, mgr}
MCManagers == {mgr}
MCRenamed == {ann}
MCRoutes == {r1, r2}

\* ann's model has a provider, the Manager uses every route.
MCProvider == ann :> {r1} @@ mgr :> {}

Lives(a, m) == ann :> a @@ mgr :> m

\* Two CRs and another writer of the routes, who writes as often as conflicts
\* are retried, or less; no versions, and a CR of an earlier release; a name
\* that is used again, with Higress and in the cloud; and everything that may
\* go wrong for good, there and there.
MCEnvs == {[faults |-> {"gateway", "crash"}, cloud |-> FALSE, versioned |-> TRUE,
            legacy |-> {}, lives |-> Lives(1, 1), edits |-> 2],
           [faults |-> {}, cloud |-> FALSE, versioned |-> TRUE,
            legacy |-> {}, lives |-> Lives(1, 1), edits |-> 1],
           [faults |-> {"save"}, cloud |-> FALSE, versioned |-> FALSE,
            legacy |-> {ann}, lives |-> Lives(1, 1), edits |-> 0],
           [faults |-> {"matrix", "slow", "oss", "save", "api", "crash"}, cloud |-> FALSE,
            versioned |-> FALSE, legacy |-> {}, lives |-> Lives(2, 0), edits |-> 0],
           [faults |-> {"matrix", "gateway", "api", "crash"}, cloud |-> TRUE, versioned |-> FALSE,
            legacy |-> {}, lives |-> Lives(2, 0), edits |-> 0],
           [faults |-> {"cleanup", "join", "torn"}, cloud |-> FALSE,
            versioned |-> FALSE, legacy |-> {}, lives |-> Lives(2, 0), edits |-> 0],
           [faults |-> {"key", "save"}, cloud |-> TRUE,
            versioned |-> FALSE, legacy |-> {}, lives |-> Lives(1, 0), edits |-> 0]}
=============================================================================
