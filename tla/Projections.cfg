CONSTANTS
    Keys = {k1, k2, k3}
    Rescans = {k2, k3}
    Requests = {r1, r2}
    Script = script
    Deployments = {TRUE, FALSE}
    MaxApplies = 2
    Writers = {r1, r2}
    Scripts = {s1, s2}
    Nobody = nobody
    Orphan = orphan
    Servers = {TRUE, FALSE}
    MaxWrites = 3
CHECK_DEADLOCK FALSE
SPECIFICATION ProjectionsSpec
SYMMETRY Symmetry
INVARIANTS  ProjectionsInv
PROPERTIES   CommitExact
