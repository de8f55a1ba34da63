SPECIFICATION MCSpec
CONSTANTS
    k1 = k1
    k2 = k2
    p1 = p1
    p2 = p2
    alice = alice
    port = port
    NoEndpoint = NoEndpoint
    Ids = {k1, k2, p1, p2}
    Clients = {alice}
    Owner <- OneOwner
    Endpoint <- OnePort
    MaxSessions = 1
    History = 0
    Events = {"call", "end", "idle", "timeout", "refusal", "death", "handoff",
              "revoke", "shutdown"}
INVARIANTS
    ReclaimSparesUse
    NeverForgotten
    ExitLeavesNothing
    EndpointExclusive
PROPERTIES
    ReclaimedIsReleased
    RevokedLetsGo
