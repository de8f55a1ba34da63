SPECIFICATION MCSpec
CONSTANTS
    Attach = Attach
    Preserve = Preserve
    Release = Release
    None = None
    c1 = c1
    c2 = c2
    e1 = e1
    Changes = {c1, c2}
    Ends = {e1}
    Named = {c1, e1}
    Early = {}
    Events = {"crash", "loss", "handoff"}
INVARIANTS
    KillLeavesNothing
    ReleasedIsTrue
    EndpointFreeIsSafe
    OrphanKeepsKernel
    LateReleaseSettles
PROPERTIES
    UnresolvedUntilProven
    LateRefusalEndsTheSession
