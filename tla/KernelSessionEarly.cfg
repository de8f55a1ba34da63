SPECIFICATION Spec
CONSTANTS
    Attach = Attach
    Preserve = Preserve
    Release = Release
    None = None
    Changes = {c1, c2}
    Ends = {}
    Named = {c1}
    Early = {c1}
    Events = {}
INVARIANT
    KillLeavesNothing
