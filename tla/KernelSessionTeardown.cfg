SPECIFICATION Spec
CONSTANTS
    Attach = Attach
    Preserve = Preserve
    Release = Release
    None = None
    Changes = {}
    Ends = {e1}
    Named = {e1}
    Early = {}
    Events = {}
PROPERTY
    RefusalEndsTheSession
