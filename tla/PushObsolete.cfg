\* The newest push is obsolete: no fetch stores the pushes before it.
SPECIFICATION FairSpec
CONSTANTS
    Fetchers = {f1}
    Window = 2
    MaxPushes = 2
    MaxResets = 0
    MaxObsolete = 1
    MaxErrors = 0
    MaxExpiries = 0
PROPERTY ObsoleteLeftOut
CHECK_DEADLOCK FALSE
