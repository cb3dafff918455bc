\* Overlapping fetchers, failures, a lost cache entry, an obsolete push and a reset.
SPECIFICATION FairSpec
CONSTANTS
    Fetchers = {f1, f2}
    Window = 2
    MaxPushes = 3
    MaxResets = 1
    MaxObsolete = 1
    MaxErrors = 1
    MaxExpiries = 1
INVARIANTS TypeOK NothingSkipped
PROPERTY PushesStored
CHECK_DEADLOCK FALSE
