SPECIFICATION Spec
CONSTANTS
    t1 = t1
    t2 = t2
    Trackers = {t1, t2}
    NodeIds = {0, 1, 2}
    Configured <- ConfiguredAs
    MaxStep = 1
    NoNode = NoNode
    MaxTime = 3
INVARIANTS
    TrackersDisjoint
