SPECIFICATION Spec
CONSTANTS
    f1 = f1
    f2 = f2
    c1 = c1
    c2 = c2
    p1 = p1
    p2 = p2
    t1 = t1
    t2 = t2
    Flows = {f1, f2}
    Scenes <- MCScenes
    MaxEntries = 2
    MaxPwr = 2
    MaxSame = 1
    MaxSta = 1
INVARIANTS CacheInStep Offloaded OnlyDummies
