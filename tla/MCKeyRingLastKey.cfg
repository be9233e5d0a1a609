\* Control revokes every key: the empty set is refused and the keys stay live.
SPECIFICATION Spec
CONSTANTS
    Callers = {c1, c2}
    k1 = k1
    k2 = k2
    Ids = {k1, k2}
    Deployment = here
    Foreign = there
    Renders <- MCRenders
    Interval = 2
    MaxTime = 5
    NoSet = NoSet
    NoId = NoId
INVARIANT RevokedWithinInterval
