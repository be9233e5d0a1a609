\* Four callers over two sessions under the goroutine scheduler's fairness; the fourth
\* caller of a session is refused.
SPECIFICATION FairSpec
CONSTANTS
    Callers = {c1, c2, c3, c4}
    Sessions = {s1, s2}
    Gates = {g1, g2}
    NoGate = NoGate
    NoSession = NoSession
    Tools = {bash, view}
    ParallelTools = {view}
    MaxDepth = 3
    MaxTickets = 3
INVARIANTS TypeOK LineInv MutualExclusion SelfCleaning HeadIsAwake
PROPERTIES ImplementsSessionLine EveryCallServed
