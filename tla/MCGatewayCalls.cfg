\* Two calls of one tenant, by one key or two, under the scheduling of goroutines:
\* ceiling 1 per key, line of 2 per tenant.
SPECIFICATION FairSpec
CONSTANTS
    Requests = {r1, r2}
    Conns = {c1, c2}
    k1 = k1
    k2 = k2
    k3 = k3
    Keys = {k1, k2, k3}
    NoKey = NoKey
    TenantOf <- MCTenantOf
    Inputs <- CallInputs
    Permitted <- MCPermitted
    CeilingLimit = 1
    SerializeDepth = 2
    Free = Free
    NoOp = NoOp
    Released = Released
    NoInput = NoInput
INVARIANTS TypeOK AckMeansRecorded RecordedBeforeNext RefusalsRecorded
PROPERTY EveryRequestAnswered
