\* Two requests of every kind on one or two connections; a ceiling they stay under,
\* a line of one place.
SPECIFICATION Spec
CONSTANTS
    Requests = {r1, r2}
    Conns = {c1, c2}
    k1 = k1
    k2 = k2
    k3 = k3
    Keys = {k1, k2, k3}
    NoKey = NoKey
    TenantOf <- MCTenantOf
    Inputs <- ShapeInputs
    Permitted <- MCPermitted
    CeilingLimit = 2
    SerializeDepth = 1
    Free = Free
    NoOp = NoOp
    Released = Released
    NoInput = NoInput
SYMMETRY Symmetry
INVARIANTS RefusalsRecorded DeniedNeverForwarded LogonTrail NothingOutlivesRequests
