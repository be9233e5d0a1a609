\* Four requests of two callers against a limit of two.
SPECIFICATION Spec
CONSTANTS
    Holders = {h1, h2, h3, h4}
    Keys = {k1, k2}
    Limit = 2
    Free = Free
    NoOp = NoOp
    Released = Released
INVARIANTS TypeOK CountsExact WithinLimit
