\* The same instance, asked whether every hop presents a token the file held meanwhile.
SPECIFICATION Spec
CONSTANTS
    NoMount = NoMount
    Unset = Unset
    Refused = Refused
    Requests = {r1, r2}
    Calls <- MCCalls
    Deployments <- MCDeployments
    Tokens = {t1, t2}
    NoToken = NoToken
    Scopes = {"", "s"}
    NoCall = NoCall
SYMMETRY Symmetry
INVARIANT TokenPerPresentation
CHECK_DEADLOCK FALSE
