\* Two calls at once, two tokens, four deployments that boot with an endpoint.
SPECIFICATION Spec
CONSTANTS
    NoMount = NoMount
    Unset = Unset
    Refused = Refused
    Requests = {r1, r2}
    Calls <- MCCalls
    Deployments <- MCDeployments
    Tokens = {t1, t2}
    NoToken = NoToken
    Scopes = {"", "s"}
    NoCall = NoCall
SYMMETRY Symmetry
INVARIANTS ProvisionedAsWritten TokenIsFresh NeverFabricated SessionsApart ConnectionsAccounted
CHECK_DEADLOCK FALSE
