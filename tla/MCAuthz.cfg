\* Every path of up to four segments against seven documents, with and without the flag.
SPECIFICATION Spec
CONSTANTS
    Callers = {"k1", "k2"}
    Advertised = {"bash_tool", "view", "resolve_scope"}
    Docs <- MCDocs
    Flags <- MCFlags
    Paths <- MCPaths
    NoPath = NoPath
    NoPolicy = NoPolicy
INVARIANTS DecidesAsIntended BootedPolicyResolves
CHECK_DEADLOCK FALSE
