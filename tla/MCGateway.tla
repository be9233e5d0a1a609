------------------------------ MODULE MCGateway ------------------------------
(***************************************************************************)
(* TLC instances of Gateway.                                               *)
(***************************************************************************)
EXTENDS Gateway, TLC

CONSTANTS k1, k2, k3    \* two keys of one tenant, and one of another

MCTenantOf == (k1 :> <<"acme">>) @@ (k2 :> <<"acme">>) @@ (k3 :> <<"zeta">>)

\* k3 may not run commands.
MCPermitted == ({k1, k2} \X {"exec", "scope", "bare"}) \cup {<<k3, "scope">>}

Call(tool) == [method |-> "POST", version |-> "pinned", origin |-> "allowed",
               body |-> "call", tool |-> tool]

In(c, k, chat, q) == [conn |-> c, key |-> k, chat |-> chat, shape |-> q]

\* Calls of two keys of one tenant, on any connection.
CallInputs == {In(c, k, <<>>, Call("exec")) : c \in Conns, k \in {k1, k2}}

\* A request of each kind the handler tells apart, by an allowed caller in a chat; every
\* tool, by a restricted caller; a call, by an unknown one.
ShapeInputs ==
    LET allowed == {Call(t) : t \in Tools}
                   \cup {[Call("exec") EXCEPT !.body = b] : b \in Bodies}
                   \cup {[Call("exec") EXCEPT !.body = b, !.version = "absent"] :
                            b \in {"notification", "initialize", "toolsList", "call"}}
                   \cup {[Call("exec") EXCEPT !.method = "other"],
                         [Call("exec") EXCEPT !.version = "other"],
                         [Call("exec") EXCEPT !.origin = "disallowed"]}
    IN  UNION {{In(c, k1, <<"chat1">>, q) : q \in allowed}
               \cup {In(c, k3, <<>>, Call(t)) : t \in Tools}
               \cup {In(c, NoKey, <<>>, Call("exec"))} : c \in Conns}

Symmetry == Permutations(Requests) \cup Permutations(Conns)
===============================================================================
