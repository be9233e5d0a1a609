------------------------------- MODULE MCAuthz -------------------------------
(***************************************************************************)
(* TLC instances of Authz.                                                 *)
(***************************************************************************)
EXTENDS Authz, TLC

MaxSegs == 4    \* bound on the segments of a path

AbsPath(segs) == [abs |-> TRUE, segs |-> segs]

\* Every path of up to MaxSegs segments over two names and the two special ones.
MCPaths == [abs : BOOLEAN, segs : UNION {[1..n -> {"home", "mnt", ".", ".."}] : n \in 0..MaxSegs}]

Grant(prefixes) == ("bash_tool" :> {}) @@ ("view" :> prefixes) @@ ("resolve_scope" :> {})

Doc(profiles, callers) == [profiles |-> profiles, callers |-> callers, default |-> "full"]

NoCallers == [c \in {} |-> ""]

\* Prefixes at one and two levels, a bound caller, the root prefix, a profile of the
\* flag's name that grants more than the flag's, bindings and tools that Load refuses.
MCDocs ==
    LET full == ("full" :> Grant({AbsPath(<<"home">>), AbsPath(<<"mnt", "home">>)}))
    IN  { Doc(full, NoCallers),
          Doc(full @@ ("files" :> ("view" :> {AbsPath(<<"mnt">>)})), "k1" :> "files"),
          Doc("full" :> Grant({AbsPath(<<>>)}), NoCallers),
          Doc(full @@ ("resolve-only" :> ("bash_tool" :> {})), NoCallers),
          Doc(full, "k1" :> "undeclared"),
          Doc("full" :> ("sub_agent" :> {}), NoCallers),
          Doc("other" :> Grant({}), NoCallers) }

MCFlags == {{}, {"k1"}, {"k2"}}
===============================================================================
