----------------------------- MODULE MCForwarder -----------------------------
(***************************************************************************)
(* TLC instance of Forwarder: the deployments, and the calls.              *)
(***************************************************************************)
EXTENDS Forwarder, TLC

Mount(dest, fs, mem) == [dest |-> dest, fs |-> fs, mem |-> mem, ro |-> FALSE]
In == Mount(<<"/", "in">>, "f1", "")
Out == Mount(<<"/", "out">>, "", "m1")

\* Two mounts, as shipped; and what an operator may write instead.
Doc == [decodes |-> TRUE, profile |-> "internal_workforce", singular |-> NoMount,
        plural |-> <<In, Out>>, egress |-> "deny", pids |-> 64, timeout |-> 0]

Fleet(n) == [i \in 1..n |-> Mount(<<"/", "in", "/", ToString(i)>>, "f1", "")]

GoodDocs ==
    {Doc,
     [Doc EXCEPT !.plural = Fleet(4), !.timeout = 1],
     [Doc EXCEPT !.singular = In, !.plural = <<>>, !.timeout = 301],
     [Doc EXCEPT !.plural = <<Mount(<<"/", "out", "/">>, "f2", "")>> \o Fleet(2) \o <<Out>>,
                 !.profile = "trusted_operator", !.pids = 0, !.timeout = 300, !.egress = "open"]}

BadDocs ==
    {[Doc EXCEPT !.decodes = FALSE],
     [Doc EXCEPT !.profile = ""], [Doc EXCEPT !.profile = "root"],
     [Doc EXCEPT !.singular = Mount(<<"/", "aux">>, "f3", "")], [Doc EXCEPT !.plural = <<>>],
     [Doc EXCEPT !.plural = Fleet(5)], [Doc EXCEPT !.pids = Unset]}
    \cup {[Doc EXCEPT !.plural = <<In, m>>] :
            m \in {In, Mount(<<>>, "f2", ""), Mount(<<"out">>, "f2", ""),
                   Mount(<<"/", "out">>, "", ""), Mount(<<"/", "out">>, "f2", "m2")}}

Opts(doc) ==
    [bootSet |-> TRUE, deployment |-> TRUE, refresh |-> 2, credentialFile |-> TRUE,
     provisioningFile |-> TRUE, identity |-> TRUE, url |-> TRUE, ca |-> "good",
     pair |-> "good", doc |-> doc]

BadOpts ==
    LET o == Opts(Doc)
    IN  {[o EXCEPT !.bootSet = FALSE], [o EXCEPT !.deployment = FALSE],
         [o EXCEPT !.refresh = 0], [o EXCEPT !.refresh = 5],
         [o EXCEPT !.credentialFile = FALSE], [o EXCEPT !.provisioningFile = FALSE],
         [o EXCEPT !.identity = FALSE], [o EXCEPT !.ca = "absent"], [o EXCEPT !.ca = "bad"],
         [o EXCEPT !.pair = "absent"], [o EXCEPT !.pair = "bad"],
         [o EXCEPT !.url = FALSE, !.ca = "absent", !.pair = "absent"]}

MCDeployments == {Opts(d) : d \in GoodDocs \cup BadDocs} \cup BadOpts

MCCalls ==
    {[tenant |-> <<"a">>, chat |-> <<"b">>, tool |-> "exec"],
     [tenant |-> <<"b">>, chat |-> <<"b">>, tool |-> "resolve_scope"],
     [tenant |-> <<"a">>, chat |-> <<>>, tool |-> "destroy"],
     [tenant |-> <<"a">>, chat |-> <<"c">>, tool |-> "bare"],
     [tenant |-> <<"a", "b">>, chat |-> <<>>, tool |-> "bare"]}

Symmetry == Permutations(Tokens) \cup Permutations(Requests)
===============================================================================
