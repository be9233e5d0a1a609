------------------------------ MODULE Forwarder ------------------------------
(***************************************************************************)
(* The F5 leg: how the daemon builds its Control forwarder                 *)
(* (cmd/ocu-mcp-gatewayd/main.go serve, internal/forward/credential.go,    *)
(* dial.go, NewControlForwarderWithDial of http.go), and what a Forward or *)
(* a Destroy does on the wire (http.go).                                   *)
(*                                                                         *)
(* Control, its replies, the credential file it rotates and the network    *)
(* are outside the repository.  net/http is modelled by what it does with  *)
(* a connection: a transport keeps the connection of a body read to its    *)
(* end, with no idle timeout here, and closes that of a body closed early, *)
(* of a failed or of a cancelled request.                                  *)
(***************************************************************************)
EXTENDS Provisioning

CONSTANTS
    Requests,       \* calls of the forwarder, each made once
    Calls,          \* what may be called: records of tenant, chat and tool
    Deployments,    \* the daemon's options and the files they name
    Tokens,         \* what the credential file may hold
    NoToken,        \* a missing, unreadable or blank file; no token
    Scopes,         \* effective scopes, "" among them
    NoCall          \* the call of a request not made yet

\* What a call asks of Control, by the tool it is for.
CallTools == {"destroy", "resolve_scope", "exec", "bare"}

ASSUME ForwarderAssumption ==
    /\ NoToken \notin Tokens
    /\ NoCall \notin Calls
    /\ Calls \subseteq [tenant : Seq(STRING), chat : Seq(STRING), tool : CallTools]
    /\ \A o \in Deployments :
         /\ o.doc.timeout \in Int
         /\ o.doc.plural \in Seq(Mounts)
         /\ o.doc.singular \in Mounts \cup {NoMount}

VARIABLES
    stage,      \* how far serve is: options, credential, policy, dial, serving, exited
    opts,       \* the options and files of this deployment
    policy,     \* ControlForwarder.provisioning
    file,       \* the credential file
    pc,         \* request -> idle, send, wait, done
    call,       \* request -> its call
    hop,        \* request -> the number of its current hop
    token,      \* request -> the local variable token
    replies,    \* request -> what Control answered to its hops so far
    result,     \* request -> what the call returned
    wire,       \* history: the requests that reached the network
    conns,      \* open connections to Control
    held        \* history: request -> what the file has held since it began to prepare a hop

bootVars == <<stage, opts, policy>>
callVars == <<pc, call, hop, token, replies, result, wire, conns>>
vars == <<bootVars, file, callVars, held>>

Failed == [ok |-> FALSE, scope |-> ""]

Init ==
    /\ stage = "options" /\ opts \in Deployments /\ policy = Refused
    /\ file \in Tokens \cup {NoToken}
    /\ pc = [r \in Requests |-> "idle"]
    /\ call = [r \in Requests |-> NoCall]
    /\ hop = [r \in Requests |-> 0]
    /\ token = [r \in Requests |-> NoToken]
    /\ replies = [r \in Requests |-> <<>>]
    /\ result = [r \in Requests |-> Failed]
    /\ wire = {} /\ conns = {}
    /\ held = [r \in Requests |-> {}]

-------------------------------------------------------------------------------
(* Boot *)

\* One construction step of serve: the next stage, or the end of the daemon.
Step(from, ok, to) ==
    /\ stage = from
    /\ stage' = IF ok THEN to ELSE "exited"
    /\ UNCHANGED <<opts, file, callVars, held>>

revocationFloor == 5

\* The checks of the options, before any file is read.
CheckOptions ==
    /\ Step("options",
            /\ opts.bootSet /\ opts.deployment
            /\ opts.refresh > 0 /\ opts.refresh < revocationFloor
            /\ opts.credentialFile /\ opts.provisioningFile
            /\ opts.url => "absent" \notin {opts.ca, opts.pair},
            "credential")
    /\ UNCHANGED policy

\* The probe read of the credential, for a named principal.
NewFileServiceCredential ==
    /\ Step("credential", opts.identity /\ file # NoToken, "policy")
    /\ UNCHANGED policy

LoadPolicy ==
    /\ Step("policy", LoadProvisioningPolicy(opts.doc) # Refused, "dial")
    /\ policy' = LoadProvisioningPolicy(opts.doc)

\* LoadMTLSConfig refuses a CA without a certificate and a pair that does not load;
\* hardenDialConfig refuses an endpoint without TLS.
LoadMTLSConfig == opts.ca = "good" /\ opts.pair = "good"

\* LoadMTLSConfig when there is an endpoint, then NewControlForwarderWithDial.
NewControlForwarderWithDial ==
    /\ Step("dial",
            /\ opts.url => LoadMTLSConfig
            /\ opts.identity
            /\ validate(buildCreateRequest(policy, <<"probe">>)),
            "serving")
    /\ UNCHANGED policy

-------------------------------------------------------------------------------
(* Forward and Destroy *)

\* The hops of a call: create and, by the tool, exec or status; destroy is alone.
Hops(c) ==
    CASE c.tool = "destroy" -> <<"destroy">>
      [] c.tool = "resolve_scope" -> <<"create", "status">>
      [] c.tool = "exec" -> <<"create", "exec">>
      [] c.tool = "bare" -> <<"create">>

HopName(r) == Hops(call[r])[hop[r]]

\* Destroy is handed its hint by whoever calls it, which nobody does yet.
Hint(r) == sessionHintFor(call[r].tenant, call[r].chat)

Connection(r, state) == [req |-> r, hop |-> hop[r], state |-> state]

\* The call returns; its locals are gone.
Return(r, res) ==
    /\ pc' = [pc EXCEPT ![r] = "done"]
    /\ result' = [result EXCEPT ![r] = res]
    /\ hop' = [hop EXCEPT ![r] = 0]
    /\ token' = [token EXCEPT ![r] = NoToken]
    /\ held' = [held EXCEPT ![r] = {}]

\* Mutant: the token is the one some earlier call has read.
TokenCached(r) ==
    LET old == {w.token : w \in wire}
    IN  IF old # {} THEN CHOOSE t \in old : TRUE ELSE file

\* FileServiceCredential.Token reads the file again.
Token(r) == file

\* Forward and Destroy up to their first hop: no endpoint, no token or a create that is
\* not admissible, and the call fails; the token is read once for all hops.
Enter(r, c) ==
    /\ stage = "serving" /\ pc[r] = "idle"
    /\ call' = [call EXCEPT ![r] = c]
    /\ IF /\ opts.url /\ Token(r) # NoToken
          /\ c.tool # "destroy" =>
               validate(buildCreateRequest(policy, sessionHintFor(c.tenant, c.chat)))
       THEN /\ token' = [token EXCEPT ![r] = Token(r)]
            /\ pc' = [pc EXCEPT ![r] = "send"]
            /\ hop' = [hop EXCEPT ![r] = 1]
            /\ held' = [held EXCEPT ![r] = {file}]
            /\ UNCHANGED result
       ELSE Return(r, Failed)
    /\ UNCHANGED <<bootVars, file, replies, wire, conns>>

\* What each hop carries beside the token and the hint.
Body(r) ==
    CASE HopName(r) = "create" -> createBody(buildCreateRequest(policy, Hint(r)))
      [] HopName(r) = "exec" -> execBody(policy)
      [] OTHER -> [none |-> TRUE]

\* postJSON up to client.Do: a fresh transport dials a connection of its own.  Of what the
\* file held meanwhile the record keeps the token presented, when it was there.
Send(r) ==
    /\ pc[r] = "send"
    /\ wire' = wire \cup {[req |-> r, hop |-> HopName(r), token |-> token[r],
                           hint |-> Hint(r), body |-> Body(r),
                           held |-> held[r] \cap {token[r]}]}
    /\ conns' = conns \cup {Connection(r, "busy")}
    /\ pc' = [pc EXCEPT ![r] = "wait"]
    /\ held' = [held EXCEPT ![r] = {}]
    /\ UNCHANGED <<bootVars, file, call, hop, token, replies, result>>

\* The dial or the handshake fails, or the caller has gone.
DialFails(r) ==
    /\ pc[r] = "send"
    /\ Return(r, Failed)
    /\ UNCHANGED <<bootVars, file, call, replies, wire, conns>>

\* client.Do or the read of the body fails, before or after Control has answered.
RoundTripFails(r) ==
    /\ pc[r] = "wait"
    /\ conns' = conns \ {Connection(r, "busy")}
    /\ Return(r, Failed)
    /\ UNCHANGED <<bootVars, file, call, replies, wire>>

\* A reply: ok, a 2xx status; fits, within maxReplyBytes; decodes, what is read of it
\* is the JSON the hop expects: also of a reply cut at the bound, when nothing but white
\* space was cut off.  Only a status has a scope.
Answers(name) ==
    {a \in [ok : BOOLEAN, fits : BOOLEAN, decodes : BOOLEAN, scope : Scopes] :
       /\ a.decodes => a.ok
       /\ a.scope # "" => a.decodes /\ name = "status"}

Answer(r, a) ==
    /\ Len(replies[r]) < hop[r]
    /\ replies' = [replies EXCEPT ![r] = Append(@, a)]
    /\ UNCHANGED <<bootVars, file, pc, call, hop, token, result, wire, conns, held>>

\* Mutant: an over-long body is left open.
CloseBodyForgets(r, a) ==
    IF a.fits THEN (conns \ {Connection(r, "busy")}) \cup {Connection(r, "idle")} ELSE conns

\* The deferred Body.Close: a body read to its end gives its connection back to the
\* transport's pool, which nobody closes; an over-long one costs the connection.
CloseBody(r, a) ==
    (conns \ {Connection(r, "busy")})
        \cup (IF a.fits THEN {Connection(r, "idle")} ELSE {})

\* Mutant: a status the client need not see is taken for an empty scope.
SucceedsLenient(r, a) ==
    \/ HopName(r) = "status"
    \/ a.ok /\ (HopName(r) # "destroy" => a.decodes)

\* A 2xx whose bounded read decodes; the reply to a destroy is not decoded, so that an
\* over-long one is a success like any other.
Succeeds(r, a) == a.ok /\ (HopName(r) # "destroy" => a.decodes)

\* The reply is read: the next hop, or the result.
Receive(r) ==
    /\ pc[r] = "wait" /\ Len(replies[r]) = hop[r]
    /\ LET a == Last(replies[r])
       IN  /\ conns' = CloseBody(r, a)
           /\ IF ~Succeeds(r, a) THEN Return(r, Failed)
              ELSE IF hop[r] < Len(Hops(call[r]))
              THEN /\ hop' = [hop EXCEPT ![r] = @ + 1]
                   /\ pc' = [pc EXCEPT ![r] = "send"]
                   /\ held' = [held EXCEPT ![r] = {file}]
                   /\ UNCHANGED <<result, token>>
              ELSE Return(r, [ok |-> TRUE, scope |-> a.scope])
    /\ UNCHANGED <<bootVars, file, call, replies, wire>>

-------------------------------------------------------------------------------
(* The surroundings *)

\* The credential file is replaced, blanked or removed.
Rotate(t) ==
    /\ t # file
    /\ file' = t
    /\ held' = [r \in Requests |-> IF pc[r] = "send" THEN held[r] \cup {t} ELSE held[r]]
    /\ UNCHANGED <<bootVars, callVars>>

\* Control closes a connection it finds idle.
DropIdle(c) ==
    /\ c.state = "idle"
    /\ conns' = conns \ {c}
    /\ UNCHANGED <<bootVars, file, pc, call, hop, token, replies, result, wire, held>>

Boot == CheckOptions \/ NewFileServiceCredential \/ LoadPolicy \/ NewControlForwarderWithDial

Next ==
    \/ Boot
    \/ \E r \in Requests :
         \/ \E c \in Calls : Enter(r, c)
         \/ Send(r) \/ DialFails(r) \/ RoundTripFails(r) \/ Receive(r)
         \/ pc[r] = "wait" /\ \E a \in Answers(HopName(r)) : Answer(r, a)
    \/ \E t \in Tokens \cup {NoToken} : Rotate(t)
    \/ \E c \in conns : DropIdle(c)

Spec == Init /\ [][Next]_vars

-------------------------------------------------------------------------------
(* Properties *)

Replies == [ok : BOOLEAN, fits : BOOLEAN, decodes : BOOLEAN, scope : Scopes]

\* Type invariant.
TypeOK ==
    /\ stage \in {"options", "credential", "policy", "dial", "serving", "exited"}
    /\ opts \in Deployments
    /\ file \in Tokens \cup {NoToken}
    /\ pc \in [Requests -> {"idle", "send", "wait", "done"}]
    /\ call \in [Requests -> Calls \cup {NoCall}]
    /\ hop \in [Requests -> 0..2]
    /\ token \in [Requests -> Tokens \cup {NoToken}]
    /\ replies \in [Requests -> Seq(Replies)]
    /\ result \in [Requests -> [ok : BOOLEAN, scope : Scopes \cup {""}]]
    /\ \A w \in wire : w.req \in Requests
    /\ conns \subseteq [req : Requests, hop : 1..2, state : {"busy", "idle"}]
    /\ held \in [Requests -> SUBSET (Tokens \cup {NoToken})]

\* What the operator's document says, read without the loader.
NamedMounts == ToSet(opts.doc.plural) \cup ({opts.doc.singular} \ {NoMount})

\* The mountpoint a destination names: a trailing slash names the same one.
Mountpoint(dest) == IF Last(dest) = "/" THEN Front(dest) ELSE dest

\* A session is provisioned as the operator's document says and not otherwise: every
\* create carries exactly the mounts it names, one to four, each of one scope, no two
\* on one mountpoint unless they are spelled differently, and its egress; every exec a
\* bounded timeout, the document's own where it is within bounds.
ProvisionedAsWritten ==
    \A w \in wire :
        /\ w.hop = "create" =>
             LET ms == w.body.mounts
             IN  /\ ToSet(ms) = NamedMounts /\ Len(ms) \in 1..4
                 /\ \A m \in ToSet(ms) : Cardinality({m.fs, m.mem} \ {""}) = 1 /\ m.dest[1] = "/"
                 /\ \A i, j \in DOMAIN ms :
                      Mountpoint(ms[i].dest) = Mountpoint(ms[j].dest) =>
                          i = j \/ Len(ms[i].dest) # Len(ms[j].dest)
                 /\ w.body.egress = opts.doc.egress
        /\ w.hop = "exec" =>
             /\ w.body.timeout \in 1..300
             /\ opts.doc.timeout \in 1..300 => w.body.timeout = opts.doc.timeout

\* A rotation takes effect with the next call at the latest: no hop goes out without a
\* token, and the one it presents was in the file as some hop of its own call was prepared.
TokenIsFresh ==
    \A w \in wire :
        /\ w.token # NoToken
        /\ \E v \in wire : v.req = w.req /\ w.token \in v.held

\* What credential.go:20-23 says: the file is read again for every presentation, so a
\* token that was revoked is never presented from memory.  A hop presents one that the
\* file held since the hop was begun.
TokenPerPresentation == \A w \in wire : w.token \in w.held

\* The reply that settles a hop of the given name.
Settles(name, a) == a.ok /\ (name = "destroy" \/ a.decodes)

\* A call is answered with what Control said: it succeeds only if Control settled every
\* one of its hops, a second hop follows its own create and no other, and a scope is the
\* one Control gave, the empty one included.
NeverFabricated ==
    /\ \A r \in Requests :
         pc[r] = "done" /\ result[r].ok =>
            /\ Len(replies[r]) = Len(Hops(call[r]))
            /\ \A i \in DOMAIN replies[r] : Settles(Hops(call[r])[i], replies[r][i])
            /\ {w.hop : w \in {v \in wire : v.req = r}} = ToSet(Hops(call[r]))
            /\ call[r].tool = "resolve_scope" => result[r].scope = Last(replies[r]).scope
    /\ \A w \in wire :
         w.hop \in {"exec", "status"} =>
            /\ Settles("create", replies[w.req][1])
            /\ \E v \in wire : v.req = w.req /\ v.hop = "create" /\ v.hint = w.hint

\* The tenant t is the beginning of the tenant u.
Nests(t, u) == IsPrefix(t, u) \/ IsPrefix(u, t)

\* One session per tenant and chat: two requests that name the same session to Control
\* are of the same tenant and chat, unless one tenant's name is a beginning of the other's.
SessionsApart ==
    \A v, w \in wire :
        LET c == call[v.req]
            d == call[w.req]
        IN  v.hint = w.hint => \/ c.tenant = d.tenant /\ c.chat = d.chat
                               \/ c.tenant # d.tenant /\ Nests(c.tenant, d.tenant)

\* What stays open: the connection of a hop that waits, and those of hops whose reply
\* was read to its end, until Control drops them; each hop has at most one.
ConnectionsAccounted ==
    /\ \A r \in Requests : pc[r] = "wait" => Connection(r, "busy") \in conns
    /\ \A c \in conns :
         IF c.state = "busy" THEN pc[c.req] = "wait" /\ hop[c.req] = c.hop
         ELSE c.hop <= Len(replies[c.req]) /\ replies[c.req][c.hop].fits
    /\ \A c, d \in conns : c.req = d.req /\ c.hop = d.hop => c = d
===============================================================================
