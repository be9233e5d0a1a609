--------------------------- MODULE ForwarderProofs ---------------------------
(***************************************************************************)
(* Proofs about Forwarder, for any set of concurrent calls, any            *)
(* deployments, any rotation of the credential and whatever Control        *)
(* answers.                                                                *)
(***************************************************************************)
EXTENDS Forwarder, SequenceTheorems, FiniteSetTheorems, TLAPS

-------------------------------------------------------------------------------
(* The inductive invariant *)

\* The names of the hops a call has sent.
Sent(r) == {w.hop : w \in {v \in wire : v.req = r}}

\* What the credential file held while the hops a call has sent were prepared, as far as
\* they presented it.
Seen(r) == UNION {w.held : w \in {v \in wire : v.req = r}}

\* The first n hops of a call.
FirstHops(r, n) == {Hops(call[r])[i] : i \in 1..n}

\* The forwarder serves with the policy its document loads to, once admitted.
Booted ==
    /\ stage \in {"dial", "serving"} =>
         policy = LoadProvisioningPolicy(opts.doc) /\ policy # Refused
    /\ stage = "serving" => validate(buildCreateRequest(policy, <<"probe">>))
    /\ \A r \in Requests : pc[r] # "idle" => stage = "serving"

\* A call under way is at a hop of its own, holds a token that was in the file for this
\* hop or an earlier one, and has a settled reply to every hop before this one.
Tracked(r) ==
    /\ pc[r] = "idle" => replies[r] = <<>> /\ Sent(r) = {}
    /\ pc[r] # "idle" => call[r] \in Calls
    /\ pc[r] \in {"send", "wait"} =>
         /\ hop[r] \in 1..Len(Hops(call[r]))
         /\ token[r] # NoToken
         /\ \A i \in 1..(hop[r] - 1) : Settles(Hops(call[r])[i], replies[r][i])
    /\ pc[r] = "send" =>
         /\ Len(replies[r]) = hop[r] - 1 /\ Sent(r) = FirstHops(r, hop[r] - 1)
         /\ token[r] \in held[r] \cup Seen(r)
    /\ pc[r] = "wait" =>
         /\ Len(replies[r]) \in {hop[r] - 1, hop[r]} /\ Sent(r) = FirstHops(r, hop[r])
         /\ token[r] \in Seen(r)

\* A call that succeeded had every hop sent and settled, and took its scope from the
\* last reply.
Answered(r) ==
    pc[r] = "done" /\ result[r].ok =>
        /\ Len(replies[r]) = Len(Hops(call[r]))
        /\ \A i \in DOMAIN replies[r] : Settles(Hops(call[r])[i], replies[r][i])
        /\ Sent(r) = ToSet(Hops(call[r]))
        /\ call[r].tool = "resolve_scope" => result[r].scope = Last(replies[r]).scope

\* What is on the wire belongs to a call that has begun, and is what that call and the
\* policy say; a second hop is there only after its create was sent and settled.
Faithful(w) ==
    /\ w.req \in Requests /\ pc[w.req] # "idle"
    /\ w.hint = Hint(w.req)
    /\ w.token \in Seen(w.req) /\ w.token # NoToken
    /\ w.hop = "create" => w.body = createBody(buildCreateRequest(policy, w.hint))
    /\ w.hop = "exec" => w.body = execBody(policy)
    /\ w.hop \in {"exec", "status"} =>
         /\ Len(replies[w.req]) >= 1 /\ Settles("create", replies[w.req][1])
         /\ "create" \in Sent(w.req)

ForwardInv ==
    /\ TypeOK /\ Booted
    /\ \A r \in Requests : Tracked(r) /\ Answered(r)
    /\ \A w \in wire : Faithful(w)
    /\ ConnectionsAccounted

-------------------------------------------------------------------------------
(* The calls and their hops *)

\* A call is one hop, a create or a destroy, or a create and an exec or a status.
LEMMA HopsShape ==
  ASSUME NEW c \in Calls
  PROVE  /\ Len(Hops(c)) = 1 \/ Len(Hops(c)) = 2
         /\ DOMAIN Hops(c) = 1..Len(Hops(c))
         /\ Hops(c)[1] \in {"create", "destroy"}
         /\ Len(Hops(c)) = 2 => Hops(c)[1] = "create" /\ Hops(c)[2] \in {"exec", "status"}
  <1>1. c.tool \in CallTools
    BY ForwarderAssumption
  <1>2. CASE c.tool = "destroy"
    <2>1. Hops(c) = <<"destroy">>
      BY <1>2 DEF Hops
    <2> QED BY <2>1
  <1>3. CASE c.tool = "resolve_scope"
    <2>1. Hops(c) = <<"create", "status">>
      BY <1>3 DEF Hops
    <2> QED BY <2>1
  <1>4. CASE c.tool = "exec"
    <2>1. Hops(c) = <<"create", "exec">>
      BY <1>4 DEF Hops
    <2> QED BY <2>1
  <1>5. CASE c.tool = "bare"
    <2>1. Hops(c) = <<"create">>
      BY <1>5 DEF Hops
    <2> QED BY <2>1
  <1> QED BY <1>1, <1>2, <1>3, <1>4, <1>5 DEF CallTools

LEMMA InitInv == Init => ForwardInv
  <1> SUFFICES ASSUME Init PROVE ForwardInv
    OBVIOUS
  <1>1. TypeOK
    <2>1. Failed \in [ok : BOOLEAN, scope : Scopes \cup {""}]
      BY DEF Failed
    <2>2. \A r \in Requests : replies[r] = <<>> /\ <<>> \in Seq(Replies)
      BY DEF Init
    <2>3. replies \in [Requests -> Seq(Replies)]
      BY <2>2 DEF Init
    <2>4. result \in [Requests -> [ok : BOOLEAN, scope : Scopes \cup {""}]]
      BY <2>1 DEF Init
    <2>5. hop \in [Requests -> 0..2]
      BY DEF Init
    <2> QED BY <2>3, <2>4, <2>5 DEF Init, TypeOK
  <1>2. Booted /\ \A r \in Requests : Tracked(r) /\ Answered(r)
    BY DEF Init, Booted, Tracked, Answered, Sent
  <1>3. ConnectionsAccounted /\ \A w \in wire : Faithful(w)
    BY DEF Init, ConnectionsAccounted
  <1> QED BY <1>1, <1>2, <1>3 DEF ForwardInv

-------------------------------------------------------------------------------
(* What a step of one call leaves as it is *)

\* The other calls are where they were.
LEMMA OthersKeep ==
  ASSUME ForwardInv, NEW q \in Requests,
         pc'[q] = pc[q], call'[q] = call[q], hop'[q] = hop[q], token'[q] = token[q],
         replies'[q] = replies[q], result'[q] = result[q],
         held[q] \subseteq held'[q], Sent(q)' = Sent(q), Seen(q)' = Seen(q)
  PROVE  Tracked(q)' /\ Answered(q)'
  <1>1. /\ FirstHops(q, hop[q])' = FirstHops(q, hop[q])
        /\ FirstHops(q, hop[q] - 1)' = FirstHops(q, hop[q] - 1)
    BY DEF FirstHops
  <1>2. Tracked(q) /\ Answered(q)
    BY DEF ForwardInv
  <1>3. Tracked(q)'
    BY <1>1, <1>2 DEF Tracked
  <1>4. Answered(q)'
    BY <1>2 DEF Answered
  <1> QED BY <1>3, <1>4

\* What is on the wire stays as it was sent, when calls under way keep what they call,
\* and their first reply.
LEMMA WireKeeps ==
  ASSUME ForwardInv, wire' = wire, policy' = policy,
         \A q \in Requests : pc[q] # "idle" =>
            /\ pc'[q] # "idle" /\ call'[q] = call[q]
            /\ Len(replies[q]) >= 1 =>
                 Len(replies'[q]) >= 1 /\ replies'[q][1] = replies[q][1]
  PROVE  \A w \in wire' : Faithful(w)'
  <1>1. \A r : Sent(r)' = Sent(r) /\ Seen(r)' = Seen(r)
    BY DEF Sent, Seen
  <1> QED BY <1>1 DEF ForwardInv, Faithful, Hint, Settles

\* A step that changes no call: boot, rotation.
LEMMA QuietStep ==
  ASSUME ForwardInv, TypeOK', Booted', UNCHANGED callVars,
         \A r \in Requests : held[r] \subseteq held'[r],
         policy' = policy \/ wire = {}
  PROVE  ForwardInv'
  <1>1. \A r \in Requests : Tracked(r)' /\ Answered(r)'
    BY OthersKeep DEF callVars, Sent, Seen
  <1>2. \A w \in wire' : Faithful(w)'
    <2>1. CASE policy' = policy
      BY <2>1, WireKeeps DEF callVars
    <2>2. CASE wire = {}
      BY <2>2 DEF callVars
    <2> QED BY <2>1, <2>2
  <1>3. ConnectionsAccounted'
    BY DEF ForwardInv, ConnectionsAccounted, Connection, callVars
  <1> QED BY <1>1, <1>2, <1>3 DEF ForwardInv

LEMMA BootStep == ForwardInv /\ Boot => ForwardInv'
  <1> SUFFICES ASSUME ForwardInv, Boot PROVE ForwardInv'
    OBVIOUS
  <1>1. stage # "serving" /\ UNCHANGED <<opts, file, callVars, held>>
    BY DEF Boot, CheckOptions, NewFileServiceCredential, LoadPolicy,
           NewControlForwarderWithDial, Step
  <1>2. stage' \in {"credential", "policy", "dial", "serving", "exited"}
    BY DEF Boot, CheckOptions, NewFileServiceCredential, LoadPolicy,
           NewControlForwarderWithDial, Step
  <1>3. TypeOK'
    BY <1>1, <1>2 DEF ForwardInv, TypeOK, callVars
  <1>4. \A r \in Requests : pc[r] = "idle"
    BY <1>1 DEF ForwardInv, Booted
  <1>5. wire = {}
    BY <1>4 DEF ForwardInv, Faithful
  <1>6. Booted'
    <2>1. \A r \in Requests : pc'[r] = "idle"
      BY <1>1, <1>4 DEF callVars
    <2>2. CASE CheckOptions \/ NewFileServiceCredential
      BY <2>1, <2>2 DEF Booted, CheckOptions, NewFileServiceCredential, Step
    <2>3. CASE LoadPolicy
      BY <2>1, <2>3 DEF Booted, LoadPolicy, Step
    <2>4. CASE NewControlForwarderWithDial
      BY <2>1, <2>4 DEF ForwardInv, Booted, NewControlForwarderWithDial, Step
    <2> QED BY <2>2, <2>3, <2>4 DEF Boot
  <1>7. \A r \in Requests : held[r] \subseteq held'[r]
    BY <1>1
  <1> QED BY <1>1, <1>3, <1>5, <1>6, <1>7, QuietStep

LEMMA RotateStep ==
  ASSUME ForwardInv, NEW t \in Tokens \cup {NoToken}, Rotate(t)
  PROVE  ForwardInv'
  <1>1. /\ file' = t /\ UNCHANGED callVars /\ UNCHANGED <<stage, opts, policy>>
        /\ held' = [r \in Requests |-> IF pc[r] = "send" THEN held[r] \cup {t} ELSE held[r]]
    BY DEF Rotate, bootVars
  <1>2. \A r \in Requests : held[r] \subseteq held'[r]
    BY <1>1
  <1>3. held' \in [Requests -> SUBSET (Tokens \cup {NoToken})]
    BY <1>1 DEF ForwardInv, TypeOK
  <1>4. TypeOK' /\ Booted'
    BY <1>1, <1>3 DEF ForwardInv, TypeOK, Booted, callVars
  <1> QED BY <1>1, <1>2, <1>4, QuietStep

-------------------------------------------------------------------------------
(* The steps of a call *)

LEMMA EnterStep ==
  ASSUME ForwardInv, NEW r \in Requests, NEW c \in Calls, Enter(r, c)
  PROVE  ForwardInv'
  <1>1. /\ pc[r] = "idle" /\ stage = "serving"
        /\ UNCHANGED <<stage, opts, policy, file, replies, wire, conns>>
        /\ call' = [call EXCEPT ![r] = c]
    BY DEF Enter, bootVars
  <1>2. replies[r] = <<>> /\ Sent(r) = {}
    BY <1>1 DEF ForwardInv, Tracked
  <1>3. \A q : Sent(q)' = Sent(q) /\ Seen(q)' = Seen(q)
    BY <1>1 DEF Sent, Seen
  <1>4. \/ /\ pc' = [pc EXCEPT ![r] = "send"] /\ hop' = [hop EXCEPT ![r] = 1]
           /\ token' = [token EXCEPT ![r] = file] /\ file # NoToken /\ result' = result
           /\ held' = [held EXCEPT ![r] = {file}]
        \/ /\ pc' = [pc EXCEPT ![r] = "done"] /\ hop' = [hop EXCEPT ![r] = 0]
           /\ token' = [token EXCEPT ![r] = NoToken]
           /\ result' = [result EXCEPT ![r] = Failed] /\ held' = [held EXCEPT ![r] = {}]
    BY DEF Enter, Return, Token
  <1>5. TypeOK'
    <2>1. Failed \in [ok : BOOLEAN, scope : Scopes \cup {""}]
      BY DEF Failed
    <2>2. /\ pc' \in [Requests -> {"idle", "send", "wait", "done"}]
          /\ hop' \in [Requests -> 0..2]
          /\ token' \in [Requests -> Tokens \cup {NoToken}]
          /\ held' \in [Requests -> SUBSET (Tokens \cup {NoToken})]
          /\ result' \in [Requests -> [ok : BOOLEAN, scope : Scopes \cup {""}]]
      <3>1. 0 \in 0..2 /\ 1 \in 0..2
        OBVIOUS
      <3>2. file \in Tokens \cup {NoToken} /\ TypeOK
        BY DEF ForwardInv, TypeOK
      <3>3. pc' \in [Requests -> {"idle", "send", "wait", "done"}]
        BY <1>4, <3>2 DEF TypeOK
      <3>4. hop' \in [Requests -> 0..2]
        BY <1>4, <3>1, <3>2 DEF TypeOK
      <3>5. token' \in [Requests -> Tokens \cup {NoToken}]
        BY <1>4, <3>2 DEF TypeOK
      <3>6. result' \in [Requests -> [ok : BOOLEAN, scope : Scopes \cup {""}]]
        BY ZenonT(30), <1>4, <2>1, <3>2 DEF TypeOK
      <3>7. held' \in [Requests -> SUBSET (Tokens \cup {NoToken})]
        <4>1. held \in [Requests -> SUBSET (Tokens \cup {NoToken})]
          BY <3>2 DEF TypeOK
        <4>2. {file} \in SUBSET (Tokens \cup {NoToken}) /\ {} \in SUBSET (Tokens \cup {NoToken})
          BY <3>2
        <4>3. held' = [held EXCEPT ![r] = {file}] \/ held' = [held EXCEPT ![r] = {}]
          BY <1>4
        <4> QED BY <4>1, <4>2, <4>3
      <3> QED BY <3>3, <3>4, <3>5, <3>6, <3>7
    <2> QED BY <1>1, <2>2 DEF ForwardInv, TypeOK
  <1>6. Booted'
    BY <1>1 DEF ForwardInv, Booted
  <1>7. \A q \in Requests \ {r} : Tracked(q)' /\ Answered(q)'
    BY <1>1, <1>3, <1>4, OthersKeep DEF ForwardInv, TypeOK
  <1>8. call'[r] = c /\ replies'[r] = <<>> /\ Sent(r)' = {}
    BY <1>1, <1>2, <1>3 DEF ForwardInv, TypeOK
  <1>9. Tracked(r)' /\ Answered(r)'
    <2>1. CASE /\ pc' = [pc EXCEPT ![r] = "send"] /\ hop' = [hop EXCEPT ![r] = 1]
               /\ token' = [token EXCEPT ![r] = file] /\ file # NoToken /\ result' = result
               /\ held' = [held EXCEPT ![r] = {file}]
      <3>1. pc'[r] = "send" /\ hop'[r] = 1 /\ token'[r] = file /\ held'[r] = {file}
        BY <2>1 DEF ForwardInv, TypeOK
      <3>2. FirstHops(r, 0)' = {} /\ 1 \in 1..Len(Hops(c))
        BY HopsShape DEF FirstHops
      <3> QED BY <1>8, <2>1, <3>1, <3>2 DEF Tracked, Answered
    <2>2. CASE /\ pc' = [pc EXCEPT ![r] = "done"]
               /\ result' = [result EXCEPT ![r] = Failed]
      <3>1. pc'[r] = "done" /\ ~result'[r].ok
        BY <2>2 DEF ForwardInv, TypeOK, Failed
      <3> QED BY <1>8, <3>1 DEF Tracked, Answered
    <2> QED BY <1>4, <2>1, <2>2
  <1>10. \A q \in Requests : pc[q] # "idle" =>
            pc'[q] # "idle" /\ call'[q] = call[q]
    BY <1>1, <1>4 DEF ForwardInv, TypeOK
  <1>11. \A w \in wire' : Faithful(w)'
    BY <1>1, <1>10, WireKeeps
  <1>12. ConnectionsAccounted'
    <2>1. \A q \in Requests : pc'[q] = "wait" <=> pc[q] = "wait"
      BY <1>1, <1>4 DEF ForwardInv, TypeOK
    <2>2. \A q \in Requests : pc[q] = "wait" => hop'[q] = hop[q]
      BY <1>1, <1>4 DEF ForwardInv, TypeOK
    <2>3. \A d \in conns : d.req \in Requests
      BY DEF ForwardInv, TypeOK
    <2> QED BY <1>1, <2>1, <2>2, <2>3 DEF ForwardInv, ConnectionsAccounted, Connection
  <1> QED BY <1>5, <1>6, <1>7, <1>9, <1>11, <1>12 DEF ForwardInv

\* The message a call puts on the wire for its current hop.
Message(r) == [req |-> r, hop |-> HopName(r), token |-> token[r],
               hint |-> Hint(r), body |-> Body(r), held |-> held[r] \cap {token[r]}]

LEMMA SendStep ==
  ASSUME ForwardInv, NEW r \in Requests, Send(r)
  PROVE  ForwardInv'
  <1>1. /\ pc[r] = "send" /\ pc' = [pc EXCEPT ![r] = "wait"]
        /\ wire' = wire \cup {Message(r)}
        /\ conns' = conns \cup {Connection(r, "busy")}
        /\ held' = [held EXCEPT ![r] = {}]
        /\ UNCHANGED <<stage, opts, policy, file, call, hop, token, replies, result>>
    BY DEF Send, Message, bootVars
  <1>2. /\ call[r] \in Calls /\ hop[r] \in 1..Len(Hops(call[r]))
        /\ token[r] \in held[r] \cup Seen(r) /\ token[r] # NoToken
        /\ \A i \in 1..(hop[r] - 1) : Settles(Hops(call[r])[i], replies[r][i])
        /\ Len(replies[r]) = hop[r] - 1 /\ Sent(r) = FirstHops(r, hop[r] - 1)
    BY <1>1 DEF ForwardInv, Tracked
  <1>3. hop[r] \in 1..2
    <2>1. Len(Hops(call[r])) = 1 \/ Len(Hops(call[r])) = 2
      BY <1>2, HopsShape
    <2>2. hop[r] \in 1..1 \/ hop[r] \in 1..2
      BY <1>2, <2>1
    <2> QED BY <2>2
  <1>4. TypeOK'
    <2>1. Message(r).req = r /\ Connection(r, "busy") \in [req : Requests, hop : 1..2, state : {"busy", "idle"}]
      BY <1>3 DEF Message, Connection
    <2>2. held' \in [Requests -> SUBSET (Tokens \cup {NoToken})]
      BY <1>1 DEF ForwardInv, TypeOK
    <2> QED BY <1>1, <2>1, <2>2 DEF ForwardInv, TypeOK
  <1>5. Booted'
    BY <1>1 DEF ForwardInv, TypeOK, Booted
  <1>6. /\ \A q \in Requests \ {r} : /\ Sent(q)' = Sent(q) /\ pc'[q] = pc[q]
                                      /\ Seen(q)' = Seen(q) /\ held'[q] = held[q]
        /\ Sent(r)' = Sent(r) \cup {HopName(r)}
        /\ pc'[r] = "wait"
        /\ Seen(r) \subseteq Seen(r)' /\ token[r] \in Seen(r)'
    <2>1. /\ Message(r).req = r /\ Message(r).hop = HopName(r)
          /\ Message(r).held = held[r] \cap {token[r]}
      BY DEF Message
    <2>4. \A q \in Requests \ {r} : Seen(q)' = Seen(q)
      BY <1>1, <2>1 DEF Seen
    <2>5. Seen(r) \subseteq Seen(r)'
      BY <1>1 DEF Seen
    <2>6. token[r] \in Seen(r)'
      <3>1. token[r] \in held[r] => token[r] \in Message(r).held /\ Message(r) \in wire'
        BY <1>1, <2>1
      <3>2. token[r] \in held[r] => token[r] \in Seen(r)'
        BY <2>1, <3>1 DEF Seen
      <3> QED BY <1>2, <2>5, <3>2
    <2>2. \A q \in Requests \ {r} : Sent(q)' = Sent(q)
      BY <1>1, <2>1 DEF Sent
    <2>3. Sent(r)' = Sent(r) \cup {HopName(r)}
      BY <1>1, <2>1 DEF Sent
    <2> QED BY <1>1, <2>2, <2>3, <2>4, <2>5, <2>6 DEF ForwardInv, TypeOK
  <1>7. \A q \in Requests \ {r} : Tracked(q)' /\ Answered(q)'
    BY <1>1, <1>6, OthersKeep
  <1>8. Sent(r)' = FirstHops(r, hop[r])'
    <2>1. FirstHops(r, hop[r])' = FirstHops(r, hop[r])
      BY <1>1 DEF FirstHops
    <2>2. FirstHops(r, hop[r]) = FirstHops(r, hop[r] - 1) \cup {HopName(r)}
      BY <1>3 DEF FirstHops, HopName
    <2> QED BY <1>2, <1>6, <2>1, <2>2
  <1>9. Tracked(r)' /\ Answered(r)'
    BY <1>1, <1>2, <1>6, <1>8 DEF Tracked, Answered
  <1>10. ASSUME NEW w \in wire PROVE Faithful(w)'
    <2>1. Faithful(w) /\ w.req \in Requests
      BY DEF ForwardInv, Faithful
    <2>2. Sent(w.req) \subseteq Sent(w.req)' /\ Seen(w.req) \subseteq Seen(w.req)'
      BY <1>6, <2>1
    <2>3. pc'[w.req] # "idle"
      BY <1>1, <1>6, <2>1 DEF Faithful
    <2> QED BY <1>1, <2>1, <2>2, <2>3 DEF Faithful, Hint
  <1>11. ASSUME NEW m, m = Message(r) PROVE Faithful(m)'
    <2>1. m.req = r /\ m.hop = HopName(r) /\ m.token = token[r] /\ m.hint = Hint(r) /\ m.body = Body(r)
      BY <1>11 DEF Message
    <2>2. Hint(r)' = Hint(r)
      BY <1>1 DEF Hint
    <2>3. m.hop = "create" => m.body = createBody(buildCreateRequest(policy, m.hint))
      BY <2>1 DEF Body
    <2>4. m.hop = "exec" => m.body = execBody(policy)
      BY <2>1 DEF Body
    <2>5. ASSUME m.hop \in {"exec", "status"}
          PROVE  /\ Len(replies[r]) >= 1 /\ Settles("create", replies[r][1])
                 /\ "create" \in Sent(r)
      <3>1. hop[r] = 2 /\ Hops(call[r])[1] = "create"
        BY <1>2, <1>3, <2>1, <2>5, HopsShape DEF HopName
      <3>2. "create" \in FirstHops(r, 1)
        BY <3>1 DEF FirstHops
      <3> QED BY <1>2, <3>1, <3>2
    <2> QED BY <1>1, <1>2, <1>6, <2>1, <2>2, <2>3, <2>4, <2>5 DEF Faithful
  <1>12. \A w \in wire' : Faithful(w)'
    BY <1>1, <1>10, <1>11
  <1>13. ConnectionsAccounted'
    <2> DEFINE b == Connection(r, "busy")
    <2>1. b.req = r /\ b.hop = hop[r] /\ b.state = "busy" /\ Connection(r, "busy")' = b
      BY <1>1 DEF Connection
    <2>4. \A d \in conns : d.req \in Requests /\ d.hop \in 1..2 /\ d.state \in {"busy", "idle"}
      BY DEF ForwardInv, TypeOK
    <2>2. \A d \in conns : d.req = r => d.state = "idle" /\ d.hop <= hop[r] - 1
      BY <1>1, <1>2, <2>4 DEF ForwardInv, ConnectionsAccounted
    <2>3. \A d \in conns : d.req = r => d.hop # hop[r]
      BY <1>3, <2>2, <2>4
    <2>5. \A q \in Requests : pc'[q] = "wait" => Connection(q, "busy")' \in conns'
      BY <1>1, <1>6, <2>1 DEF ForwardInv, ConnectionsAccounted, Connection
    <2>6. \A d \in conns' : IF d.state = "busy" THEN pc'[d.req] = "wait" /\ hop'[d.req] = d.hop
                             ELSE d.hop <= Len(replies'[d.req]) /\ replies'[d.req][d.hop].fits
      BY <1>1, <1>6, <2>1, <2>4 DEF ForwardInv, ConnectionsAccounted
    <2>7. \A d, e \in conns' : d.req = e.req /\ d.hop = e.hop => d = e
      BY <1>1, <2>1, <2>3 DEF ForwardInv, ConnectionsAccounted
    <2> QED BY <2>5, <2>6, <2>7 DEF ConnectionsAccounted
  <1> QED BY <1>4, <1>5, <1>7, <1>9, <1>12, <1>13 DEF ForwardInv

\* A call that stops waiting gives up its busy connection, or leaves it idle once the
\* reply is read.
LEMMA ConnectionsKeep ==
  ASSUME ForwardInv, NEW r \in Requests, pc[r] \in {"send", "wait"}, pc'[r] # "wait",
         \A q \in Requests \ {r} : pc'[q] = pc[q] /\ hop'[q] = hop[q],
         replies' = replies,
         NEW keep \in SUBSET {Connection(r, "idle")},
         conns' = (conns \ {Connection(r, "busy")}) \cup keep,
         keep # {} => /\ pc[r] = "wait" /\ Len(replies[r]) = hop[r]
                      /\ replies[r][hop[r]].fits
  PROVE  /\ ConnectionsAccounted'
         /\ conns' \subseteq [req : Requests, hop : 1..2, state : {"busy", "idle"}]
  <1> DEFINE b == Connection(r, "busy")
             i == Connection(r, "idle")
  <1>1. /\ b.req = r /\ b.hop = hop[r] /\ b.state = "busy"
        /\ i.req = r /\ i.hop = hop[r] /\ i.state = "idle"
    BY DEF Connection
  <1>2. \A d \in conns : /\ d.req \in Requests /\ d.hop \in 1..2 /\ d.state \in {"busy", "idle"}
                         /\ d = [req |-> d.req, hop |-> d.hop, state |-> d.state]
    <2>1. \A d \in conns : d \in [req : Requests, hop : 1..2, state : {"busy", "idle"}]
      BY DEF ForwardInv, TypeOK
    <2> QED BY <2>1
  <1>3. hop[r] \in 1..2
    <2>1. call[r] \in Calls /\ hop[r] \in 1..Len(Hops(call[r]))
      BY DEF ForwardInv, Tracked
    <2>2. Len(Hops(call[r])) = 1 \/ Len(Hops(call[r])) = 2
      BY <2>1, HopsShape
    <2>3. hop[r] \in 1..1 \/ hop[r] \in 1..2
      BY <2>1, <2>2
    <2> QED BY <2>3
  <1>4. i \in [req : Requests, hop : 1..2, state : {"busy", "idle"}]
    BY <1>3 DEF Connection
  <1>5. conns' \subseteq [req : Requests, hop : 1..2, state : {"busy", "idle"}]
    BY <1>4 DEF ForwardInv, TypeOK
  <1>6. \A d \in conns : d.req = r /\ d.state = "busy" => d = b
    <2> SUFFICES ASSUME NEW d \in conns, d.req = r, d.state = "busy" PROVE d = b
      OBVIOUS
    <2>1. hop[r] = d.hop
      BY DEF ForwardInv, ConnectionsAccounted
    <2> QED BY <1>2, <2>1 DEF Connection
  <1>7. \A d \in conns' : (d \in conns /\ d # b) \/ (keep # {} /\ d = i)
    OBVIOUS
  <1> HIDE DEF b, i
  <1>8. \A q \in Requests : pc'[q] = "wait" => Connection(q, "busy")' \in conns'
    <2> SUFFICES ASSUME NEW q \in Requests, pc'[q] = "wait" PROVE Connection(q, "busy")' \in conns'
      OBVIOUS
    <2>1. q # r /\ pc[q] = "wait" /\ Connection(q, "busy") \in conns
      BY DEF ForwardInv, ConnectionsAccounted
    <2>2. Connection(q, "busy")' = Connection(q, "busy") /\ Connection(q, "busy") # Connection(r, "busy")
      BY <2>1 DEF Connection
    <2> QED BY <2>1, <2>2
  <1>9. \A d \in conns' : IF d.state = "busy" THEN pc'[d.req] = "wait" /\ hop'[d.req] = d.hop
                           ELSE d.hop <= Len(replies'[d.req]) /\ replies'[d.req][d.hop].fits
    <2> SUFFICES ASSUME NEW d \in conns'
                 PROVE  IF d.state = "busy" THEN pc'[d.req] = "wait" /\ hop'[d.req] = d.hop
                        ELSE d.hop <= Len(replies[d.req]) /\ replies[d.req][d.hop].fits
      OBVIOUS
    <2>1. CASE d \in conns /\ d # b
      <3>1. IF d.state = "busy" THEN pc[d.req] = "wait" /\ hop[d.req] = d.hop
            ELSE d.hop <= Len(replies[d.req]) /\ replies[d.req][d.hop].fits
        BY <2>1 DEF ForwardInv, ConnectionsAccounted
      <3>2. d.state = "busy" => d.req \in Requests \ {r}
        BY <2>1, <1>2, <1>6
      <3> QED BY <3>1, <3>2
    <2>2. CASE keep # {} /\ d = i
      BY <2>2, <1>1, <1>3
    <2> QED BY <1>7, <2>1, <2>2
  <1>10. \A d, e \in conns' : d.req = e.req /\ d.hop = e.hop => d = e
    <2> SUFFICES ASSUME NEW d \in conns', NEW e \in conns', d.req = e.req, d.hop = e.hop
                 PROVE  d = e
      OBVIOUS
    <2>1. keep # {} => b \in conns
      BY DEF b, ForwardInv, ConnectionsAccounted
    <2>2. \A x, y \in conns : x.req = y.req /\ x.hop = y.hop => x = y
      BY DEF ForwardInv, ConnectionsAccounted
    <2>3. \A x \in conns : keep # {} /\ x.req = i.req /\ x.hop = i.hop => x = b
      BY <1>1, <2>1, <2>2
    <2> QED BY <1>7, <2>2, <2>3
  <1> QED BY <1>5, <1>8, <1>9, <1>10 DEF ConnectionsAccounted

\* A call that fails is done, and says so.
LEMMA FailStep ==
  ASSUME ForwardInv, NEW r \in Requests, pc[r] \in {"send", "wait"}, Return(r, Failed),
         UNCHANGED <<bootVars, file, call, replies, wire>>,
         NEW keep \in SUBSET {Connection(r, "idle")},
         conns' = (conns \ {Connection(r, "busy")}) \cup keep,
         keep # {} => /\ pc[r] = "wait" /\ Len(replies[r]) = hop[r]
                      /\ replies[r][hop[r]].fits
  PROVE  ForwardInv'
  <1>1. /\ \A q \in Requests \ {r} : /\ pc'[q] = pc[q] /\ hop'[q] = hop[q]
                                      /\ token'[q] = token[q] /\ result'[q] = result[q]
                                      /\ held'[q] = held[q]
        /\ pc'[r] = "done" /\ result'[r] = Failed
        /\ UNCHANGED <<stage, opts, policy>>
    BY DEF Return, ForwardInv, TypeOK, bootVars
  <1>2. Failed \in [ok : BOOLEAN, scope : Scopes \cup {""}] /\ ~Failed.ok
    BY DEF Failed
  <1>3. ConnectionsAccounted' /\ conns' \subseteq [req : Requests, hop : 1..2, state : {"busy", "idle"}]
    BY <1>1, ConnectionsKeep
  <1>4. TypeOK'
    <2>1. hop' \in [Requests -> 0..2]
      <3>1. 0 \in 0..2
        OBVIOUS
      <3> QED BY <3>1 DEF Return, ForwardInv, TypeOK
    <2>2. result' \in [Requests -> [ok : BOOLEAN, scope : Scopes \cup {""}]]
      BY <1>2 DEF Return, ForwardInv, TypeOK
    <2>3. /\ pc' \in [Requests -> {"idle", "send", "wait", "done"}]
          /\ token' \in [Requests -> Tokens \cup {NoToken}]
          /\ held' \in [Requests -> SUBSET (Tokens \cup {NoToken})]
      BY DEF Return, ForwardInv, TypeOK
    <2> QED BY <1>1, <1>3, <2>1, <2>2, <2>3 DEF ForwardInv, TypeOK
  <1>5. Booted'
    BY <1>1 DEF ForwardInv, Booted
  <1>6. \A q : Sent(q)' = Sent(q) /\ Seen(q)' = Seen(q)
    BY DEF Sent, Seen
  <1>7. \A q \in Requests \ {r} : Tracked(q)' /\ Answered(q)'
    BY <1>1, <1>6, OthersKeep
  <1>8. Tracked(r)' /\ Answered(r)'
    BY <1>1, <1>2 DEF ForwardInv, Tracked, Answered
  <1>9. \A w \in wire' : Faithful(w)'
    BY <1>1, WireKeeps
  <1> QED BY <1>3, <1>4, <1>5, <1>7, <1>8, <1>9 DEF ForwardInv

LEMMA DialFailsStep ==
  ASSUME ForwardInv, NEW r \in Requests, DialFails(r)
  PROVE  ForwardInv'
  <1>1. Connection(r, "busy") \notin conns
    <2>1. Connection(r, "busy").req = r /\ Connection(r, "busy").state = "busy"
      BY DEF Connection
    <2> QED BY <2>1 DEF ForwardInv, ConnectionsAccounted, DialFails
  <1>2. conns' = (conns \ {Connection(r, "busy")}) \cup {}
    BY <1>1 DEF DialFails
  <1>3. {} \in SUBSET {Connection(r, "idle")}
    OBVIOUS
  <1> QED BY <1>2, <1>3, FailStep DEF DialFails

LEMMA RoundTripFailsStep ==
  ASSUME ForwardInv, NEW r \in Requests, RoundTripFails(r)
  PROVE  ForwardInv'
  <1>1. conns' = (conns \ {Connection(r, "busy")}) \cup {}
    BY DEF RoundTripFails
  <1>2. {} \in SUBSET {Connection(r, "idle")}
    OBVIOUS
  <1> QED BY <1>1, <1>2, FailStep DEF RoundTripFails

LEMMA ReceiveStep ==
  ASSUME ForwardInv, NEW r \in Requests, Receive(r)
  PROVE  ForwardInv'
  <1> DEFINE a == Last(replies[r])
             n == Len(Hops(call[r]))
             keep == IF a.fits THEN {Connection(r, "idle")} ELSE {}
  <1>1. /\ pc[r] = "wait" /\ Len(replies[r]) = hop[r] /\ a = replies[r][hop[r]]
        /\ UNCHANGED <<bootVars, file, call, replies, wire>>
        /\ UNCHANGED <<stage, opts, policy>>
    BY DEF Receive, Last, bootVars
  <1>2. /\ call[r] \in Calls /\ hop[r] \in 1..n
        /\ token[r] \in Seen(r) /\ token[r] # NoToken
        /\ \A i \in 1..(hop[r] - 1) : Settles(Hops(call[r])[i], replies[r][i])
        /\ Sent(r) = FirstHops(r, hop[r])
    BY <1>1 DEF ForwardInv, Tracked
  <1>3. (n = 1 \/ n = 2) /\ DOMAIN Hops(call[r]) = 1..n
    BY <1>2, HopsShape
  <1>4. hop[r] \in 1..2
    <2>1. hop[r] \in 1..1 \/ hop[r] \in 1..2
      BY <1>2, <1>3
    <2> QED BY <2>1
  <1>5. a \in Replies
    <2>1. replies[r] \in Seq(Replies)
      BY DEF ForwardInv, TypeOK
    <2> QED BY <1>1, <1>4, <2>1
  <1>6. /\ keep \in SUBSET {Connection(r, "idle")}
        /\ conns' = (conns \ {Connection(r, "busy")}) \cup keep
        /\ keep # {} => replies[r][hop[r]].fits
    BY <1>1 DEF Receive, CloseBody
  <1> HIDE DEF keep
  <1>7. CASE ~Succeeds(r, a)
    <2>1. Return(r, Failed)
      BY <1>7 DEF Receive
    <2> QED BY <1>1, <1>6, <2>1, FailStep
  <1>8. ASSUME Succeeds(r, a) PROVE Settles(Hops(call[r])[hop[r]], replies[r][hop[r]])
    BY <1>1, <1>8 DEF Succeeds, Settles, HopName
  <1>9. \A q : Sent(q)' = Sent(q) /\ Seen(q)' = Seen(q)
    BY <1>1 DEF Sent, Seen
  <1>10. CASE Succeeds(r, a) /\ hop[r] < n
    <2>1. /\ hop' = [hop EXCEPT ![r] = hop[r] + 1] /\ pc' = [pc EXCEPT ![r] = "send"]
          /\ result' = result /\ token' = token /\ held' = [held EXCEPT ![r] = {file}]
      BY <1>10 DEF Receive
    <2>2. /\ \A q \in Requests \ {r} : pc'[q] = pc[q] /\ hop'[q] = hop[q] /\ held'[q] = held[q]
          /\ pc'[r] = "send" /\ hop'[r] = hop[r] + 1
      BY <2>1 DEF ForwardInv, TypeOK
    <2>3. /\ ConnectionsAccounted'
          /\ conns' \subseteq [req : Requests, hop : 1..2, state : {"busy", "idle"}]
      BY <1>1, <1>6, <2>2, ConnectionsKeep
    <2>4. hop[r] + 1 \in 0..2 /\ hop[r] + 1 \in 1..n /\ hop[r] + 1 - 1 = hop[r]
      <3>1. n = 2 /\ hop[r] = 1
        <4>1. hop[r] = 1 \/ hop[r] = 2
          BY <1>4
        <4>2. n # 1
          <5> SUFFICES ASSUME n = 1 PROVE FALSE
            OBVIOUS
          <5>1. hop[r] < 1
            BY <1>10
          <5> QED BY <4>1, <5>1
        <4>3. hop[r] < 2
          BY <1>3, <1>10, <4>2
        <4> QED BY <1>3, <4>1, <4>2, <4>3
      <3> QED BY <3>1
    <2>5. TypeOK'
      <3>1. hop' \in [Requests -> 0..2]
        BY <2>1, <2>4 DEF ForwardInv, TypeOK
      <3>2. held' \in [Requests -> SUBSET (Tokens \cup {NoToken})]
        BY <2>1 DEF ForwardInv, TypeOK
      <3> QED BY <1>1, <2>1, <2>3, <3>1, <3>2 DEF ForwardInv, TypeOK
    <2>6. Booted'
      BY <1>1, <2>2 DEF ForwardInv, Booted
    <2>7. \A q \in Requests \ {r} : Tracked(q)' /\ Answered(q)'
      BY <1>1, <1>9, <2>1, <2>2, OthersKeep
    <2>8. FirstHops(r, hop[r] - 1)' = FirstHops(r, hop[r])
      <3>1. hop'[r] - 1 = hop[r] /\ call' = call
        BY <1>1, <2>2, <2>4
      <3> QED BY <3>1 DEF FirstHops
    <2>9. \A i \in 1..(hop'[r] - 1) : Settles(Hops(call[r])[i], replies[r][i])
      <3>1. \A i \in 1..(hop'[r] - 1) : i \in 1..(hop[r] - 1) \/ i = hop[r]
        BY <1>4, <2>2
      <3> QED BY <1>2, <1>8, <1>10, <3>1
    <2>10. Tracked(r)' /\ Answered(r)'
      <3>1. /\ call'[r] = call[r] /\ call[r] \in Calls /\ hop'[r] \in 1..Len(Hops(call[r]))
            /\ token'[r] # NoToken /\ replies'[r] = replies[r]
            /\ Len(replies[r]) = hop'[r] - 1
        BY <1>1, <1>2, <2>1, <2>2, <2>4
      <3>2. Seen(r)' = Seen(r) /\ token'[r] = token[r] /\ token[r] \in Seen(r)
        BY <1>2, <1>9, <2>1
      <3> QED BY <1>2, <1>9, <2>2, <2>8, <2>9, <3>1, <3>2 DEF Tracked, Answered
    <2>11. \A w \in wire' : Faithful(w)'
      BY <1>1, <2>2, WireKeeps
    <2> QED BY <2>3, <2>5, <2>6, <2>7, <2>10, <2>11 DEF ForwardInv
  <1>11. CASE Succeeds(r, a) /\ ~(hop[r] < n)
    <2> DEFINE res == [ok |-> TRUE, scope |-> a.scope]
    <2>1. Return(r, res)
      BY <1>11 DEF Receive
    <2>2. /\ \A q \in Requests \ {r} : /\ pc'[q] = pc[q] /\ hop'[q] = hop[q]
                                        /\ token'[q] = token[q] /\ result'[q] = result[q]
                                        /\ held'[q] = held[q]
          /\ pc'[r] = "done" /\ result'[r] = res
      BY <2>1 DEF Return, ForwardInv, TypeOK
    <2>3. /\ ConnectionsAccounted'
          /\ conns' \subseteq [req : Requests, hop : 1..2, state : {"busy", "idle"}]
      BY <1>1, <1>6, <2>2, ConnectionsKeep
    <2>4. hop[r] = n
      BY <1>2, <1>3, <1>11
    <2>5. TypeOK'
      <3>1. res \in [ok : BOOLEAN, scope : Scopes \cup {""}]
        BY <1>5 DEF Replies
      <3> HIDE DEF res
      <3>2. 0 \in 0..2
        OBVIOUS
      <3>3. hop' \in [Requests -> 0..2]
        BY <2>1, <3>2 DEF Return, ForwardInv, TypeOK
      <3>4. result' \in [Requests -> [ok : BOOLEAN, scope : Scopes \cup {""}]]
        BY <2>1, <3>1 DEF Return, ForwardInv, TypeOK
      <3>5. /\ pc' \in [Requests -> {"idle", "send", "wait", "done"}]
            /\ token' \in [Requests -> Tokens \cup {NoToken}]
            /\ held' \in [Requests -> SUBSET (Tokens \cup {NoToken})]
        BY <2>1 DEF Return, ForwardInv, TypeOK
      <3> QED BY <1>1, <2>3, <3>3, <3>4, <3>5 DEF ForwardInv, TypeOK
    <2>6. Booted'
      BY <1>1, <2>2 DEF ForwardInv, Booted
    <2>7. \A q \in Requests \ {r} : Tracked(q)' /\ Answered(q)'
      BY <1>1, <1>9, <2>2, OthersKeep
    <2>8. Tracked(r)'
      BY <1>1, <1>2, <2>2 DEF Tracked
    <2>9. Answered(r)'
      <3>1. DOMAIN replies[r] = 1..hop[r]
        <4>1. replies[r] \in Seq(Replies)
          BY DEF ForwardInv, TypeOK
        <4> QED BY <1>1, <4>1
      <3>2. \A i \in 1..hop[r] : i \in 1..(hop[r] - 1) \/ i = hop[r]
        BY <1>4
      <3>3. \A i \in DOMAIN replies[r] : Settles(Hops(call[r])[i], replies[r][i])
        BY <1>2, <1>8, <1>11, <3>1, <3>2
      <3>4. Sent(r) = ToSet(Hops(call[r]))
        BY <1>2, <1>3, <2>4 DEF FirstHops, ToSet
      <3>5. result'[r].scope = Last(replies[r]).scope
        BY <2>2
      <3> QED BY <1>1, <1>9, <2>4, <3>3, <3>4, <3>5 DEF Answered
    <2>10. \A w \in wire' : Faithful(w)'
      BY <1>1, <2>2, WireKeeps
    <2> QED BY <2>3, <2>5, <2>6, <2>7, <2>8, <2>9, <2>10 DEF ForwardInv
  <1> QED BY <1>7, <1>10, <1>11

LEMMA AnswerStep ==
  ASSUME ForwardInv, NEW r \in Requests, pc[r] = "wait",
         NEW a \in Answers(HopName(r)), Answer(r, a)
  PROVE  ForwardInv'
  <1>1. /\ Len(replies[r]) < hop[r]
        /\ replies' = [replies EXCEPT ![r] = Append(replies[r], a)]
        /\ UNCHANGED <<stage, opts, policy, file, pc, call, hop, token, result, wire, conns, held>>
    BY DEF Answer, bootVars
  <1>2. a \in Replies /\ replies[r] \in Seq(Replies)
    BY DEF Answers, Replies, ForwardInv, TypeOK
  <1>3. /\ replies'[r] = Append(replies[r], a) /\ replies'[r] \in Seq(Replies)
        /\ Len(replies[r]) \in Nat /\ Len(replies'[r]) = Len(replies[r]) + 1
        /\ \A i \in 1..Len(replies[r]) : replies'[r][i] = replies[r][i]
        /\ \A q \in Requests \ {r} : replies'[q] = replies[q]
    <2>1. /\ replies'[r] = Append(replies[r], a)
          /\ \A q \in Requests \ {r} : replies'[q] = replies[q]
      BY <1>1 DEF ForwardInv, TypeOK
    <2> QED BY <1>2, <2>1
  <1>4. TypeOK'
    BY <1>1, <1>3 DEF ForwardInv, TypeOK
  <1>5. Booted'
    BY <1>1 DEF ForwardInv, Booted
  <1>6. \A q : Sent(q)' = Sent(q) /\ Seen(q)' = Seen(q)
    BY <1>1 DEF Sent, Seen
  <1>7. \A q \in Requests \ {r} : Tracked(q)' /\ Answered(q)'
    BY <1>1, <1>3, <1>6, OthersKeep
  <1>8. Tracked(r)' /\ Answered(r)'
    <2>1. Tracked(r) /\ hop[r] \in 0..2
      BY DEF ForwardInv, TypeOK
    <2>2. Len(replies[r]) = hop[r] - 1 /\ Len(replies'[r]) = hop[r]
      BY <1>1, <1>3, <2>1 DEF Tracked
    <2>3. \A i \in 1..(hop[r] - 1) : Settles(Hops(call[r])[i], replies'[r][i])
      BY <1>3, <2>1, <2>2 DEF Tracked
    <2>4. FirstHops(r, hop[r])' = FirstHops(r, hop[r])
      BY <1>1 DEF FirstHops
    <2> QED BY <1>1, <1>6, <2>1, <2>2, <2>3, <2>4 DEF Tracked, Answered
  <1>9. \A q \in Requests : Len(replies[q]) >= 1 =>
           Len(replies'[q]) >= 1 /\ replies'[q][1] = replies[q][1]
    BY <1>3
  <1>10. \A w \in wire' : Faithful(w)'
    BY <1>1, <1>9, WireKeeps
  <1>11. ConnectionsAccounted'
    <2>1. \A d \in conns : d.req \in Requests /\ d.hop \in 1..2
      BY DEF ForwardInv, TypeOK
    <2>2. \A d \in conns : d.hop <= Len(replies[d.req]) /\ replies[d.req][d.hop].fits =>
             d.hop <= Len(replies'[d.req]) /\ replies'[d.req][d.hop].fits
      BY SMTT(30), <1>3, <2>1
    <2> QED BY <1>1, <2>2 DEF ForwardInv, ConnectionsAccounted, Connection
  <1> QED BY <1>4, <1>5, <1>7, <1>8, <1>10, <1>11 DEF ForwardInv

LEMMA DropIdleStep ==
  ASSUME ForwardInv, NEW c \in conns, DropIdle(c)
  PROVE  ForwardInv'
  <1>1. /\ c.state = "idle" /\ conns' = conns \ {c}
        /\ UNCHANGED <<stage, opts, policy, file, pc, call, hop, token, replies, result, wire, held>>
    BY DEF DropIdle, bootVars
  <1>2. TypeOK' /\ Booted'
    BY <1>1 DEF ForwardInv, TypeOK, Booted
  <1>3. \A q \in Requests : Tracked(q)' /\ Answered(q)'
    BY <1>1, OthersKeep DEF Sent, Seen
  <1>4. \A w \in wire' : Faithful(w)'
    BY <1>1, WireKeeps
  <1>5. ConnectionsAccounted'
    <2>1. \A q \in Requests : Connection(q, "busy").state = "busy" /\ Connection(q, "busy")' = Connection(q, "busy")
      BY <1>1 DEF Connection
    <2> QED BY <1>1, <2>1 DEF ForwardInv, ConnectionsAccounted
  <1> QED BY <1>2, <1>3, <1>4, <1>5 DEF ForwardInv

LEMMA NextKeeps == ForwardInv /\ [Next]_vars => ForwardInv'
  <1> SUFFICES ASSUME ForwardInv, [Next]_vars PROVE ForwardInv'
    OBVIOUS
  <1>1. CASE UNCHANGED vars
    <2>1. /\ TypeOK' /\ Booted' /\ UNCHANGED callVars /\ policy' = policy
          /\ held' = held
      BY <1>1 DEF vars, bootVars, callVars, ForwardInv, TypeOK, Booted
    <2> QED BY <2>1, QuietStep
  <1>2. CASE Boot
    BY <1>2, BootStep
  <1>3. ASSUME NEW r \in Requests, NEW c \in Calls, Enter(r, c) PROVE ForwardInv'
    BY <1>3, EnterStep
  <1>4. ASSUME NEW r \in Requests, Send(r) \/ DialFails(r) \/ RoundTripFails(r) \/ Receive(r)
        PROVE  ForwardInv'
    BY <1>4, SendStep, DialFailsStep, RoundTripFailsStep, ReceiveStep
  <1>5. ASSUME NEW r \in Requests, pc[r] = "wait", NEW a \in Answers(HopName(r)), Answer(r, a)
        PROVE  ForwardInv'
    BY <1>5, AnswerStep
  <1>6. ASSUME NEW t \in Tokens \cup {NoToken}, Rotate(t) PROVE ForwardInv'
    BY <1>6, RotateStep
  <1>7. ASSUME NEW c \in conns, DropIdle(c) PROVE ForwardInv'
    BY <1>7, DropIdleStep
  <1> QED BY <1>1, <1>2, <1>3, <1>4, <1>5, <1>6, <1>7 DEF Next

-------------------------------------------------------------------------------
(* The theorems *)

\* Every reachable state satisfies the inductive invariant.
THEOREM ForwardInvariant == Spec => []ForwardInv
  BY InitInv, NextKeeps, PTL DEF Spec

\* Type correctness of the forwarder, from its boot to the last reply of any call.
THEOREM TypeCorrect == Spec => []TypeOK
  <1>1. ForwardInv => TypeOK
    BY DEF ForwardInv
  <1> QED BY <1>1, ForwardInvariant, PTL

\* However the credential file is rotated, no hop goes out without a token, and what it
\* presents was in the file while some hop of the same call was prepared: nothing is kept
\* from one call to the next.
THEOREM TokenIsFreshHolds == Spec => []TokenIsFresh
  <1>1. ForwardInv => TokenIsFresh
    BY DEF ForwardInv, Faithful, Seen, TokenIsFresh
  <1> QED BY <1>1, ForwardInvariant, PTL

\* Every open connection is that of a hop that waits for its reply, or is idle after a
\* reply read to its end; no hop has two.
THEOREM ConnectionsAccountedHolds == Spec => []ConnectionsAccounted
  <1>1. ForwardInv => ConnectionsAccounted
    BY DEF ForwardInv
  <1> QED BY <1>1, ForwardInvariant, PTL

\* A call succeeds only with what Control said to each of its hops, and a second hop
\* goes out only after the create of the same session was settled.
THEOREM NeverFabricatedHolds == Spec => []NeverFabricated
  <1>1. ForwardInv => NeverFabricated
    <2> SUFFICES ASSUME ForwardInv PROVE NeverFabricated
      OBVIOUS
    <2>1. \A r \in Requests : Answered(r)
      BY DEF ForwardInv
    <2>2. ASSUME NEW w \in wire, w.hop \in {"exec", "status"}
          PROVE  /\ Settles("create", replies[w.req][1])
                 /\ \E v \in wire : v.req = w.req /\ v.hop = "create" /\ v.hint = w.hint
      <3>1. Faithful(w)
        BY DEF ForwardInv
      <3>2. Settles("create", replies[w.req][1]) /\ "create" \in Sent(w.req) /\ w.hint = Hint(w.req)
        BY <2>2, <3>1 DEF Faithful
      <3>3. PICK v \in wire : v.req = w.req /\ v.hop = "create"
        BY <3>2 DEF Sent
      <3>4. v.hint = Hint(v.req)
        BY DEF ForwardInv, Faithful
      <3> QED BY <3>2, <3>3, <3>4
    <2> QED BY <2>1, <2>2 DEF NeverFabricated, Answered, Sent
  <1> QED BY <1>1, ForwardInvariant, PTL

\* Two concatenations are equal only piece by piece, or with one first piece a
\* beginning of the other.
LEMMA ConcatApart ==
  ASSUME NEW t \in Seq(STRING), NEW c \in Seq(STRING), NEW u \in Seq(STRING), NEW d \in Seq(STRING),
         t \o c = u \o d
  PROVE  (t = u /\ c = d) \/ (t # u /\ Nests(t, u))
  <1>1. CASE t = u
    BY <1>1, ConcatSimplifications
  <1>2. ASSUME NEW x \in Seq(STRING), NEW xs \in Seq(STRING), NEW y \in Seq(STRING), NEW ys \in Seq(STRING),
               x \o xs = y \o ys, Len(x) <= Len(y)
        PROVE  IsPrefix(x, y)
    <2>1. \A i \in 1..Len(x) : x[i] = (x \o xs)[i] /\ y[i] = (y \o ys)[i]
      BY <1>2, ConcatProperties
    <2>2. \A i \in 1..Len(x) : x[i] = y[i]
      BY <2>1, <1>2
    <2>3. SubSeq(x, 1, Len(x)) = SubSeq(y, 1, Len(x))
      <3>1. \A i \in 1..Len(x) : x[i] \in STRING /\ y[i] \in STRING
        BY <2>2
      <3>2. Len(x) \in Nat
        OBVIOUS
      <3>3. /\ SubSeq(x, 1, Len(x)) \in Seq(STRING) /\ SubSeq(y, 1, Len(x)) \in Seq(STRING)
            /\ Len(SubSeq(x, 1, Len(x))) = Len(SubSeq(y, 1, Len(x)))
            /\ \A i \in 1..Len(SubSeq(x, 1, Len(x))) : SubSeq(x, 1, Len(x))[i] = SubSeq(y, 1, Len(x))[i]
        BY <1>2, <2>2, <3>1, <3>2
      <3> QED BY <3>3, SeqEqual
    <2> QED BY <2>3, <1>2 DEF IsPrefix
  <1>3. CASE t # u
    <2>1. Len(t) <= Len(u) \/ Len(u) <= Len(t)
      OBVIOUS
    <2> QED BY <1>2, <1>3, <2>1 DEF Nests
  <1> QED BY <1>1, <1>3

\* One session per tenant and chat: equal hints on the wire come from one tenant and
\* chat, unless one tenant's name is a beginning of the other's.
THEOREM SessionsApartHolds == Spec => []SessionsApart
  <1>1. ForwardInv => SessionsApart
    <2> SUFFICES ASSUME ForwardInv, NEW v \in wire, NEW w \in wire, v.hint = w.hint
                 PROVE  LET c == call[v.req]
                            d == call[w.req]
                        IN  \/ c.tenant = d.tenant /\ c.chat = d.chat
                            \/ c.tenant # d.tenant /\ Nests(c.tenant, d.tenant)
      BY DEF SessionsApart
    <2> DEFINE c == call[v.req]
               d == call[w.req]
    <2>1. c \in Calls /\ d \in Calls
      BY DEF ForwardInv, Faithful, Tracked
    <2>2. v.hint = c.tenant \o c.chat /\ w.hint = d.tenant \o d.chat
      BY DEF ForwardInv, Faithful, Hint, sessionHintFor
    <2>3. /\ c.tenant \in Seq(STRING) /\ c.chat \in Seq(STRING)
          /\ d.tenant \in Seq(STRING) /\ d.chat \in Seq(STRING)
      BY <2>1, ForwarderAssumption
    <2> HIDE DEF c, d
    <2>4. c.tenant \o c.chat = d.tenant \o d.chat
      BY <2>2
    <2>5. \/ c.tenant = d.tenant /\ c.chat = d.chat
          \/ c.tenant # d.tenant /\ Nests(c.tenant, d.tenant)
      BY <2>3, <2>4, ConcatApart
    <2> QED BY <2>5 DEF c, d
  <1> QED BY <1>1, ForwardInvariant, PTL

\* What the loader makes of a document it does not refuse: its mounts, whichever field
\* named them, its egress and its timeout.
LEMMA LoadedMounts ==
  ASSUME NEW o \in Deployments, LoadProvisioningPolicy(o.doc) # Refused
  PROVE  LET p == LoadProvisioningPolicy(o.doc)
         IN  /\ p.mounts \in Seq(Mounts)
             /\ ToSet(p.mounts) = ToSet(o.doc.plural) \cup ({o.doc.singular} \ {NoMount})
             /\ p.egress = o.doc.egress /\ p.timeout = o.doc.timeout /\ p.timeout \in Int
  <1> DEFINE doc == o.doc
             p == LoadProvisioningPolicy(doc)
             ms == mountsFromWire(doc)
  <1>1. /\ doc.timeout \in Int /\ doc.plural \in Seq(Mounts)
        /\ doc.singular \in Mounts \cup {NoMount}
    BY ForwarderAssumption
  <1>2. /\ ms # Refused
        /\ p = [profile |-> profileFromWire(doc.profile), mounts |-> ms,
                egress |-> doc.egress, pids |-> doc.pids, timeout |-> doc.timeout]
    BY DEF LoadProvisioningPolicy
  <1>3. p.mounts = ms /\ p.egress = doc.egress /\ p.timeout = doc.timeout
    BY <1>2
  <1>4. ms \in Seq(Mounts) /\ ToSet(ms) = ToSet(doc.plural) \cup ({doc.singular} \ {NoMount})
    <2>1. CASE doc.singular # NoMount
      <3>1. doc.plural = <<>> /\ ms = <<doc.singular>> /\ doc.singular \in Mounts
        BY <1>1, <1>2, <2>1 DEF mountsFromWire
      <3>2. ToSet(doc.plural) = {} /\ ToSet(ms) = {doc.singular}
        BY <3>1 DEF ToSet
      <3>3. ms \in Seq(Mounts)
        BY <3>1
      <3> QED BY <2>1, <3>2, <3>3
    <2>2. CASE doc.singular = NoMount
      <3>1. ms = doc.plural
        BY <2>2 DEF mountsFromWire
      <3> QED BY <1>1, <2>2, <3>1
    <2> QED BY <2>1, <2>2
  <1> QED BY <1>1, <1>3, <1>4

\* Two destinations of one mountpoint that are not the same string differ in length.
LEMMA SameMountpoint ==
  ASSUME NEW d \in Seq(STRING), NEW e \in Seq(STRING), d # <<>>, e # <<>>,
         Mountpoint(d) = Mountpoint(e), Len(d) = Len(e)
  PROVE  d = e
  <1>1. Len(d) \in Nat /\ Len(d) >= 1
    OBVIOUS
  <1>2. ASSUME NEW x \in Seq(STRING), x # <<>>
        PROVE  /\ Len(Front(x)) = Len(x) - 1
               /\ \A i \in 1..(Len(x) - 1) : Front(x)[i] = x[i]
    <2> DEFINE n == Len(x) - 1
    <2>1. n \in Nat /\ 1 \in Int /\ n \in Int /\ \A i \in 1..n : x[i] \in STRING
      BY <1>2
    <2> HIDE DEF n
    <2>2. /\ Len(SubSeq(x, 1, n)) = IF 1 <= n THEN n - 1 + 1 ELSE 0
          /\ \A i \in 1..(n - 1 + 1) : SubSeq(x, 1, n)[i] = x[1 + i - 1]
      BY <2>1, SubSeqProperties
    <2>3. /\ Len(SubSeq(x, 1, n)) = n
          /\ \A i \in 1..n : SubSeq(x, 1, n)[i] = x[i]
      BY <2>1, <2>2
    <2> QED BY <2>3 DEF n, Front
  <1>3. CASE Last(d) = "/" /\ Last(e) = "/"
    <2>1. Front(d) = Front(e) /\ d[Len(d)] = e[Len(d)]
      BY <1>3 DEF Mountpoint, Last
    <2>2. \A i \in 1..(Len(d) - 1) : d[i] = e[i]
      BY <1>2, <2>1
    <2>3. \A i \in 1..Len(d) : d[i] = e[i]
      BY <1>1, <2>1, <2>2
    <2> QED BY <2>3, SeqEqual
  <1>4. CASE Last(d) # "/" /\ Last(e) # "/"
    BY <1>4 DEF Mountpoint
  <1>5. CASE Last(d) = "/" /\ Last(e) # "/"
    <2>1. Front(d) = e
      BY <1>5 DEF Mountpoint
    <2> QED BY <1>1, <1>2, <2>1
  <1>6. CASE Last(d) # "/" /\ Last(e) = "/"
    <2>1. Front(e) = d
      BY <1>6 DEF Mountpoint
    <2> QED BY <1>1, <1>2, <2>1
  <1> QED BY <1>3, <1>4, <1>5, <1>6

\* The mounts of an admitted create: one to four, each of one scope and absolute, no
\* two of one mountpoint and length.
LEMMA AdmittedMounts ==
  ASSUME NEW ms \in Seq(Mounts), validateMounts(ms)
  PROVE  /\ Len(ms) \in 1..4
         /\ \A m \in ToSet(ms) : Cardinality({m.fs, m.mem} \ {""}) = 1 /\ m.dest[1] = "/"
         /\ \A i, j \in DOMAIN ms :
              Mountpoint(ms[i].dest) = Mountpoint(ms[j].dest) =>
                  i = j \/ Len(ms[i].dest) # Len(ms[j].dest)
  <1>1. Len(ms) \in 1..4
    BY DEF validateMounts, maxMountIntents
  <1>2. \A i \in DOMAIN ms : /\ ms[i] \in Mounts /\ scopeValid(ms[i])
                             /\ ms[i].dest # <<>> /\ Head(ms[i].dest) = "/"
    BY DEF validateMounts, Absolute
  <1>3. \A i \in DOMAIN ms : ms[i].dest \in Seq(STRING)
    BY <1>2 DEF Mounts
  <1>4. ASSUME NEW i \in DOMAIN ms
        PROVE  Cardinality({ms[i].fs, ms[i].mem} \ {""}) = 1 /\ ms[i].dest[1] = "/"
    <2>1. ms[i].dest[1] = "/"
      BY <1>2, <1>3
    <2>2. \/ {ms[i].fs, ms[i].mem} \ {""} = {ms[i].fs}
          \/ {ms[i].fs, ms[i].mem} \ {""} = {ms[i].mem}
      BY <1>2 DEF scopeValid
    <2>3. Cardinality({ms[i].fs}) = 1 /\ Cardinality({ms[i].mem}) = 1
      BY FS_Singleton
    <2> QED BY <2>1, <2>2, <2>3
  <1>5. ASSUME NEW i \in DOMAIN ms, NEW j \in DOMAIN ms,
               Mountpoint(ms[i].dest) = Mountpoint(ms[j].dest),
               Len(ms[i].dest) = Len(ms[j].dest)
        PROVE  i = j
    <2>1. ms[i].dest = ms[j].dest
      BY <1>2, <1>3, <1>5, SameMountpoint
    <2> QED BY <2>1 DEF validateMounts
  <1> QED BY <1>1, <1>4, <1>5 DEF ToSet

\* Whatever the document says of the timeout, an exec is sent with one within bounds,
\* and a configured one within bounds is kept.
LEMMA ClampBounds ==
  ASSUME NEW t \in Int
  PROVE  /\ clampExecTimeout(t) \in 1..300
         /\ t \in 1..300 => clampExecTimeout(t) = t
  BY DEF clampExecTimeout, execTimeoutDefaultSeconds, execTimeoutMinSeconds, execTimeoutMaxSeconds

\* Every create on the wire carries exactly the mounts and egress the operator's document
\* names, admitted; every exec a bounded timeout, the document's own if it is in bounds.
THEOREM ProvisionedAsWrittenHolds == Spec => []ProvisionedAsWritten
  <1>1. ForwardInv => ProvisionedAsWritten
    <2> SUFFICES ASSUME ForwardInv, NEW w \in wire
                 PROVE  /\ w.hop = "create" =>
                             LET ms == w.body.mounts
                             IN  /\ ToSet(ms) = NamedMounts /\ Len(ms) \in 1..4
                                 /\ \A m \in ToSet(ms) : Cardinality({m.fs, m.mem} \ {""}) = 1 /\ m.dest[1] = "/"
                                 /\ \A i, j \in DOMAIN ms :
                                      Mountpoint(ms[i].dest) = Mountpoint(ms[j].dest) =>
                                          i = j \/ Len(ms[i].dest) # Len(ms[j].dest)
                                 /\ w.body.egress = opts.doc.egress
                        /\ w.hop = "exec" =>
                             /\ w.body.timeout \in 1..300
                             /\ opts.doc.timeout \in 1..300 => w.body.timeout = opts.doc.timeout
      BY DEF ProvisionedAsWritten
    <2>1. /\ Faithful(w) /\ opts \in Deployments
          /\ policy = LoadProvisioningPolicy(opts.doc) /\ policy # Refused
          /\ validate(buildCreateRequest(policy, <<"probe">>))
      BY DEF ForwardInv, TypeOK, Booted, Faithful
    <2>2. /\ policy.mounts \in Seq(Mounts) /\ ToSet(policy.mounts) = NamedMounts
          /\ policy.egress = opts.doc.egress
          /\ policy.timeout = opts.doc.timeout /\ policy.timeout \in Int
      BY <2>1, LoadedMounts DEF NamedMounts
    <2>3. validateMounts(policy.mounts)
      BY <2>1 DEF validate, buildCreateRequest
    <2>4. w.hop = "create" => w.body.mounts = policy.mounts /\ w.body.egress = policy.egress
      BY <2>1 DEF Faithful, createBody, buildCreateRequest
    <2>5. w.hop = "exec" => w.body.timeout = clampExecTimeout(policy.timeout)
      BY <2>1 DEF Faithful, execBody
    <2>6. CASE w.hop = "create"
      <3> DEFINE ms == policy.mounts
      <3>1. /\ Len(ms) \in 1..4
            /\ \A m \in ToSet(ms) : Cardinality({m.fs, m.mem} \ {""}) = 1 /\ m.dest[1] = "/"
            /\ \A i, j \in DOMAIN ms :
                 Mountpoint(ms[i].dest) = Mountpoint(ms[j].dest) =>
                     i = j \/ Len(ms[i].dest) # Len(ms[j].dest)
        BY <2>2, <2>3, AdmittedMounts
      <3>2. w.body.mounts = ms /\ w.body.egress = opts.doc.egress /\ ToSet(ms) = NamedMounts
        BY <2>2, <2>4, <2>6
      <3>3. w.hop # "exec"
        BY <2>6
      <3> HIDE DEF ms
      <3> QED BY <3>1, <3>2, <3>3
    <2>7. CASE w.hop = "exec"
      <3>1. w.body.timeout = clampExecTimeout(opts.doc.timeout) /\ opts.doc.timeout \in Int
        BY <2>2, <2>5, <2>7
      <3>2. /\ clampExecTimeout(opts.doc.timeout) \in 1..300
            /\ opts.doc.timeout \in 1..300 => clampExecTimeout(opts.doc.timeout) = opts.doc.timeout
        BY <3>1, ClampBounds
      <3>3. w.hop # "create"
        BY <2>7
      <3> QED BY <3>1, <3>2, <3>3
    <2> QED BY <2>6, <2>7
  <1> QED BY <1>1, ForwardInvariant, PTL
===============================================================================
