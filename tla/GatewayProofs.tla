---------------------------- MODULE GatewayProofs ----------------------------
(***************************************************************************)
(* Proofs about Gateway, for any sets of requests, connections, keys and   *)
(* inputs, any policy, any ceiling and any bound of a line: who holds      *)
(* what at each point of the handler, and what follows for the ceiling,    *)
(* the lines, the logon trail and Control; then the audit trail: what an   *)
(* answer says about the records before it, and the order of the calls of  *)
(* one tenant.                                                             *)
(***************************************************************************)
EXTENDS Gateway, SequenceTheorems, TLAPS

CP == INSTANCE CeilingProofs WITH Holders <- Requests, Limit <- CeilingLimit

-------------------------------------------------------------------------------
(* The inductive invariants *)

\* A request whose call may go to Control.
Admitted(r) ==
    /\ req[r] # NoInput
    /\ PreAuth(req[r].shape) = Pass
    /\ req[r].key \in Keys
    /\ IsCall(req[r].shape)
    /\ req[r].shape.tool # "unknown"
    /\ <<req[r].key, req[r].shape.tool>> \in Permitted

\* Where a handler is says what it has checked and what it holds: a slot of the ceiling
\* from the bounded read on, a place in its tenant's line from the serializer on.
Stage(r) ==
    /\ pc[r] = "idle" <=> req[r] = NoInput
    /\ pc[r] \notin {"idle", "arrived", "logonFailed", "done"} =>
         PreAuth(req[r].shape) = Pass /\ req[r].key \in Keys
    /\ pc[r] \in {"idle", "arrived", "logonFailed", "logon", "ceiling"} =>
         slot[r] = Free /\ place[r] = "away"
    /\ pc[r] = "read" => slot[r] # Free /\ place[r] = "away"
    /\ pc[r] = "queued" => place[r] = "queued"
    /\ pc[r] \in {"create", "await", "unwindLine"} => place[r] = "running"
    /\ pc[r] = "record" => place[r] \in {"away", "running"}
    /\ pc[r] = "unwindSlot" => place[r] \in {"away", "refused"} /\ slot[r] # Free
    /\ pc[r] = "done" => place[r] \in {"away", "refused"} /\ slot[r] \notin Keys
    /\ place[r] \in {"queued", "running"} => slot[r] # Free /\ Admitted(r)

\* A line holds the requests of its tenant that wait or run, each once; the one that
\* runs is its head.
Lines ==
    /\ \A t \in Tenants : \A i \in 1..Len(line[t]) :
         place[line[t][i]] \in {"queued", "running"} /\ Tenant(line[t][i]) = t
    /\ \A t \in Tenants : \A i, j \in 1..Len(line[t]) : line[t][i] = line[t][j] => i = j
    /\ \A r \in Requests : place[r] = "running" =>
         line[Tenant(r)] # <<>> /\ Head(line[Tenant(r)]) = r

HoldInv ==
    /\ TypeOK
    /\ \A r \in Requests : Stage(r)
    /\ Lines
    /\ CP!CeilingInv

\* A connection has one request in service, and one that records its logon finds none
\* recorded.
LogonInv ==
    /\ \A q, r \in Requests :
         InService(q) /\ InService(r) /\ req[q].conn = req[r].conn => q = r
    /\ \A r \in Requests : pc[r] = "logon" => logons[req[r].conn] = 0
    /\ LogonTrail

\* What Control was asked comes from admitted requests, past their create hop.
ForwardedInv ==
    /\ sessions \subseteq {Hint(r) : r \in {q \in Requests : Admitted(q)}}
    /\ \A r \in inbox : Admitted(r)
    /\ \A i \in DOMAIN trail : trail[i].ev \in {"sent", "ran"} => Admitted(trail[i].by)

-------------------------------------------------------------------------------
(* The decisions of Admission *)

\* Only a call of an advertised tool passes every check of the body.
LEMMA PassIsCall ==
  ASSUME NEW q \in Shapes, AfterRead(q) = Pass
  PROVE  IsCall(q) /\ q.tool # "unknown"
  BY DEF Shapes, Bodies, Tools, AfterRead, Then, readBounded, writeProfileDeny, writeRPCError,
         writeRPCErrorWithID, rpcErrorBody, writeRPCSuccess, Accepted, Pass, ValidateSingleMessageEnvelope,
         Validate, enforceSize, ValidateBase, allowedToolNames, IsCall

\* The answers to headers and bodies; a call gets no result from them.
LEMMA LocalAnswers ==
  ASSUME NEW q \in Shapes
  PROVE  /\ PreAuth(q) \in {Pass, writeRPCError(405), writeRPCError(400), writeRPCError(403)}
         /\ AfterRead(q) \in {Pass, writeRPCError(413), writeRPCError(400), writeRPCErrorWithID(413),
                              writeRPCErrorWithID(400), writeRPCErrorWithID(200), Accepted,
                              writeRPCSuccess}
         /\ IsCall(q) => AfterRead(q) # writeRPCSuccess
  <1>1. readBounded(q) \in {Pass, writeRPCError(413), writeRPCError(400)}
    BY DEF readBounded
  <1>2. writeProfileDeny(ValidateSingleMessageEnvelope(q), FALSE) \in {Pass, writeRPCError(400)}
    <2>1. ValidateSingleMessageEnvelope(q) \in {"batching", "baseSchema", "none"}
      BY DEF ValidateSingleMessageEnvelope
    <2> QED BY <2>1 DEF writeProfileDeny, writeRPCError
  <1>3. writeProfileDeny(Validate(q), TRUE) \in {Pass, writeRPCErrorWithID(413), writeRPCErrorWithID(400)}
    <2>1. \/ Validate(q) = "none" \/ Validate(q) = "overSize"
          \/ Validate(q) \in {"methodNotFound", "baseSchema"}
      BY DEF Validate, enforceSize, ValidateBase
    <2>2. CASE Validate(q) = "none"
      BY <2>2 DEF writeProfileDeny
    <2>3. CASE Validate(q) = "overSize"
      BY <2>3 DEF writeProfileDeny, writeRPCErrorWithID
    <2>4. CASE Validate(q) \in {"methodNotFound", "baseSchema"}
      <3>1. Validate(q) # "none" /\ Validate(q) # "overSize"
        BY <2>4
      <3>2. writeProfileDeny(Validate(q), TRUE) = rpcErrorBody(400, TRUE)
        BY <3>1 DEF writeProfileDeny
      <3> QED BY <3>2 DEF writeRPCErrorWithID
    <2> QED BY <2>1, <2>2, <2>3, <2>4
  <1>4. writeRPCSuccess \notin {Pass, writeRPCError(413), writeRPCError(400), writeRPCErrorWithID(413),
                               writeRPCErrorWithID(400), writeRPCErrorWithID(200), Accepted}
    BY DEF writeRPCSuccess, Pass, writeRPCError, writeRPCErrorWithID, rpcErrorBody, Accepted
  <1> HIDE DEF readBounded, writeProfileDeny, writeRPCError, writeRPCErrorWithID, writeRPCSuccess,
               Accepted, Pass
  <1>5. PreAuth(q) \in {Pass, writeRPCError(405), writeRPCError(400), writeRPCError(403)}
    BY DEF PreAuth
  <1> DEFINE d == writeProfileDeny(Validate(q), TRUE)
             a == Then(readBounded(q), writeProfileDeny(ValidateSingleMessageEnvelope(q), FALSE))
             b == Then(d,
                       IF q.tool \notin allowedToolNames THEN writeRPCErrorWithID(200) ELSE Pass)
             c == IF q.body = "notification" THEN Accepted
                  ELSE IF q.version = "absent" /\ q.body # "initialize" THEN writeRPCError(400)
                  ELSE IF q.body \in {"initialize", "toolsList"} THEN writeRPCSuccess
                  ELSE b
  <1>6. a \in {Pass, writeRPCError(413), writeRPCError(400)}
    BY <1>1, <1>2 DEF Then
  <1>7. b \in {Pass, writeRPCErrorWithID(413), writeRPCErrorWithID(400), writeRPCErrorWithID(200)}
    <2> HIDE DEF d
    <2>1. d \in {Pass, writeRPCErrorWithID(413), writeRPCErrorWithID(400)}
      BY <1>3 DEF d
    <2> QED BY <2>1 DEF Then
  <1> HIDE DEF a, b
  <1>8. /\ c \in {Accepted, writeRPCError(400), writeRPCSuccess, b}
        /\ IsCall(q) => c \in {writeRPCError(400), b}
    BY DEF IsCall
  <1>9. AfterRead(q) = IF a # Pass THEN a ELSE c
    BY DEF AfterRead, Then, a, b
  <1> HIDE DEF c
  <1>10. AfterRead(q) \in {Pass, writeRPCError(413), writeRPCError(400), writeRPCErrorWithID(413),
                          writeRPCErrorWithID(400), writeRPCErrorWithID(200), Accepted, writeRPCSuccess}
    BY <1>6, <1>7, <1>8, <1>9
  <1>11. IsCall(q) => AfterRead(q) # writeRPCSuccess
    BY <1>4, <1>6, <1>7, <1>8, <1>9
  <1> QED BY <1>5, <1>10, <1>11

\* They are replies.
LEMMA LocalReplies ==
  ASSUME NEW q \in Shapes
  PROVE  PreAuth(q) \in Replies \cup {Pass} /\ AfterRead(q) \in Replies \cup {Pass}
  <1>1. {writeRPCError(405), writeRPCError(400), writeRPCError(403), writeRPCError(413)} \subseteq Replies
    BY DEF writeRPCError, rpcErrorBody, Replies
  <1>2. {writeRPCErrorWithID(413), writeRPCErrorWithID(400), writeRPCErrorWithID(200), Accepted,
         writeRPCSuccess} \subseteq Replies
    BY DEF writeRPCErrorWithID, rpcErrorBody, Accepted, writeRPCSuccess, Replies
  <1> QED BY <1>1, <1>2, LocalAnswers

-------------------------------------------------------------------------------
(* Types *)

LEMMA CeilingAssumptionHolds == CP!CeilingAssumption
  <1>1. IsFiniteSet(Requests)
    BY GatewayAssumption
  <1>2. CP!IsFiniteSet(Requests)
    BY <1>1 DEF CP!IsFiniteSet, IsFiniteSet
  <1> QED BY <1>2, GatewayAssumption DEF CP!CeilingAssumption

LEMMA InitTypes == Init => TypeOK
  <1> SUFFICES ASSUME Init PROVE TypeOK
    OBVIOUS
  <1>1. C!TypeOK
    BY DEF Init, C!NewCeiling, C!TypeOK
  <1>2. trail \in Seq(Events)
    BY DEF Init
  <1>3. line \in [Tenants -> Seq(Requests)] /\ place \in [Requests -> {"away", "refused", "queued", "running"}]
    BY DEF Init, L!Init
  <1> QED BY <1>1, <1>2, <1>3 DEF Init, TypeOK, PCs

\* A handler steps over its own variables only.
LEMMA HandleFrame ==
  ASSUME TypeOK, NEW r \in Requests, Handle(r), NEW q \in Requests, q # r
  PROVE  /\ pc'[q] = pc[q] /\ reply'[q] = reply[q] /\ slot'[q] = slot[q] /\ place'[q] = place[q]
  BY DEF TypeOK, Handle, RefuseHeaders, AuthFails, RecordFailedLogon, Authenticate, RecordLogon,
         LoseLogon, AcquireSlot, RefuseSlot, RespondLocally, Deny, RefuseFull, Serialize, Enter,
         CreateSession, ForwardFails, RelayResult, Record, ReleaseLine, ReleaseSlot,
         Goto, Answer, admissionVars, logonVars, C!Acquire, C!Refuse, C!Release, C!vars, C!TypeOK,
         L!Join, L!Refuse, L!Enter, L!Leave

\* What a request in service is.
LEMMA InServiceFacts ==
  ASSUME TypeOK, NEW r \in Requests, Stage(r), pc[r] # "idle"
  PROVE  /\ req[r] \in Inputs /\ req[r].shape \in Shapes /\ req[r].conn \in Conns
         /\ req[r].key \in Keys \cup {NoKey}
         /\ req[r].key \in Keys => Tenant(r) \in Tenants
  BY GatewayAssumption DEF TypeOK, Stage, Tenants, Tenant

LEMMA ErrorReplies ==
  /\ \A s \in {401, 429, 403, 500, 502, 200} : writeRPCError(s) \in Replies /\ writeRPCErrorWithID(s) \in Replies
  /\ writeRPCSuccess \in Replies
  BY DEF writeRPCError, writeRPCErrorWithID, rpcErrorBody, writeRPCSuccess, Replies

LEMMA SinkType ==
  ASSUME TypeOK, NEW r \in Requests, Publish(r) \/ PublishFails(r)
  PROVE  sinkOpen' \in BOOLEAN
  BY DEF TypeOK, Publish, PublishFails

\* The steps before the bounded read keep the types.
LEMMA FrontTypes ==
  ASSUME TypeOK, NEW r \in Requests, Stage(r),
         \/ RefuseHeaders(r) \/ AuthFails(r) \/ RecordFailedLogon(r) \/ Authenticate(r)
         \/ RecordLogon(r) \/ RefuseSlot(r)
  PROVE  TypeOK'
  <1>1. CASE RefuseHeaders(r)
    <2>1. PreAuth(req[r].shape) \in Replies \cup {Pass}
      BY <1>1, InServiceFacts, LocalReplies DEF RefuseHeaders
    <2> QED BY <1>1, <2>1 DEF RefuseHeaders, Goto, Answer, TypeOK, PCs, C!TypeOK, admissionVars,
                              logonVars, controlVars, envVars
  <1>2. CASE AuthFails(r)
    BY <1>2, ErrorReplies DEF AuthFails, Goto, Answer, TypeOK, PCs, C!TypeOK, admissionVars,
                              logonVars, controlVars, envVars
  <1>3. CASE RecordFailedLogon(r)
    <2>1. sinkOpen' \in BOOLEAN
      BY <1>3, SinkType DEF RecordFailedLogon
    <2> QED BY <1>3, <2>1 DEF RecordFailedLogon, Goto, TypeOK, PCs, C!TypeOK, controlVars, envVars
  <1>4. CASE Authenticate(r)
    BY <1>4 DEF Authenticate, Goto, TypeOK, PCs, C!TypeOK, controlVars, envVars
  <1>5. CASE RecordLogon(r)
    <2>1. sinkOpen' \in BOOLEAN
      BY <1>5, SinkType DEF RecordLogon, LoseLogon
    <2>2. latch' \in [Conns -> BOOLEAN]
      BY <1>5 DEF RecordLogon, LoseLogon, TypeOK
    <2>3. logons' \in [Conns -> Nat] /\ dropped' \in Nat
      BY <1>5 DEF RecordLogon, LoseLogon, TypeOK
    <2> QED BY <1>5, <2>1, <2>2, <2>3 DEF RecordLogon, Goto, TypeOK, PCs, C!TypeOK, controlVars, envVars
  <1>6. CASE RefuseSlot(r)
    BY <1>6, ErrorReplies DEF RefuseSlot, C!Refuse, C!vars, Goto, Answer, TypeOK, PCs, C!TypeOK,
                              logonVars, controlVars, envVars
  <1> QED BY <1>1, <1>2, <1>3, <1>4, <1>5, <1>6

\* So do the steps that answer a read request or send it on.
LEMMA MiddleTypes ==
  ASSUME TypeOK, NEW r \in Requests, Stage(r),
         \/ RespondLocally(r) \/ Deny(r) \/ RefuseFull(r) \/ Serialize(r) \/ Enter(r)
  PROVE  TypeOK'
  <1>1. CASE RespondLocally(r)
    <2>1. AfterRead(req[r].shape) \in Replies \cup {Pass}
      BY <1>1, InServiceFacts, LocalReplies DEF RespondLocally
    <2> QED BY <1>1, <2>1 DEF RespondLocally, Goto, Answer, TypeOK, PCs, C!TypeOK, admissionVars,
                              logonVars, controlVars, envVars
  <1>2. CASE Deny(r)
    BY <1>2, ErrorReplies DEF Deny, Goto, Answer, TypeOK, PCs, C!TypeOK, admissionVars,
                              logonVars, controlVars, envVars
  <1>3. CASE RefuseFull(r)
    BY <1>3, ErrorReplies DEF RefuseFull, L!Refuse, Goto, Answer, TypeOK, PCs, C!TypeOK, admissionVars,
                              logonVars, controlVars, envVars
  <1>4. CASE Serialize(r)
    <2>1. line' \in [Tenants -> Seq(Requests)]
      <3>1. Tenant(r) \in Tenants /\ line \in [Tenants -> Seq(Requests)]
        BY <1>4, InServiceFacts DEF Serialize, TypeOK, Stage
      <3>2. Append(line[Tenant(r)], r) \in Seq(Requests)
        BY <3>1
      <3>3. line' = [line EXCEPT ![Tenant(r)] = Append(line[Tenant(r)], r)]
        BY <1>4 DEF Serialize, L!Join
      <3> QED BY <3>1, <3>2, <3>3
    <2>2. place' \in [Requests -> {"away", "refused", "queued", "running"}]
      BY <1>4 DEF Serialize, L!Join, TypeOK
    <2> QED BY <1>4, <2>1, <2>2 DEF Serialize, Goto, TypeOK, PCs, C!TypeOK, admissionVars,
                              logonVars, controlVars, envVars
  <1>5. CASE Enter(r)
    BY <1>5 DEF Enter, L!Enter, Goto, TypeOK, PCs, C!TypeOK, admissionVars,
                logonVars, controlVars, envVars
  <1> QED BY <1>1, <1>2, <1>3, <1>4, <1>5

\* So do the hops to Control and the record.
LEMMA ForwardTypes ==
  ASSUME TypeOK, NEW r \in Requests, Stage(r),
         \/ CreateSession(r) \/ ForwardFails(r) \/ RelayResult(r) \/ Record(r)
         \/ ControlRuns(r)
  PROVE  TypeOK'
  <1>1. \A e \in {"sent", "ran", "success", "failure"} : Append(trail, [ev |-> e, by |-> r]) \in Seq(Events)
    <2> SUFFICES ASSUME NEW e \in {"sent", "ran", "success", "failure"}
                 PROVE  Append(trail, [ev |-> e, by |-> r]) \in Seq(Events)
      OBVIOUS
    <2>1. [ev |-> e, by |-> r] \in Events
      BY DEF Events
    <2>2. trail \in Seq(Events)
      BY DEF TypeOK
    <2> QED BY <2>1, <2>2
  <1>2. pc[r] = "create" => Hint(r) \in {sessionHintFor(TenantOf[i.key], i.chat) :
                                          i \in {j \in Inputs : j.key \in Keys}}
    <2> SUFFICES ASSUME pc[r] = "create" PROVE Hint(r) \in {sessionHintFor(TenantOf[i.key], i.chat) :
                                          i \in {j \in Inputs : j.key \in Keys}}
      OBVIOUS
    <2>1. req[r] \in Inputs /\ req[r].key \in Keys
      BY InServiceFacts DEF Stage
    <2> QED BY <2>1 DEF Hint, Tenant
  <1>3. CASE CreateSession(r)
    <2>1. CASE req[r].shape.tool = "bare"
      <3>1. reply' \in [Requests -> Replies \cup {Pass}]
        BY SMTT(30), <1>3, <2>1, ErrorReplies DEF CreateSession, Answer, TypeOK
      <3> QED BY <1>2, <1>3, <2>1, <3>1 DEF CreateSession, Goto, TypeOK, PCs, C!TypeOK,
                              admissionVars, logonVars, envVars
    <2>2. CASE req[r].shape.tool # "bare"
      BY <1>1, <1>2, <1>3, <2>2 DEF CreateSession, Goto, TypeOK, PCs, C!TypeOK,
                              admissionVars, logonVars, envVars
    <2> QED BY <2>1, <2>2
  <1>4. CASE ForwardFails(r)
    <2>1. reply' \in [Requests -> Replies \cup {Pass}] /\ pc' \in [Requests -> PCs]
      BY <1>4, ErrorReplies DEF ForwardFails, Goto, Answer, TypeOK, PCs
    <2>2. inbox' \subseteq Requests
      BY <1>4 DEF ForwardFails, TypeOK
    <2>3. sessions' \subseteq {sessionHintFor(TenantOf[i.key], i.chat) :
                                          i \in {j \in Inputs : j.key \in Keys}}
      BY <1>4, <1>2 DEF ForwardFails, TypeOK
    <2> QED BY <1>4, <2>1, <2>2, <2>3 DEF ForwardFails, TypeOK, C!TypeOK, admissionVars, logonVars, envVars
  <1>5. CASE RelayResult(r)
    BY <1>5, ErrorReplies DEF RelayResult, Goto, Answer, TypeOK, PCs, C!TypeOK, admissionVars, logonVars,
                              controlVars, envVars
  <1>6. CASE Record(r)
    <2>1. Outcome(r) \in {"sent", "ran", "success", "failure"} /\ Unwind(r) \in PCs
      BY DEF Outcome, Unwind, PCs
    <2>2. trail' \in Seq(Events) /\ sinkOpen' \in BOOLEAN
      BY <1>1, <1>6, <2>1 DEF Record, Publish, PublishFails, TypeOK
    <2>3. rpcErrorBody(500, reply[r].id) \in Replies
      <3>1. reply[r].id \in BOOLEAN
        <4>1. CASE reply[r] \in Replies
          BY <4>1 DEF Replies
        <4>2. CASE reply[r] = Pass
          <5>1. Pass.id = FALSE
            BY DEF Pass
          <5> QED BY <4>2, <5>1
        <4> QED BY <4>1, <4>2 DEF TypeOK
      <3> QED BY <3>1 DEF rpcErrorBody, Replies
    <2>4. reply' \in [Requests -> Replies \cup {Pass}]
      <3>1. reply' = reply \/ reply' = [reply EXCEPT ![r] = rpcErrorBody(500, reply[r].id)]
        BY <1>6 DEF Record, Answer
      <3> QED BY SMTT(30), <2>3, <3>1 DEF TypeOK
    <2> QED BY <1>6, <2>1, <2>2, <2>4 DEF Record, Goto, TypeOK, C!TypeOK, admissionVars, logonVars,
                              controlVars, envVars
  <1>7. CASE ControlRuns(r)
    BY <1>1, <1>7 DEF ControlRuns, TypeOK, C!TypeOK, admissionVars, logonVars, envVars
  <1> QED BY <1>3, <1>4, <1>5, <1>6, <1>7

\* The ceiling, seen from the pipeline: the two steps that move it are Ceiling's own.
LEMMA CeilingStep ==
  ASSUME HoldInv, [Next]_vars
  PROVE  CP!CeilingInv'
  <1> USE CeilingAssumptionHolds
  <1>1. ASSUME counts' = counts, slot' = slot PROVE CP!CeilingInv'
    <2>1. CP!TypeOK' /\ \A k \in Keys : CP!Holding(k)' = CP!Holding(k)
      BY <1>1 DEF HoldInv, CP!CeilingInv, CP!TypeOK, CP!Holding
    <2> QED BY <1>1, <2>1, CP!SameHolders DEF HoldInv
  <1>2. ASSUME NEW r \in Requests, AcquireSlot(r) PROVE CP!CeilingInv'
    <2>1. req[r].key \in Keys
      BY <1>2 DEF AcquireSlot, HoldInv, Stage
    <2>2. CP!Acquire(r, req[r].key)
      BY <1>2 DEF AcquireSlot, C!Acquire, CP!Acquire, C!AtLimit, CP!AtLimit, C!InFlight, CP!InFlight
    <2> QED BY <2>1, <2>2, CP!AcquireKeeps DEF HoldInv
  <1>3. ASSUME NEW r \in Requests, ReleaseSlot(r) PROVE CP!CeilingInv'
    <2>1. CP!Release(r)
      BY <1>3 DEF ReleaseSlot, C!Release, CP!Release, C!Decrement, CP!Decrement, C!vars, CP!vars
    <2> QED BY <2>1, CP!ReleaseKeeps DEF HoldInv
  <1>4. ASSUME NEW r \in Requests, Handle(r), ~AcquireSlot(r), ~ReleaseSlot(r) PROVE CP!CeilingInv'
    <2>1. counts' = counts /\ slot' = slot
      BY <1>4 DEF Handle, RefuseHeaders, AuthFails, RecordFailedLogon, Authenticate, RecordLogon,
         RefuseSlot, RespondLocally, Deny, RefuseFull, Serialize, Enter,
         CreateSession, ForwardFails, RelayResult, Record, ReleaseLine, admissionVars, C!Refuse, C!vars
    <2> QED BY <2>1, <1>1
  <1>5. ASSUME ~ \E r \in Requests : Handle(r) PROVE CP!CeilingInv'
    <2>1. counts' = counts /\ slot' = slot
      BY <1>5 DEF Next, Arrive, ControlRuns, Disconnect, Shutdown, CloseSink, Quiet, admissionVars, vars
    <2> QED BY <2>1, <1>1
  <1> QED BY <1>2, <1>3, <1>4, <1>5

\* What is outside the handlers keeps the types.
LEMMA EnvTypes ==
  ASSUME TypeOK,
         \/ \E r \in Requests, i \in Inputs : Arrive(r, i)
         \/ \E c \in Conns : Disconnect(c)
         \/ Shutdown \/ CloseSink \/ Quiet \/ UNCHANGED vars
  PROVE  TypeOK'
  <1>1. ASSUME NEW r \in Requests, NEW i \in Inputs, Arrive(r, i) PROVE TypeOK'
    BY <1>1 DEF Arrive, Goto, TypeOK, PCs, C!TypeOK, admissionVars, logonVars, controlVars, envVars
  <1>2. ASSUME NEW c \in Conns, Disconnect(c) PROVE TypeOK'
    BY <1>2 DEF Disconnect, TypeOK, C!TypeOK, admissionVars, logonVars, controlVars
  <1>3. CASE Shutdown
    BY <1>3 DEF Shutdown, TypeOK, C!TypeOK, admissionVars, logonVars, controlVars
  <1>4. CASE CloseSink
    BY <1>4 DEF CloseSink, TypeOK, C!TypeOK, admissionVars, logonVars, controlVars, envVars
  <1>5. CASE UNCHANGED vars
    BY <1>5 DEF vars, TypeOK, C!TypeOK
  <1> QED BY <1>1, <1>2, <1>3, <1>4, <1>5 DEF Quiet

\* The whole pipeline keeps them.
LEMMA TypeStep ==
  ASSUME HoldInv, [Next]_vars
  PROVE  TypeOK'
  <1>1. C!TypeOK'
    BY CeilingStep DEF CP!CeilingInv, CP!TypeOK, C!TypeOK
  <1>2. ASSUME NEW r \in Requests, Handle(r) PROVE TypeOK'
    <2>1. TypeOK /\ Stage(r)
      BY DEF HoldInv
    <2>2. CASE AcquireSlot(r)
      BY <1>1, <2>1, <2>2 DEF AcquireSlot, Goto, TypeOK, PCs, logonVars, controlVars, envVars
    <2>3. CASE ReleaseSlot(r)
      BY <1>1, <2>1, <2>3 DEF ReleaseSlot, Goto, TypeOK, PCs, logonVars, controlVars, envVars
    <2>4. CASE ReleaseLine(r)
      <3>1. Tenant(r) \in Tenants /\ line \in [Tenants -> Seq(Requests)]
        BY <2>1, <2>4, InServiceFacts DEF ReleaseLine, TypeOK, Stage
      <3>2. Tail(line[Tenant(r)]) \in Seq(Requests)
        <4>1. line[Tenant(r)] \in Seq(Requests) /\ line[Tenant(r)] # <<>>
          BY <3>1, <2>4 DEF ReleaseLine, L!Leave
        <4> QED BY <4>1
      <3>3. line' = [line EXCEPT ![Tenant(r)] = Tail(line[Tenant(r)])]
        BY <2>4 DEF ReleaseLine, L!Leave
      <3>4. line' \in [Tenants -> Seq(Requests)]
        BY <3>1, <3>2, <3>3
      <3>5. place' \in [Requests -> {"away", "refused", "queued", "running"}]
        BY <2>1, <2>4 DEF ReleaseLine, L!Leave, TypeOK
      <3> QED BY <2>1, <2>4, <3>4, <3>5 DEF ReleaseLine, Goto, TypeOK, PCs, C!TypeOK, admissionVars,
                                     logonVars, controlVars, envVars
    <2> QED BY <1>2, <2>1, <2>2, <2>3, <2>4, FrontTypes, MiddleTypes, ForwardTypes DEF Handle
  <1>3. ASSUME NEW r \in Requests, ControlRuns(r) PROVE TypeOK'
    BY <1>3, ForwardTypes DEF HoldInv
  <1> QED BY <1>2, <1>3, EnvTypes DEF Next, HoldInv

-------------------------------------------------------------------------------
(* What a handler holds *)

LEMMA StageFrame ==
  ASSUME NEW q \in Requests, Stage(q),
         pc'[q] = pc[q], req'[q] = req[q], slot'[q] = slot[q], place'[q] = place[q]
  PROVE  Stage(q)'
  BY DEF Stage, Admitted

LEMMA HandleKeepsReq ==
  ASSUME NEW r \in Requests, Handle(r)
  PROVE  req' = req
  BY DEF Handle, RefuseHeaders, AuthFails, RecordFailedLogon, Authenticate, RecordLogon,
         AcquireSlot, RefuseSlot, RespondLocally, Deny, RefuseFull, Serialize, Enter,
         CreateSession, ForwardFails, RelayResult, Record, ReleaseLine, ReleaseSlot

\* A call that the checks and the policy let through is admitted.
LEMMA AuthorizedIsAdmitted ==
  ASSUME TypeOK, NEW r \in Requests, Stage(r), pc[r] = "read", Authorized(r)
  PROVE  Admitted(r)
  <1>1. req[r].shape \in Shapes /\ req[r] # NoInput
    BY InServiceFacts, GatewayAssumption
  <1>2. IsCall(req[r].shape) /\ req[r].shape.tool # "unknown"
    BY <1>1, PassIsCall DEF Authorized
  <1> QED BY <1>1, <1>2 DEF Stage, Admitted, Authorized

\* A handler's own step keeps its stage.
LEMMA StageOwn ==
  ASSUME TypeOK, NEW r \in Requests, Stage(r), Handle(r)
  PROVE  Stage(r)'
  <1>1. req' = req
    BY HandleKeepsReq
  <1>2. Admitted(r)' <=> Admitted(r)
    BY <1>1 DEF Admitted
  <1>3. pc \in [Requests -> PCs] /\ slot \in [Requests -> Keys \cup {Free, NoOp, Released}]
        /\ place \in [Requests -> {"away", "refused", "queued", "running"}]
    BY DEF TypeOK, C!TypeOK
  <1> USE GatewayAssumption
  <1>4. CASE RefuseHeaders(r) \/ AuthFails(r) \/ RecordFailedLogon(r)
    <2>1. slot' = slot /\ place' = place /\ pc' \in {[pc EXCEPT ![r] = "done"], [pc EXCEPT ![r] = "logonFailed"]}
      BY <1>4 DEF RefuseHeaders, AuthFails, RecordFailedLogon, Goto, admissionVars
    <2>2. pc[r] \in {"arrived", "logonFailed"}
      BY <1>4 DEF RefuseHeaders, AuthFails, RecordFailedLogon
    <2> QED BY <1>1, <1>2, <1>3, <2>1, <2>2 DEF Stage
  <1>5. CASE Authenticate(r) \/ RecordLogon(r) \/ RefuseSlot(r)
    <2>1. slot' = slot /\ place' = place
          /\ pc' \in {[pc EXCEPT ![r] = "logon"], [pc EXCEPT ![r] = "ceiling"], [pc EXCEPT ![r] = "record"]}
      BY <1>5 DEF Authenticate, RecordLogon, RefuseSlot, Goto, C!Refuse, C!vars
    <2>2. pc[r] \in {"arrived", "logon", "ceiling"} /\ PreAuth(req[r].shape) = Pass /\ req[r].key \in Keys
      BY <1>5 DEF Authenticate, RecordLogon, RefuseSlot, Stage
    <2> QED BY <1>1, <1>2, <1>3, <2>1, <2>2 DEF Stage
  <1>6. CASE AcquireSlot(r)
    <2>1. slot'[r] # Free /\ place' = place /\ pc' = [pc EXCEPT ![r] = "read"]
      BY <1>3, <1>6 DEF AcquireSlot, C!Acquire, Goto, Stage
    <2>2. pc[r] = "ceiling"
      BY <1>6 DEF AcquireSlot
    <2> QED BY <1>1, <1>2, <1>3, <2>1, <2>2 DEF Stage
  <1>7. CASE RespondLocally(r) \/ Deny(r)
    <2>1. slot' = slot /\ place' = place
          /\ pc' \in {[pc EXCEPT ![r] = "unwindSlot"], [pc EXCEPT ![r] = "record"]}
      BY <1>7 DEF RespondLocally, Deny, Goto, admissionVars
    <2>2. pc[r] = "read"
      BY <1>7 DEF RespondLocally, Deny
    <2> QED BY <1>1, <1>2, <1>3, <2>1, <2>2 DEF Stage
  <1>8. CASE RefuseFull(r)
    <2>1. slot' = slot /\ place'[r] = "refused" /\ pc' = [pc EXCEPT ![r] = "unwindSlot"] /\ pc[r] = "read"
      BY <1>3, <1>8 DEF RefuseFull, L!Refuse, Goto, admissionVars
    <2> QED BY <1>1, <1>2, <1>3, <2>1 DEF Stage
  <1>9. CASE Serialize(r)
    <2>1. slot' = slot /\ pc[r] = "read"
      BY <1>9 DEF Serialize, admissionVars
    <2>2. \/ place'[r] = "running" /\ pc' = [pc EXCEPT ![r] = "create"]
          \/ place'[r] = "queued" /\ pc' = [pc EXCEPT ![r] = "queued"]
      BY <1>3, <1>9 DEF Serialize, L!Join, Goto
    <2>3. Admitted(r)'
      BY <1>2, <1>9, AuthorizedIsAdmitted DEF Serialize
    <2> QED BY <1>1, <1>3, <2>1, <2>2, <2>3 DEF Stage
  <1>10. CASE Enter(r)
    <2>1. slot' = slot /\ pc[r] = "queued" /\ place'[r] = "running" /\ pc' = [pc EXCEPT ![r] = "create"]
      BY <1>3, <1>10 DEF Enter, L!Enter, Goto, admissionVars
    <2> QED BY <1>1, <1>2, <1>3, <2>1 DEF Stage
  <1>11. CASE CreateSession(r) \/ ForwardFails(r) \/ RelayResult(r)
    <2>1. slot' = slot /\ place' = place /\ pc[r] \in {"create", "await"}
      BY <1>11 DEF CreateSession, ForwardFails, RelayResult, admissionVars
    <2>2. pc' \in {[pc EXCEPT ![r] = "record"], [pc EXCEPT ![r] = "await"]}
      BY <1>11 DEF CreateSession, ForwardFails, RelayResult, Goto
    <2> QED BY <1>1, <1>2, <1>3, <2>1, <2>2 DEF Stage
  <1>12. CASE Record(r)
    <2>1. slot' = slot /\ place' = place /\ pc[r] = "record" /\ pc' = [pc EXCEPT ![r] = Unwind(r)]
      BY <1>12 DEF Record, Goto, admissionVars
    <2>2. \/ place[r] = "running" /\ Unwind(r) = "unwindLine"
          \/ place[r] = "away" /\ slot[r] # Free /\ Unwind(r) = "unwindSlot"
          \/ place[r] = "away" /\ slot[r] = Free /\ Unwind(r) = "done"
      BY <2>1 DEF Unwind, Stage
    <2> QED BY <1>1, <1>2, <1>3, <2>1, <2>2 DEF Stage
  <1>13. CASE ReleaseLine(r)
    <2>1. slot' = slot /\ pc[r] = "unwindLine" /\ place'[r] = "away" /\ pc' = [pc EXCEPT ![r] = "unwindSlot"]
      BY <1>3, <1>13 DEF ReleaseLine, L!Leave, Goto, admissionVars
    <2> QED BY <1>1, <1>2, <1>3, <2>1 DEF Stage
  <1>14. CASE ReleaseSlot(r)
    <2>1. place' = place /\ pc[r] = "unwindSlot" /\ slot'[r] \notin Keys /\ pc' = [pc EXCEPT ![r] = "done"]
      BY <1>3, <1>14 DEF ReleaseSlot, C!Release, C!vars, Goto
    <2> QED BY <1>1, <1>2, <1>3, <2>1 DEF Stage
  <1> QED BY <1>4, <1>5, <1>6, <1>7, <1>8, <1>9, <1>10, <1>11, <1>12, <1>13, <1>14 DEF Handle

LEMMA StageStep ==
  ASSUME HoldInv, [Next]_vars
  PROVE  \A q \in Requests : Stage(q)'
  <1> SUFFICES ASSUME NEW q \in Requests PROVE Stage(q)'
    OBVIOUS
  <1>1. TypeOK /\ Stage(q)
    BY DEF HoldInv
  <1>2. ASSUME NEW r \in Requests, Handle(r) PROVE Stage(q)'
    BY <1>1, <1>2, HandleFrame, HandleKeepsReq, StageFrame, StageOwn
  <1>3. ASSUME NEW r \in Requests, NEW i \in Inputs, Arrive(r, i) PROVE Stage(q)'
    <2>1. slot' = slot /\ place' = place /\ req' = [req EXCEPT ![r] = i]
          /\ pc' = [pc EXCEPT ![r] = "arrived"] /\ pc[r] = "idle"
      BY <1>3 DEF Arrive, Goto, admissionVars
    <2>2. CASE q = r
      BY <1>1, <2>1, <2>2, GatewayAssumption DEF Stage, TypeOK
    <2>3. CASE q # r
      BY <1>1, <2>1, <2>3, StageFrame DEF TypeOK
    <2> QED BY <2>2, <2>3
  <1>4. ASSUME ~ \E r \in Requests : Handle(r), ~ \E r \in Requests, i \in Inputs : Arrive(r, i)
        PROVE  Stage(q)'
    <2>1. pc' = pc /\ req' = req /\ slot' = slot /\ place' = place
      BY <1>4 DEF Next, ControlRuns, Disconnect, Shutdown, CloseSink, Quiet, admissionVars, vars
    <2> QED BY <1>1, <2>1, StageFrame
  <1> QED BY <1>2, <1>3, <1>4

-------------------------------------------------------------------------------
(* The lines *)

\* Nothing disturbs the lines that leaves those who stand in them alone.
LEMMA LinesFrame ==
  ASSUME TypeOK, Lines, line' = line,
         \A q \in Requests : place[q] \in {"queued", "running"} => place'[q] = place[q] /\ req'[q] = req[q],
         \A q \in Requests : place'[q] = "running" => place[q] = "running"
  PROVE  Lines'
  <1>1. \A t \in Tenants : \A i \in 1..Len(line[t]) : line[t][i] \in Requests
    BY DEF TypeOK
  <1>2. \A q \in Requests : place[q] \in {"queued", "running"} => Tenant(q)' = Tenant(q)
    BY DEF Tenant
  <1>3. \A t \in Tenants : \A i \in 1..Len(line'[t]) :
          place'[line'[t][i]] \in {"queued", "running"} /\ Tenant(line[t][i])' = t
    BY <1>1, <1>2 DEF Lines
  <1>4. \A q \in Requests : place'[q] = "running" => line'[Tenant(q)'] # <<>> /\ Head(line'[Tenant(q)']) = q
    BY <1>2 DEF Lines
  <1> QED BY <1>3, <1>4 DEF Lines

\* A handler that joins its tenant's line stands at its end, and at its head if the line
\* was empty.
LEMMA SerializeLines ==
  ASSUME TypeOK, \A q \in Requests : Stage(q), Lines, NEW r \in Requests, Serialize(r)
  PROVE  Lines'
  <1> DEFINE t == Tenant(r)
  <1>1. t \in Tenants /\ place[r] = "away" /\ req' = req
    BY InServiceFacts DEF Serialize, Stage
  <1>2. \A u \in Tenants : line[u] \in Seq(Requests)
    BY DEF TypeOK
  <1>3. line' = [line EXCEPT ![t] = Append(line[t], r)]
        /\ place' = [place EXCEPT ![r] = IF line[t] = <<>> THEN "running" ELSE "queued"]
    BY DEF Serialize, L!Join
  <1>5. \A u \in Tenants : \A i \in 1..Len(line[u]) : line[u][i] \in Requests \ {r}
    BY <1>1, <1>2 DEF Lines
  <1> HIDE DEF t
  <1>6. \A u \in Tenants : u # t => line'[u] = line[u]
    BY <1>3 DEF TypeOK
  <1>7. /\ line'[t] = Append(line[t], r)
        /\ Len(line'[t]) = Len(line[t]) + 1 /\ line'[t][Len(line[t]) + 1] = r
        /\ \A i \in 1..Len(line[t]) : line'[t][i] = line[t][i]
    BY <1>1, <1>2, <1>3 DEF TypeOK
  <1>8. place'[r] \in {"queued", "running"} /\ \A q \in Requests \ {r} : place'[q] = place[q]
    BY <1>3 DEF TypeOK
  <1>9. \A u \in Tenants : \A i \in 1..Len(line'[u]) :
          place'[line'[u][i]] \in {"queued", "running"} /\ Tenant(line'[u][i]) = u
    <2> SUFFICES ASSUME NEW u \in Tenants, NEW i \in 1..Len(line'[u])
                 PROVE  place'[line'[u][i]] \in {"queued", "running"} /\ Tenant(line'[u][i]) = u
      OBVIOUS
    <2>1. CASE u # t
      BY <1>5, <1>6, <1>8, <2>1 DEF Lines
    <2>2. CASE u = t /\ i \in 1..Len(line[t])
      BY <1>1, <1>5, <1>7, <1>8, <2>2 DEF Lines
    <2>3. CASE u = t /\ i = Len(line[t]) + 1
      BY <1>7, <1>8, <2>3 DEF t
    <2>4. Len(line[t]) \in Nat
      BY <1>1, <1>2
    <2> QED BY <1>7, <2>1, <2>2, <2>3, <2>4
  <1>10. \A u \in Tenants : \A i, j \in 1..Len(line'[u]) : line'[u][i] = line'[u][j] => i = j
    <2> SUFFICES ASSUME NEW u \in Tenants, NEW i \in 1..Len(line'[u]), NEW j \in 1..Len(line'[u]),
                        line'[u][i] = line'[u][j]
                 PROVE  i = j
      OBVIOUS
    <2>1. CASE u # t
      BY <1>6, <2>1 DEF Lines
    <2>2. CASE u = t
      <3>1. Len(line[t]) \in Nat
        BY <1>1, <1>2
      <3>2. CASE i \in 1..Len(line[t]) /\ j \in 1..Len(line[t])
        BY SMTT(30), <1>1, <1>7, <2>2, <3>2 DEF Lines
      <3>3. CASE i = Len(line[t]) + 1 /\ j \in 1..Len(line[t])
        BY <1>1, <1>5, <1>7, <2>2, <3>3
      <3>4. CASE j = Len(line[t]) + 1 /\ i \in 1..Len(line[t])
        BY <1>1, <1>5, <1>7, <2>2, <3>4
      <3> QED BY <1>7, <2>2, <3>1, <3>2, <3>3, <3>4
    <2> QED BY <2>1, <2>2
  <1>11. \A q \in Requests : place'[q] = "running" => line'[Tenant(q)] # <<>> /\ Head(line'[Tenant(q)]) = q
    <2> SUFFICES ASSUME NEW q \in Requests, place'[q] = "running"
                 PROVE  line'[Tenant(q)] # <<>> /\ Head(line'[Tenant(q)]) = q
      OBVIOUS
    <2>1. line'[t] # <<>> /\ Head(line'[t]) = line'[t][1]
      <3>1. line[t] \in Seq(Requests)
        BY <1>1, <1>2
      <3> QED BY <1>7, <3>1
    <2>2. CASE q = r
      <3>1. line[t] = <<>>
        BY <1>3, <2>2 DEF TypeOK
      <3>2. Head(line'[t]) = r
        BY <1>7, <2>1, <3>1
      <3> QED BY <2>1, <2>2, <3>2 DEF t
    <2>3. CASE q # r
      <3>1. line[Tenant(q)] # <<>> /\ Head(line[Tenant(q)]) = q /\ Tenant(q) \in Tenants
        <4>1. place[q] = "running"
          BY <1>8, <2>3
        <4>2. req[q].key \in Keys
          BY <4>1 DEF Stage, Admitted
        <4> QED BY <4>1, <4>2 DEF Lines, Tenant, Tenants
      <3> QED BY <1>1, <1>2, <1>6, <1>7, <2>1, <3>1
    <2> QED BY <2>2, <2>3
  <1> QED BY <1>1, <1>9, <1>10, <1>11 DEF Lines, Tenant

LEMMA EnterLines ==
  ASSUME TypeOK, NEW r \in Requests, Stage(r), Lines, Enter(r)
  PROVE  Lines'
  <1>1. req' = req /\ line' = line /\ place' = [place EXCEPT ![r] = "running"]
        /\ place[r] = "queued" /\ line[Tenant(r)] # <<>> /\ Head(line[Tenant(r)]) = r
    BY DEF Enter, L!Enter
  <1>2. \A q : Tenant(q)' = Tenant(q)
    BY <1>1 DEF Tenant
  <1>3. \A q \in Requests : /\ place[q] \in {"queued", "running"} => place'[q] \in {"queued", "running"}
                           /\ place'[q] = "running" => place[q] = "running" \/ q = r
    BY <1>1 DEF TypeOK
  <1>4. \A t \in Tenants : \A i \in 1..Len(line[t]) : line[t][i] \in Requests
    BY DEF TypeOK
  <1> QED BY <1>1, <1>2, <1>3, <1>4 DEF Lines

\* A handler that leaves takes the head off, and stands in no line any more.
LEMMA LeaveLines ==
  ASSUME TypeOK, \A q \in Requests : Stage(q), Lines, NEW r \in Requests, ReleaseLine(r)
  PROVE  Lines'
  <1> DEFINE t == Tenant(r)
  <1>1. t \in Tenants /\ req' = req /\ line[t] # <<>> /\ Head(line[t]) = r
    BY InServiceFacts DEF ReleaseLine, L!Leave, Stage
  <1>2. \A u \in Tenants : line[u] \in Seq(Requests)
    BY DEF TypeOK
  <1>3. line' = [line EXCEPT ![t] = Tail(line[t])] /\ place' = [place EXCEPT ![r] = "away"]
    BY DEF ReleaseLine, L!Leave
  <1>5. \A u \in Tenants : \A i \in 1..Len(line[u]) : line[u][i] = r => u = t /\ i = 1
    <2> SUFFICES ASSUME NEW u \in Tenants, NEW i \in 1..Len(line[u]), line[u][i] = r PROVE u = t /\ i = 1
      OBVIOUS
    <2>1. u = t
      BY DEF Lines
    <2>2. 1 \in 1..Len(line[t]) /\ line[t][1] = r
      BY <1>1, <1>2
    <2> QED BY <2>1, <2>2 DEF Lines
  <1> HIDE DEF t
  <1>6. \A u \in Tenants : u # t => line'[u] = line[u]
    BY <1>3 DEF TypeOK
  <1>7. /\ Len(line'[t]) = Len(line[t]) - 1 /\ Len(line[t]) \in Nat
        /\ \A i \in 1..Len(line'[t]) : line'[t][i] = line[t][i + 1]
    <2>1. line'[t] = Tail(line[t])
      BY <1>1, <1>3 DEF TypeOK
    <2>2. line[t] \in Seq(Requests) /\ line[t] # <<>>
      BY <1>1, <1>2
    <2> QED BY <2>1, <2>2
  <1>8. place'[r] = "away" /\ \A q \in Requests \ {r} : place'[q] = place[q]
    BY <1>3 DEF TypeOK
  <1>9. \A u \in Tenants : \A i \in 1..Len(line'[u]) :
          place'[line'[u][i]] \in {"queued", "running"} /\ Tenant(line'[u][i]) = u
    <2> SUFFICES ASSUME NEW u \in Tenants, NEW i \in 1..Len(line'[u])
                 PROVE  place'[line'[u][i]] \in {"queued", "running"} /\ Tenant(line'[u][i]) = u
      OBVIOUS
    <2>1. CASE u # t
      BY <1>2, <1>5, <1>6, <1>8, <2>1 DEF Lines
    <2>2. CASE u = t
      <3>1. i + 1 \in 1..Len(line[t]) /\ i + 1 # 1 /\ line'[u][i] = line[t][i + 1]
        BY <1>7, <2>2
      <3>2. line[t][i + 1] \in Requests /\ line[t][i + 1] # r
        BY <1>1, <1>2, <1>5, <3>1
      <3> QED BY <1>1, <1>8, <2>2, <3>1, <3>2 DEF Lines
    <2> QED BY <2>1, <2>2
  <1>10. \A u \in Tenants : \A i, j \in 1..Len(line'[u]) : line'[u][i] = line'[u][j] => i = j
    <2> SUFFICES ASSUME NEW u \in Tenants, NEW i \in 1..Len(line'[u]), NEW j \in 1..Len(line'[u]),
                        line'[u][i] = line'[u][j]
                 PROVE  i = j
      OBVIOUS
    <2>1. CASE u # t
      BY <1>6, <2>1 DEF Lines
    <2>2. CASE u = t
      <3>1. i + 1 \in 1..Len(line[t]) /\ j + 1 \in 1..Len(line[t]) /\ line[t][i + 1] = line[t][j + 1]
        BY <1>7, <2>2
      <3>2. i + 1 = j + 1
        BY <1>1, <3>1 DEF Lines
      <3> QED BY <3>2
    <2> QED BY <2>1, <2>2
  <1>11. \A q \in Requests : place'[q] = "running" => line'[Tenant(q)] # <<>> /\ Head(line'[Tenant(q)]) = q
    <2> SUFFICES ASSUME NEW q \in Requests, place'[q] = "running"
                 PROVE  line'[Tenant(q)] # <<>> /\ Head(line'[Tenant(q)]) = q
      OBVIOUS
    <2>1. q # r /\ place[q] = "running"
      BY <1>8
    <2>2. line[Tenant(q)] # <<>> /\ Head(line[Tenant(q)]) = q /\ Tenant(q) \in Tenants
      <3>1. req[q].key \in Keys
        BY <2>1 DEF Stage, Admitted
      <3> QED BY <2>1, <3>1 DEF Lines, Tenant, Tenants
    <2>3. Tenant(q) # t
      BY <1>1, <2>1, <2>2
    <2> QED BY <1>6, <2>2, <2>3
  <1> QED BY <1>1, <1>9, <1>10, <1>11 DEF Lines, Tenant

LEMMA LinesStep ==
  ASSUME HoldInv, [Next]_vars
  PROVE  Lines'
  <1>1. TypeOK /\ Lines /\ \A q \in Requests : Stage(q)
    BY DEF HoldInv
  <1>2. ASSUME NEW r \in Requests, Handle(r) PROVE Lines'
    <2>1. CASE Serialize(r)
      BY <1>1, <2>1, SerializeLines
    <2>2. CASE Enter(r)
      BY <1>1, <2>2, EnterLines
    <2>3. CASE ReleaseLine(r)
      BY <1>1, <2>3, LeaveLines
    <2>4. CASE RefuseFull(r)
      <3>1. req' = req /\ line' = line /\ place' = [place EXCEPT ![r] = "refused"] /\ place[r] = "away"
        BY <2>4 DEF RefuseFull, L!Refuse
      <3> QED BY <1>1, <3>1, LinesFrame DEF TypeOK
    <2>5. CASE ~(Serialize(r) \/ Enter(r) \/ ReleaseLine(r) \/ RefuseFull(r))
      <3>1. req' = req /\ line' = line /\ place' = place
        BY <1>2, <2>5 DEF Handle, RefuseHeaders, AuthFails, RecordFailedLogon, Authenticate,
           RecordLogon, AcquireSlot, RefuseSlot, RespondLocally, Deny,
           CreateSession, ForwardFails, RelayResult, Record, ReleaseSlot
      <3> QED BY <1>1, <3>1, LinesFrame
    <2> QED BY <2>1, <2>2, <2>3, <2>4, <2>5
  <1>3. ASSUME NEW r \in Requests, NEW i \in Inputs, Arrive(r, i) PROVE Lines'
    <2>1. line' = line /\ place' = place /\ req' = [req EXCEPT ![r] = i] /\ place[r] = "away"
      BY <1>1, <1>3 DEF Arrive, Stage
    <2> QED BY <1>1, <2>1, LinesFrame DEF TypeOK
  <1>4. ASSUME ~ \E r \in Requests : Handle(r), ~ \E r \in Requests, i \in Inputs : Arrive(r, i)
        PROVE  Lines'
    <2>1. req' = req /\ line' = line /\ place' = place
      BY <1>4 DEF Next, ControlRuns, Disconnect, Shutdown, CloseSink, Quiet, vars
    <2> QED BY <1>1, <2>1, LinesFrame
  <1> QED BY <1>2, <1>3, <1>4

LEMMA InitHold == Init => HoldInv
  <1> SUFFICES ASSUME Init PROVE HoldInv
    OBVIOUS
  <1>1. \A r \in Requests : Stage(r)
    BY DEF Init, Stage, C!NewCeiling, L!Init
  <1>2. Lines
    BY DEF Init, Lines, L!Init
  <1>3. CP!CeilingInv
    BY CeilingAssumptionHolds, CP!InitInv DEF Init, C!NewCeiling, CP!NewCeiling
  <1> QED BY <1>1, <1>2, <1>3, InitTypes DEF HoldInv

\* HoldInv is inductive.
LEMMA HoldStep == HoldInv /\ [Next]_vars => HoldInv'
  BY TypeStep, StageStep, LinesStep, CeilingStep DEF HoldInv

-------------------------------------------------------------------------------
(* The logon trail *)

\* A step that neither starts nor ends the recording of a logon.
LEMMA LogonFrame ==
  ASSUME LogonInv, logons' = logons, latch' = latch,
         \A q \in Requests : pc'[q] = "logon" <=> pc[q] = "logon",
         \A q \in Requests : pc[q] = "logon" => req'[q] = req[q]
  PROVE  /\ \A q \in Requests : pc'[q] = "logon" => logons'[req'[q].conn] = 0
         /\ LogonTrail'
  BY DEF LogonInv, LogonTrail

LEMMA HandleInService ==
  ASSUME NEW r \in Requests, Handle(r)
  PROVE  InService(r)
  BY DEF Handle, RefuseHeaders, AuthFails, RecordFailedLogon, Authenticate, RecordLogon,
         AcquireSlot, RefuseSlot, RespondLocally, Deny, RefuseFull, Serialize, Enter,
         CreateSession, ForwardFails, RelayResult, Record, ReleaseLine, ReleaseSlot, InService

LEMMA LogonStep ==
  ASSUME HoldInv, LogonInv, [Next]_vars
  PROVE  LogonInv'
  <1>1. TypeOK /\ \A q \in Requests : Stage(q)
    BY DEF HoldInv
  <1>2. ASSUME NEW r \in Requests, Handle(r) PROVE LogonInv'
    <2>1. req' = req /\ InService(r) /\ \A q \in Requests \ {r} : pc'[q] = pc[q]
      BY <1>1, <1>2, HandleKeepsReq, HandleInService, HandleFrame
    <2>2. \A q, p \in Requests : InService(q)' /\ InService(p)' /\ req'[q].conn = req'[p].conn => q = p
      BY <2>1 DEF LogonInv, InService
    <2>3. CASE Authenticate(r)
      <3> DEFINE c == req[r].conn
      <3>1. /\ c \in Conns /\ latch' = [latch EXCEPT ![c] = TRUE] /\ logons' = logons
            /\ pc[r] = "arrived" /\ pc' = [pc EXCEPT ![r] = IF latch[c] THEN "ceiling" ELSE "logon"]
        BY <1>1, <2>3, InServiceFacts DEF Authenticate, Goto
      <3>2. CASE latch[c]
        <4>1. latch' = latch
          BY <1>1, <3>1, <3>2 DEF TypeOK
        <4>2. \A q \in Requests : pc'[q] = "logon" <=> pc[q] = "logon"
          BY <1>1, <3>1, <3>2 DEF TypeOK
        <4> QED BY <2>1, <2>2, <3>1, <4>1, <4>2, LogonFrame DEF LogonInv
      <3>3. CASE ~latch[c]
        <4>1. logons[c] = 0
          <5>1. logons[c] \in Nat /\ logons[c] <= 1 /\ logons[c] # 1
            BY <1>1, <3>1, <3>3 DEF TypeOK, LogonInv, LogonTrail
          <5> QED BY <5>1
        <4>2. pc'[r] = "logon" /\ \A q \in Requests \ {r} : pc'[q] = pc[q]
          BY <1>1, <3>1, <3>3 DEF TypeOK
        <4>3. latch'[c] = TRUE /\ \A d \in Conns \ {c} : latch'[d] = latch[d]
          BY <1>1, <3>1 DEF TypeOK
        <4>4. \A q \in Requests : pc'[q] = "logon" => logons'[req'[q].conn] = 0
          BY <2>1, <3>1, <4>1, <4>2 DEF LogonInv
        <4>5. LogonTrail'
          <5> SUFFICES ASSUME NEW d \in Conns
                       PROVE  /\ logons[d] <= 1
                              /\ latch'[d] <=> \/ logons[d] = 1
                                               \/ \E q \in Requests : pc'[q] = "logon" /\ req[q].conn = d
            BY <2>1, <3>1 DEF LogonTrail
          <5>1. CASE d = c
            BY <4>1, <4>2, <4>3, <5>1
          <5>2. CASE d # c
            BY <4>2, <4>3, <5>2, <3>1 DEF LogonInv, LogonTrail
          <5> QED BY <5>1, <5>2
        <4> QED BY <2>2, <4>4, <4>5 DEF LogonInv
      <3> QED BY <3>2, <3>3
    <2>4. CASE RecordLogon(r)
      <3> DEFINE c == req[r].conn
      <3>1. c \in Conns /\ pc[r] = "logon" /\ pc' = [pc EXCEPT ![r] = "ceiling"]
        BY <1>1, <2>4, InServiceFacts DEF RecordLogon, Goto
      <3>2. \/ logons' = [logons EXCEPT ![c] = @ + 1] /\ latch' = latch
            \/ logons' = logons /\ latch' = [latch EXCEPT ![c] = FALSE]
        BY <2>4 DEF RecordLogon, LoseLogon
      <3>3. logons[c] = 0 /\ latch[c]
        BY <3>1 DEF LogonInv, LogonTrail
      <3>4. pc'[r] # "logon" /\ \A q \in Requests \ {r} : pc'[q] = pc[q]
        BY <1>1, <3>1 DEF TypeOK
      <3>5. \A q \in Requests \ {r} : pc[q] = "logon" => req[q].conn # c
        BY <3>1 DEF LogonInv, InService
      <3>6. /\ \A d \in Conns \ {c} : logons'[d] = logons[d] /\ (latch'[d] <=> latch[d])
            /\ \/ logons'[c] = 1 /\ latch'[c]
               \/ logons'[c] = 0 /\ ~latch'[c]
        <4>1. CASE logons' = [logons EXCEPT ![c] = @ + 1] /\ latch' = latch
          <5>1. logons'[c] = 1 /\ \A d \in Conns \ {c} : logons'[d] = logons[d]
            BY <1>1, <3>1, <3>3, <4>1 DEF TypeOK
          <5> QED BY <3>3, <4>1, <5>1
        <4>2. CASE logons' = logons /\ latch' = [latch EXCEPT ![c] = FALSE]
          BY <1>1, <3>1, <3>3, <4>2 DEF TypeOK
        <4> QED BY <3>2, <4>1, <4>2
      <3>7. \A q \in Requests : pc'[q] = "logon" => logons'[req'[q].conn] = 0
        <4> SUFFICES ASSUME NEW q \in Requests, pc'[q] = "logon" PROVE logons'[req[q].conn] = 0
          BY <2>1
        <4>1. q # r /\ pc[q] = "logon" /\ req[q].conn # c
          BY <3>4, <3>5
        <4>2. req[q].conn \in Conns /\ logons[req[q].conn] = 0
          BY <1>1, <4>1, InServiceFacts DEF LogonInv
        <4> QED BY <3>6, <4>1, <4>2
      <3>8. LogonTrail'
        <4> SUFFICES ASSUME NEW d \in Conns
                     PROVE  /\ logons'[d] <= 1
                            /\ latch'[d] <=> \/ logons'[d] = 1
                                             \/ \E q \in Requests : pc'[q] = "logon" /\ req[q].conn = d
          BY <2>1 DEF LogonTrail
        <4>1. CASE d = c
          <5>1. ~ \E q \in Requests : pc'[q] = "logon" /\ req[q].conn = d
            BY <3>4, <3>5, <4>1
          <5> QED BY <3>6, <4>1, <5>1
        <4>2. CASE d # c
          <5>1. (\E q \in Requests : pc'[q] = "logon" /\ req[q].conn = d)
                  <=> \E q \in Requests : pc[q] = "logon" /\ req[q].conn = d
            BY <3>4, <4>2
          <5> QED BY <3>6, <4>2, <5>1 DEF LogonInv, LogonTrail
        <4> QED BY <4>1, <4>2
      <3> QED BY <2>2, <3>7, <3>8 DEF LogonInv
    <2>5. CASE ~Authenticate(r) /\ ~RecordLogon(r)
      <3>1. logons' = logons /\ latch' = latch /\ pc[r] # "logon"
        BY <1>2, <2>5 DEF Handle, RefuseHeaders, AuthFails, RecordFailedLogon, AcquireSlot, RefuseSlot,
           RespondLocally, Deny, RefuseFull, Serialize, Enter, CreateSession, ForwardFails, RelayResult,
           Record, ReleaseLine, ReleaseSlot, admissionVars, logonVars
      <3>2. pc'[r] # "logon"
        BY <1>1, <1>2, <2>5 DEF TypeOK, Handle, RefuseHeaders, AuthFails, RecordFailedLogon, AcquireSlot,
           RefuseSlot, RespondLocally, Deny, RefuseFull, Serialize, Enter, CreateSession, ForwardFails,
           RelayResult, Record, ReleaseLine, ReleaseSlot, Goto, Unwind
      <3>3. \A q \in Requests : pc'[q] = "logon" <=> pc[q] = "logon"
        BY <2>1, <3>1, <3>2
      <3> QED BY <2>1, <2>2, <3>1, <3>3, LogonFrame DEF LogonInv
    <2> QED BY <2>3, <2>4, <2>5
  <1>3. ASSUME NEW r \in Requests, NEW i \in Inputs, Arrive(r, i) PROVE LogonInv'
    <2>1. /\ req' = [req EXCEPT ![r] = i] /\ pc' = [pc EXCEPT ![r] = "arrived"] /\ pc[r] = "idle"
          /\ logons' = logons /\ latch' = latch
          /\ \A q \in Requests : req[q] # NoInput /\ req[q].conn = i.conn => pc[q] = "done"
      BY <1>3 DEF Arrive, Goto, admissionVars, logonVars
    <2>2. \A q \in Requests \ {r} : pc'[q] = pc[q] /\ req'[q] = req[q]
      BY <1>1, <2>1 DEF TypeOK
    <2>3. pc'[r] = "arrived" /\ req'[r] = i
      BY <1>1, <2>1 DEF TypeOK
    <2>4. \A q \in Requests \ {r} : InService(q) => req[q].conn # i.conn
      BY <1>1, <2>1 DEF InService, Stage
    <2>5. \A q, p \in Requests : InService(q)' /\ InService(p)' /\ req'[q].conn = req'[p].conn => q = p
      BY <2>2, <2>3, <2>4 DEF LogonInv, InService
    <2> QED BY <2>1, <2>2, <2>3, <2>5, LogonFrame DEF LogonInv
  <1>4. ASSUME ~ \E r \in Requests : Handle(r), ~ \E r \in Requests, i \in Inputs : Arrive(r, i)
        PROVE  LogonInv'
    <2>1. req' = req /\ pc' = pc /\ logons' = logons /\ latch' = latch
      BY <1>4 DEF Next, ControlRuns, Disconnect, Shutdown, CloseSink, Quiet, vars, admissionVars, logonVars
    <2>2. \A q, p \in Requests : InService(q)' /\ InService(p)' /\ req'[q].conn = req'[p].conn => q = p
      BY <2>1 DEF LogonInv, InService
    <2> QED BY <2>1, <2>2, LogonFrame DEF LogonInv
  <1> QED BY <1>2, <1>3, <1>4

-------------------------------------------------------------------------------
(* What Control is asked *)

\* An admitted request stays the request it is.
LEMMA AdmittedStays ==
  ASSUME HoldInv, [Next]_vars, NEW q \in Requests, Admitted(q)
  PROVE  req'[q] = req[q] /\ Admitted(q)' /\ Hint(q)' = Hint(q)
  <1>1. req'[q] = req[q]
    <2>1. ASSUME NEW r \in Requests, Handle(r) PROVE req'[q] = req[q]
      BY <2>1, HandleKeepsReq
    <2>2. ASSUME NEW r \in Requests, NEW i \in Inputs, Arrive(r, i) PROVE req'[q] = req[q]
      <3>1. req[r] = NoInput /\ req' = [req EXCEPT ![r] = i]
        BY <2>2 DEF HoldInv, Stage, Arrive
      <3> QED BY <3>1 DEF HoldInv, TypeOK, Admitted
    <2> QED BY <2>1, <2>2 DEF Next, ControlRuns, Disconnect, Shutdown, CloseSink, Quiet, vars
  <1> QED BY <1>1 DEF Admitted, Hint, Tenant

\* What Control was asked changes in three actions.
LEMMA AskedBy ==
  ASSUME [Next]_vars,
         \A r \in Requests : ~CreateSession(r) /\ ~ForwardFails(r) /\ ~ControlRuns(r)
  PROVE  sessions' = sessions /\ inbox' = inbox
  <1>1. ASSUME NEW r \in Requests,
               \/ RefuseHeaders(r) \/ AuthFails(r) \/ RecordFailedLogon(r) \/ Authenticate(r)
               \/ RecordLogon(r) \/ AcquireSlot(r) \/ RefuseSlot(r) \/ RespondLocally(r)
        PROVE  sessions' = sessions /\ inbox' = inbox
    BY <1>1 DEF RefuseHeaders, AuthFails, RecordFailedLogon, Authenticate, RecordLogon,
                AcquireSlot, RefuseSlot, RespondLocally, controlVars
  <1>2. ASSUME NEW r \in Requests,
               \/ Deny(r) \/ RefuseFull(r) \/ Serialize(r) \/ Enter(r)
               \/ RelayResult(r) \/ Record(r) \/ ReleaseLine(r) \/ ReleaseSlot(r)
        PROVE  sessions' = sessions /\ inbox' = inbox
    BY <1>2 DEF Deny, RefuseFull, Serialize, Enter, RelayResult, Record, ReleaseLine, ReleaseSlot,
                controlVars
  <1>3. ASSUME NEW r \in Requests, NEW i \in Inputs, Arrive(r, i)
        PROVE  sessions' = sessions /\ inbox' = inbox
    BY <1>3 DEF Arrive, controlVars
  <1>4. ASSUME (\E c \in Conns : Disconnect(c)) \/ Shutdown \/ CloseSink \/ Quiet \/ UNCHANGED vars
        PROVE  sessions' = sessions /\ inbox' = inbox
    BY <1>4 DEF Disconnect, Shutdown, CloseSink, Quiet, vars, controlVars
  <1> QED BY <1>1, <1>2, <1>3, <1>4 DEF Next, Handle

\* The trail is append-only, and every event in it has one of three origins.
LEMMA TrailGrows ==
  ASSUME HoldInv, [Next]_vars
  PROVE  \/ trail' = trail
         \/ \E r \in Requests :
              \/ CreateSession(r) /\ trail' = Append(trail, [ev |-> "sent", by |-> r])
              \/ ControlRuns(r) /\ trail' = Append(trail, [ev |-> "ran", by |-> r])
              \/ Record(r) /\ trail' = Append(trail, [ev |-> Outcome(r), by |-> r])
  <1>1. ASSUME NEW r \in Requests, CreateSession(r)
        PROVE  trail' = trail \/ trail' = Append(trail, [ev |-> "sent", by |-> r])
    BY <1>1 DEF CreateSession
  <1>2. ASSUME NEW r \in Requests, ControlRuns(r)
        PROVE  trail' = Append(trail, [ev |-> "ran", by |-> r])
    BY <1>2 DEF ControlRuns
  <1>3. ASSUME NEW r \in Requests, Record(r)
        PROVE  trail' = trail \/ trail' = Append(trail, [ev |-> Outcome(r), by |-> r])
    BY <1>3 DEF Record
  <1>4. ASSUME NEW r \in Requests,
               \/ RefuseHeaders(r) \/ AuthFails(r) \/ RecordFailedLogon(r) \/ Authenticate(r)
               \/ RecordLogon(r) \/ AcquireSlot(r) \/ RefuseSlot(r) \/ RespondLocally(r)
        PROVE  trail' = trail
    BY <1>4 DEF RefuseHeaders, AuthFails, RecordFailedLogon, Authenticate, RecordLogon,
                AcquireSlot, RefuseSlot, RespondLocally
  <1>5. ASSUME NEW r \in Requests,
               \/ Deny(r) \/ RefuseFull(r) \/ Serialize(r) \/ Enter(r)
               \/ ForwardFails(r) \/ RelayResult(r) \/ ReleaseLine(r) \/ ReleaseSlot(r)
        PROVE  trail' = trail
    BY <1>5 DEF Deny, RefuseFull, Serialize, Enter, ForwardFails, RelayResult, ReleaseLine, ReleaseSlot
  <1>6. ASSUME NEW r \in Requests, NEW i \in Inputs, Arrive(r, i)
        PROVE  trail' = trail
    BY <1>6 DEF Arrive
  <1>7. ASSUME (\E c \in Conns : Disconnect(c)) \/ Shutdown \/ CloseSink \/ Quiet \/ UNCHANGED vars
        PROVE  trail' = trail
    BY <1>7 DEF Disconnect, Shutdown, CloseSink, Quiet, vars
  <1>8. CASE \E r \in Requests : Handle(r)
    BY <1>1, <1>3, <1>4, <1>5, <1>8 DEF Handle
  <1> QED BY <1>2, <1>6, <1>7, <1>8 DEF Next

LEMMA TrailAppend ==
  ASSUME TypeOK, NEW e, trail' = Append(trail, e)
  PROVE  /\ Len(trail) \in Nat /\ DOMAIN trail = 1..Len(trail)
         /\ Len(trail') = Len(trail) + 1 /\ DOMAIN trail' = 1..(Len(trail) + 1)
         /\ \A i \in 1..Len(trail) : trail'[i] = trail[i]
         /\ trail'[Len(trail) + 1] = e
  <1>1. trail \in Seq(Events)
    BY DEF TypeOK
  <1> QED BY <1>1

LEMMA TrailBy ==
  ASSUME TypeOK, NEW i \in DOMAIN trail
  PROVE  trail[i] \in Events /\ trail[i].by \in Requests
  <1>1. trail \in Seq(Events)
    BY DEF TypeOK
  <1>2. trail[i] \in Events
    BY <1>1
  <1> QED BY <1>2 DEF Events

LEMMA ForwardedStep ==
  ASSUME HoldInv, ForwardedInv, [Next]_vars
  PROVE  ForwardedInv'
  <1>1. TypeOK /\ \A q \in Requests : Stage(q)
    BY DEF HoldInv
  <1>2. \A q \in Requests : Admitted(q) => Admitted(q)' /\ Hint(q)' = Hint(q)
    BY AdmittedStays
  <1>3. \A r \in Requests : CreateSession(r) \/ ForwardFails(r) => Admitted(r)
    BY <1>1 DEF CreateSession, ForwardFails, Stage
  <1>4. sessions' \subseteq {Hint(r) : r \in {q \in Requests : Admitted(q)}}
    <2>1. \/ sessions' = sessions
          \/ \E r \in Requests : /\ CreateSession(r) \/ ForwardFails(r)
                                 /\ sessions' \in {sessions, sessions \cup {Hint(r)}}
      <3>1. ASSUME NEW r \in Requests, CreateSession(r) \/ ForwardFails(r)
            PROVE  sessions' \in {sessions, sessions \cup {Hint(r)}}
        BY <3>1 DEF CreateSession, ForwardFails
      <3>2. ASSUME NEW r \in Requests, ControlRuns(r)
            PROVE  sessions' = sessions
        BY <3>2 DEF ControlRuns
      <3> QED BY <3>1, <3>2, AskedBy
    <2> QED BY <1>3, <2>1 DEF ForwardedInv
  <1>5. sessions' \subseteq {Hint(r) : r \in {q \in Requests : Admitted(q)}}'
    <2> SUFFICES ASSUME NEW h \in sessions' PROVE h \in {Hint(r) : r \in {q \in Requests : Admitted(q)}}'
      OBVIOUS
    <2>1. PICK q \in Requests : Admitted(q) /\ h = Hint(q)
      BY <1>4
    <2> QED BY <1>2, <2>1
  <1>6. \A q \in inbox' : q \in inbox \/ Admitted(q)
    <2>1. \/ inbox' \subseteq inbox
          \/ \E r \in Requests : CreateSession(r) /\ inbox' = inbox \cup {r}
      <3>1. ASSUME NEW r \in Requests, CreateSession(r)
            PROVE  inbox' \subseteq inbox \/ inbox' = inbox \cup {r}
        BY <3>1 DEF CreateSession
      <3>2. ASSUME NEW r \in Requests, ControlRuns(r) \/ ForwardFails(r)
            PROVE  inbox' \subseteq inbox
        BY <3>2 DEF ControlRuns, ForwardFails, controlVars
      <3> QED BY <3>1, <3>2, AskedBy
    <2> QED BY <1>3, <2>1
  <1>7. \A q \in inbox' : Admitted(q)'
    <2>1. inbox' \subseteq Requests
      BY TypeStep DEF TypeOK
    <2> QED BY <1>2, <1>6, <2>1 DEF ForwardedInv
  <1>8. ASSUME NEW i \in DOMAIN trail', trail'[i].ev \in {"sent", "ran"}
        PROVE  trail'[i].by \in Requests /\ Admitted(trail'[i].by)
    <2>1. CASE trail' = trail
      BY <1>1, <1>8, <2>1, TrailBy DEF ForwardedInv
    <2>2. CASE trail' # trail
      <3>1. PICK r \in Requests :
              \/ CreateSession(r) /\ trail' = Append(trail, [ev |-> "sent", by |-> r])
              \/ ControlRuns(r) /\ trail' = Append(trail, [ev |-> "ran", by |-> r])
              \/ Record(r) /\ trail' = Append(trail, [ev |-> Outcome(r), by |-> r])
        BY <2>2, TrailGrows
      <3>2. \E e \in {"sent", "ran", Outcome(r)} :
              trail' = Append(trail, [ev |-> e, by |-> r]) /\ (e \in {"sent", "ran"} => Admitted(r))
        <4>1. CASE CreateSession(r) /\ trail' = Append(trail, [ev |-> "sent", by |-> r])
          BY <1>3, <4>1
        <4>2. CASE ControlRuns(r) /\ trail' = Append(trail, [ev |-> "ran", by |-> r])
          <5>1. Admitted(r)
            BY <4>2 DEF ControlRuns, ForwardedInv
          <5> QED BY <4>2, <5>1
        <4>3. CASE trail' = Append(trail, [ev |-> Outcome(r), by |-> r])
          <5>1. Outcome(r) \notin {"sent", "ran"}
            BY DEF Outcome
          <5> QED BY <4>3, <5>1
        <4> QED BY <3>1, <4>1, <4>2, <4>3
      <3> PICK e \in {"sent", "ran", Outcome(r)} :
              trail' = Append(trail, [ev |-> e, by |-> r]) /\ (e \in {"sent", "ran"} => Admitted(r))
        BY <3>2
      <3>3. CASE i \in 1..Len(trail)
        BY <1>1, <1>8, <3>3, TrailAppend, TrailBy DEF ForwardedInv
      <3>4. CASE i = Len(trail) + 1
        <4>1. trail'[i] = [ev |-> e, by |-> r]
          BY <1>1, <3>4, TrailAppend
        <4> QED BY <1>8, <4>1
      <3> QED BY <1>1, <1>8, <3>3, <3>4, TrailAppend
    <2> QED BY <2>1, <2>2
  <1>9. \A i \in DOMAIN trail' : trail'[i].ev \in {"sent", "ran"} => Admitted(trail[i].by)'
    BY <1>2, <1>8
  <1> QED BY <1>5, <1>7, <1>9 DEF ForwardedInv

-------------------------------------------------------------------------------
(* What is held and what is sent: the theorems *)

LEMMA InitAll == Init => HoldInv /\ LogonInv /\ ForwardedInv
  <1> SUFFICES ASSUME Init PROVE LogonInv /\ ForwardedInv
    BY InitHold
  <1>1. LogonInv
    BY DEF Init, LogonInv, LogonTrail, InService
  <1>2. ForwardedInv
    BY DEF Init, ForwardedInv
  <1> QED BY <1>1, <1>2

\* What the pipeline keeps in every reachable state, whichever way its handlers, its
\* clients, Control, the sink and the daemon interleave.
THEOREM PipelineInvariant == Spec => [](HoldInv /\ LogonInv /\ ForwardedInv)
  <1>1. (HoldInv /\ LogonInv /\ ForwardedInv) /\ [Next]_vars => (HoldInv /\ LogonInv /\ ForwardedInv)'
    BY HoldStep, LogonStep, ForwardedStep
  <1> QED BY <1>1, InitAll, PTL DEF Spec

\* Type correctness of the pipeline, of the ceiling's map and of the lines in it.
THEOREM TypeCorrect == Spec => []TypeOK
  <1>1. HoldInv => TypeOK
    BY DEF HoldInv
  <1> QED BY <1>1, PipelineInvariant, PTL

\* On whatever path the requests returned, the deferred releases of ServeHTTP leave
\* nobody counted by the ceiling and nobody in a line.
THEOREM NothingOutlives == Spec => []NothingOutlivesRequests
  <1>1. HoldInv => NothingOutlivesRequests
    <2> SUFFICES ASSUME HoldInv, \A r \in Requests : ~InService(r)
                 PROVE  DOMAIN counts = {} /\ \A t \in Tenants : line[t] = <<>>
      BY DEF NothingOutlivesRequests
    <2>1. \A r \in Requests : slot[r] \notin Keys /\ place[r] \notin {"queued", "running"}
      BY GatewayAssumption DEF HoldInv, Stage, InService
    <2>2. DOMAIN counts = {}
      BY <2>1, CeilingAssumptionHolds, CP!NobodyHolds DEF HoldInv
    <2>3. ASSUME NEW t \in Tenants PROVE line[t] = <<>>
      <3>1. line[t] \in Seq(Requests)
        BY DEF HoldInv, TypeOK
      <3>2. ~ 1 \in 1..Len(line[t])
        BY <2>1, <3>1 DEF HoldInv, Lines
      <3> QED BY <3>1, <3>2
    <2> QED BY <2>2, <2>3
  <1> QED BY <1>1, PipelineInvariant, PTL

\* A connection's logon is recorded at most once, and a lost record gives the latch back
\* (emitLogonOnce).
THEOREM LogonTrailHolds == Spec => []LogonTrail
  <1>1. LogonInv => LogonTrail
    BY DEF LogonInv
  <1> QED BY <1>1, PipelineInvariant, PTL

\* Control is asked to create and to run only what authenticated, validated, allowlisted
\* and permitted calls ask (ServeHTTP, steps 1 to 5).
THEOREM DeniedNeverForwardedHolds == Spec => []DeniedNeverForwarded
  <1>1. HoldInv /\ ForwardedInv => DeniedNeverForwarded
    <2> SUFFICES ASSUME HoldInv, ForwardedInv PROVE DeniedNeverForwarded
      OBVIOUS
    <2>1. TypeOK
      BY DEF HoldInv
    <2>2. \A i \in DOMAIN trail : trail[i].by \in Requests
      BY <2>1, TrailBy
    <2> QED BY <2>2 DEF ForwardedInv, DeniedNeverForwarded, Admitted
  <1> QED BY <1>1, PipelineInvariant, PTL

-------------------------------------------------------------------------------
(* The audit trail: the inductive invariant *)

\* The answers that wait for their record.
Pending == {writeRPCError(429), writeRPCErrorWithID(403), writeRPCErrorWithID(200),
            writeRPCErrorWithID(502), writeRPCErrorWithID(500), writeRPCSuccess}

\* Those that may be given only once it is durable, recorded as failures.
Refusals == {writeRPCError(429), writeRPCErrorWithID(502), writeRPCErrorWithID(403)}

RanThenRecorded(r) ==
    \E i, j \in DOMAIN trail :
        /\ i < j
        /\ trail[i] = [ev |-> "ran", by |-> r]
        /\ trail[j] = [ev |-> "success", by |-> r]

\* An answer that waits for its record, and one that was given.
ReplyInv(r) ==
    /\ pc[r] = "logonFailed" => reply[r] = writeRPCError(401) /\ req[r].key \notin Keys
    /\ pc[r] = "record" => reply[r] \in Pending /\ (reply[r] = writeRPCSuccess => Ran(r))
    /\ AnsweredCall(r) /\ reply[r].body = "result" => RanThenRecorded(r)
    /\ Answered(r) /\ reply[r] \in Refusals
         => Contains(trail, [ev |-> "failure", by |-> r])

\* The stages of a handler before its call leaves.
Before == {"idle", "arrived", "logonFailed", "logon", "ceiling", "read", "queued", "create"}

\* A call that left for Control, as event i of the trail, is past its create hop; it is
\* recorded, or was answered 500, or holds its line and has not been answered.
Left(q, i) ==
    /\ pc[q] \notin Before
    /\ \/ \E m \in (i + 1)..Len(trail) : IsRecordOf(q, trail[m])
       \/ Answered(q) /\ reply[q].status = 500
       \/ ~Answered(q) /\ place[q] = "running"

SentInv == \A i \in DOMAIN trail : trail[i].ev = "sent" => Left(trail[i].by, i)

TrailInv ==
    /\ \A r \in Requests : ReplyInv(r)
    /\ SentInv
    /\ RecordedBeforeNext

-------------------------------------------------------------------------------
(* The trail only grows *)

LEMMA TrailPrefix ==
  ASSUME HoldInv, [Next]_vars
  PROVE  /\ Len(trail) \in Nat /\ DOMAIN trail = 1..Len(trail)
         /\ Len(trail') \in Nat /\ DOMAIN trail' = 1..Len(trail')
         /\ Len(trail') = Len(trail) \/ Len(trail') = Len(trail) + 1
         /\ \A i \in 1..Len(trail) : trail'[i] = trail[i]
  <1>1. TypeOK /\ trail \in Seq(Events)
    BY DEF HoldInv, TypeOK
  <1>2. CASE trail' = trail
    BY <1>1, <1>2
  <1>3. CASE trail' # trail
    <2>1. \E e : trail' = Append(trail, e)
      BY <1>3, TrailGrows
    <2>2. PICK e : trail' = Append(trail, e)
      BY <2>1
    <2> QED BY <1>1, <2>2
  <1> QED BY <1>2, <1>3

LEMMA ContainsStays ==
  ASSUME HoldInv, [Next]_vars
  PROVE  /\ \A e : Contains(trail, e) => Contains(trail', e)
         /\ \A r : RanThenRecorded(r) => RanThenRecorded(r)'
  <1>1. /\ Len(trail) \in Nat /\ DOMAIN trail = 1..Len(trail)
        /\ 1..Len(trail) \subseteq 1..Len(trail') /\ DOMAIN trail' = 1..Len(trail')
        /\ \A i \in 1..Len(trail) : trail'[i] = trail[i]
    BY TrailPrefix
  <1>2. \A e : Contains(trail, e) => Contains(trail', e)
    BY <1>1 DEF Contains
  <1>3. \A r : RanThenRecorded(r) => RanThenRecorded(r)'
    BY <1>1 DEF RanThenRecorded
  <1> QED BY <1>2, <1>3

-------------------------------------------------------------------------------
(* The answers *)

\* A step that leaves an answer alone keeps what the answer says.
LEMMA ReplyFrame ==
  ASSUME HoldInv, [Next]_vars, NEW q \in Requests, ReplyInv(q),
         pc'[q] = pc[q] \/ (Answered(q) /\ Answered(q)'), req'[q] = req[q], reply'[q] = reply[q]
  PROVE  ReplyInv(q)'
  <1>1. Answered(q)' => Answered(q)
    BY DEF Answered
  <1>2. AnsweredCall(q)' => AnsweredCall(q)
    BY <1>1 DEF AnsweredCall
  <1>3. pc'[q] \in {"logonFailed", "record"} => pc'[q] = pc[q]
    BY DEF Answered
  <1>4. Ran(q) => Ran(q)'
    BY ContainsStays DEF Ran
  <1>5. RanThenRecorded(q) => RanThenRecorded(q)'
    BY ContainsStays
  <1>6. Contains(trail, [ev |-> "failure", by |-> q]) => Contains(trail', [ev |-> "failure", by |-> q])
    BY ContainsStays
  <1> QED BY <1>1, <1>2, <1>3, <1>4, <1>5, <1>6 DEF ReplyInv

LEMMA StatusesApart ==
  ASSUME NEW s, NEW t, s # t
  PROVE  writeRPCError(s) # writeRPCError(t) /\ writeRPCErrorWithID(s) # writeRPCErrorWithID(t)
  <1>1. /\ writeRPCError(s).status = s /\ writeRPCError(t).status = t
        /\ writeRPCErrorWithID(s).status = s /\ writeRPCErrorWithID(t).status = t
    BY DEF writeRPCError, writeRPCErrorWithID, rpcErrorBody
  <1> QED BY <1>1

LEMMA WritersApart ==
  ASSUME NEW s, NEW t
  PROVE  writeRPCError(s) # writeRPCErrorWithID(t)
  <1>1. writeRPCError(s).id = FALSE
    BY DEF writeRPCError, rpcErrorBody
  <1>2. writeRPCErrorWithID(t).id = TRUE
    BY DEF writeRPCErrorWithID, rpcErrorBody
  <1> QED BY <1>1, <1>2

LEMMA BodyOf ==
  /\ \A s : writeRPCError(s).body = "error" /\ writeRPCErrorWithID(s).body = "error"
  /\ \A s : writeRPCError(s).status = s /\ writeRPCErrorWithID(s).status = s
  /\ Accepted.body = "none" /\ writeRPCSuccess.body = "result" /\ writeRPCSuccess.status = 200
  BY DEF writeRPCError, writeRPCErrorWithID, rpcErrorBody, Accepted, writeRPCSuccess

\* The answers that are not recorded are none of those that must be.
LEMMA RefusalsApart ==
  /\ \A s \in {400, 401, 403, 405, 413} : writeRPCError(s) \notin Refusals
  /\ \A s \in {200, 400, 413, 429, 500} : writeRPCErrorWithID(s) \notin Refusals
  /\ Accepted \notin Refusals /\ writeRPCSuccess \notin Refusals
  <1>1. \A s \in {400, 401, 403, 405, 413} : writeRPCError(s) \notin Refusals
    BY StatusesApart, WritersApart DEF Refusals
  <1>2. \A s \in {200, 400, 413, 429, 500} : writeRPCErrorWithID(s) \notin Refusals
    BY StatusesApart, WritersApart DEF Refusals
  <1>3. Accepted \notin Refusals /\ writeRPCSuccess \notin Refusals
    BY BodyOf DEF Refusals
  <1> QED BY <1>1, <1>2, <1>3

\* A refusal is recorded as a failure, a result as a success.
LEMMA OutcomeOf ==
  ASSUME NEW r \in Requests
  PROVE  /\ reply[r] \in Refusals => Outcome(r) = "failure"
         /\ reply[r] = writeRPCSuccess => Outcome(r) = "success"
         /\ reply[r] \in Pending /\ reply[r].body = "result" => reply[r] = writeRPCSuccess
  <1>1. reply[r] \in Refusals => reply[r].status \in {403, 429, 502}
    BY BodyOf DEF Refusals
  <1>2. reply[r] = writeRPCSuccess => reply[r].status = 200
    BY BodyOf
  <1>3. reply[r] \in Pending /\ reply[r].body = "result" => reply[r] = writeRPCSuccess
    BY BodyOf DEF Pending
  <1> QED BY <1>1, <1>2, <1>3 DEF Outcome

\* An answer given where no record is due.
LEMMA UnrecordedAnswer ==
  ASSUME NEW r \in Requests, Answered(r)', reply'[r] \notin Refusals,
         AnsweredCall(r)' => reply'[r].body # "result"
  PROVE  ReplyInv(r)'
  BY DEF ReplyInv, Answered

\* An answer that waits for its record.
LEMMA PendingAnswer ==
  ASSUME NEW r \in Requests, pc'[r] = "record", reply'[r] \in Pending,
         reply'[r] = writeRPCSuccess => Ran(r)'
  PROVE  ReplyInv(r)'
  BY DEF ReplyInv, Answered, AnsweredCall

\* A handler's own step keeps what its answer says.
LEMMA ReplyOwn ==
  ASSUME HoldInv, [Next]_vars, NEW r \in Requests, Handle(r), ReplyInv(r)
  PROVE  ReplyInv(r)'
  <1>1. TypeOK /\ Stage(r) /\ req' = req
    BY HandleKeepsReq DEF HoldInv
  <1>2. pc \in [Requests -> PCs] /\ reply \in [Requests -> Replies \cup {Pass}]
    BY <1>1 DEF TypeOK
  <1>3. CASE RefuseHeaders(r)
    <2>1. /\ pc'[r] = "done" /\ reply'[r] = PreAuth(req[r].shape) /\ PreAuth(req[r].shape) # Pass
          /\ req[r].shape \in Shapes
      BY <1>1, <1>2, <1>3, InServiceFacts DEF RefuseHeaders, Goto, Answer
    <2>2. reply'[r] \notin Refusals
      BY <2>1, LocalAnswers, RefusalsApart
    <2>3. Answered(r)' /\ ~AnsweredCall(r)'
      BY <1>1, <2>1 DEF Answered, AnsweredCall
    <2> QED BY <2>2, <2>3, UnrecordedAnswer
  <1>4. CASE AuthFails(r)
    <2>1. pc'[r] = "logonFailed" /\ reply'[r] = writeRPCError(401) /\ req'[r].key \notin Keys
      BY <1>1, <1>2, <1>4, GatewayAssumption DEF AuthFails, Goto, Answer
    <2> QED BY <2>1 DEF ReplyInv, Answered, AnsweredCall
  <1>5. CASE RecordFailedLogon(r)
    <2>1. /\ pc'[r] = "done" /\ reply'[r] = writeRPCError(401) /\ req'[r].key \notin Keys
      BY <1>1, <1>2, <1>5 DEF RecordFailedLogon, Goto, ReplyInv
    <2>2. reply'[r] \notin Refusals
      BY <2>1, RefusalsApart
    <2>3. Answered(r)' /\ ~AnsweredCall(r)'
      BY <2>1 DEF Answered, AnsweredCall
    <2> QED BY <2>2, <2>3, UnrecordedAnswer
  <1>6. CASE Authenticate(r) \/ RecordLogon(r) \/ AcquireSlot(r) \/ Serialize(r) \/ Enter(r)
    <2>1. pc'[r] \in {"logon", "ceiling", "read", "queued", "create"}
      BY <1>2, <1>6 DEF Authenticate, RecordLogon, AcquireSlot, Serialize, Enter, Goto
    <2> QED BY <2>1 DEF ReplyInv, Answered, AnsweredCall
  <1>7. CASE RefuseSlot(r) \/ Deny(r) \/ ForwardFails(r)
    <2>1. pc'[r] = "record" /\ reply'[r] \in Refusals
      BY <1>2, <1>7 DEF RefuseSlot, Deny, ForwardFails, Goto, Answer, Refusals
    <2> QED BY <2>1, RefusalsApart, PendingAnswer DEF Refusals, Pending
  <1>8. CASE RespondLocally(r)
    <2>1. /\ pc'[r] = "unwindSlot" /\ reply'[r] = AfterRead(req[r].shape) /\ AfterRead(req[r].shape) # Pass
          /\ req[r].shape \in Shapes
      BY <1>1, <1>2, <1>8, InServiceFacts DEF RespondLocally, Goto, Answer
    <2>2. reply'[r] \notin Refusals
      BY <2>1, LocalAnswers, RefusalsApart
    <2>3. IsCall(req[r].shape) => reply'[r].body # "result"
      BY <2>1, LocalAnswers, BodyOf
    <2>4. Answered(r)' /\ (AnsweredCall(r)' => IsCall(req[r].shape))
      BY <1>1, <2>1 DEF Answered, AnsweredCall
    <2> QED BY <2>2, <2>3, <2>4, UnrecordedAnswer
  <1>9. CASE RefuseFull(r)
    <2>1. pc'[r] = "unwindSlot" /\ reply'[r] = writeRPCErrorWithID(429)
      BY <1>2, <1>9 DEF RefuseFull, Goto, Answer
    <2>2. reply'[r] \notin Refusals /\ reply'[r].body # "result"
      BY <2>1, RefusalsApart, BodyOf
    <2>3. Answered(r)'
      BY <2>1 DEF Answered
    <2> QED BY <2>2, <2>3, UnrecordedAnswer
  <1>10. CASE CreateSession(r)
    <2>1. pc'[r] = "await" \/ (pc'[r] = "record" /\ reply'[r] = writeRPCErrorWithID(200))
      BY <1>2, <1>10 DEF CreateSession, Goto, Answer
    <2>2. CASE pc'[r] = "await"
      BY <2>2 DEF ReplyInv, Answered, AnsweredCall
    <2>3. CASE pc'[r] = "record" /\ reply'[r] = writeRPCErrorWithID(200)
      <3>1. reply'[r] \in Pending /\ reply'[r] # writeRPCSuccess
        BY <2>3, BodyOf DEF Pending
      <3> QED BY <2>3, <3>1, PendingAnswer
    <2> QED BY <2>1, <2>2, <2>3
  <1>11. CASE RelayResult(r)
    <2>1. pc'[r] = "record" /\ reply'[r] \in Pending /\ Ran(r)'
      BY <1>2, <1>11 DEF RelayResult, Goto, Answer, Pending, Ran
    <2> QED BY <2>1, PendingAnswer
  <1>12. CASE Record(r)
    <2>1. pc[r] = "record" /\ Answered(r)' /\ pc'[r] # "record" /\ pc'[r] # "logonFailed"
      BY <1>2, <1>12 DEF Record, Goto, Unwind, Answered
    <2>2. reply[r] \in Pending /\ (reply[r] = writeRPCSuccess => Ran(r))
      BY <2>1 DEF ReplyInv
    <2>3. CASE trail' = Append(trail, [ev |-> Outcome(r), by |-> r]) /\ reply' = reply
      <3>1. /\ Len(trail) \in Nat /\ DOMAIN trail = 1..Len(trail)
            /\ DOMAIN trail' = 1..(Len(trail) + 1) /\ Len(trail') = Len(trail) + 1
            /\ \A i \in 1..Len(trail) : trail'[i] = trail[i]
            /\ trail'[Len(trail) + 1] = [ev |-> Outcome(r), by |-> r]
        BY <1>1, <2>3, TrailAppend
      <3>2. ASSUME reply'[r].body = "result" PROVE RanThenRecorded(r)'
        <4>1. Ran(r) /\ Outcome(r) = "success"
          BY <2>2, <2>3, <3>2, OutcomeOf
        <4>2. PICK i \in 1..Len(trail) : trail[i] = [ev |-> "ran", by |-> r]
          BY <4>1 DEF Ran, Contains
        <4>3. i \in DOMAIN trail' /\ Len(trail) + 1 \in DOMAIN trail' /\ i < Len(trail) + 1
          BY <3>1
        <4> QED BY <3>1, <4>1, <4>2, <4>3 DEF RanThenRecorded
      <3>3. ASSUME reply'[r] \in Refusals PROVE Contains(trail', [ev |-> "failure", by |-> r])
        <4>1. Outcome(r) = "failure"
          BY <2>3, <3>3, OutcomeOf
        <4>2. Len(trail) + 1 \in 1..Len(trail')
          BY <3>1
        <4> QED BY <3>1, <4>1, <4>2 DEF Contains
      <3> QED BY <2>1, <3>2, <3>3 DEF ReplyInv
    <2>4. CASE reply' = [reply EXCEPT ![r] = rpcErrorBody(500, reply[r].id)]
      <3>1. reply'[r].status = 500 /\ reply'[r].body = "error"
        BY <1>2, <2>4 DEF rpcErrorBody
      <3>2. reply'[r] \notin Refusals
        BY <3>1, BodyOf DEF Refusals
      <3> QED BY <2>1, <3>1, <3>2, UnrecordedAnswer
    <2> QED BY <1>12, <2>3, <2>4 DEF Record, Answer
  <1>13. CASE ReleaseLine(r) \/ ReleaseSlot(r)
    <2>1. reply' = reply /\ pc[r] \in {"unwindLine", "unwindSlot"} /\ pc'[r] \in {"unwindSlot", "done"}
      BY <1>2, <1>13 DEF ReleaseLine, ReleaseSlot, Goto
    <2>2. Answered(r) /\ Answered(r)'
      BY <2>1 DEF Answered
    <2> QED BY <1>1, <2>1, <2>2, ReplyFrame
  <1> QED BY <1>3, <1>4, <1>5, <1>6, <1>7, <1>8, <1>9, <1>10, <1>11, <1>12, <1>13 DEF Handle

LEMMA ReplyStep ==
  ASSUME HoldInv, [Next]_vars, \A q \in Requests : ReplyInv(q)
  PROVE  \A q \in Requests : ReplyInv(q)'
  <1> SUFFICES ASSUME NEW q \in Requests PROVE ReplyInv(q)'
    OBVIOUS
  <1>1. TypeOK
    BY DEF HoldInv
  <1>2. ASSUME NEW r \in Requests, Handle(r) PROVE ReplyInv(q)'
    <2>1. CASE q = r
      BY <1>2, <2>1, ReplyOwn
    <2>2. CASE q # r
      BY <1>1, <1>2, <2>2, HandleFrame, HandleKeepsReq, ReplyFrame
    <2> QED BY <2>1, <2>2
  <1>3. ASSUME NEW r \in Requests, NEW i \in Inputs, Arrive(r, i) PROVE ReplyInv(q)'
    <2>1. /\ req' = [req EXCEPT ![r] = i] /\ pc' = [pc EXCEPT ![r] = "arrived"] /\ reply' = reply
      BY <1>3 DEF Arrive, Goto
    <2>2. CASE q = r
      <3>1. pc'[q] = "arrived"
        BY <1>1, <2>1, <2>2 DEF TypeOK
      <3> QED BY <3>1 DEF ReplyInv, Answered, AnsweredCall
    <2>3. CASE q # r
      BY <1>1, <2>1, <2>3, ReplyFrame DEF TypeOK
    <2> QED BY <2>2, <2>3
  <1>4. ASSUME ~ \E r \in Requests : Handle(r), ~ \E r \in Requests, i \in Inputs : Arrive(r, i)
        PROVE  ReplyInv(q)'
    <2>1. req' = req /\ pc' = pc /\ reply' = reply
      BY <1>4 DEF Next, ControlRuns, Disconnect, Shutdown, CloseSink, Quiet, vars
    <2> QED BY <2>1, ReplyFrame
  <1> QED BY <1>2, <1>3, <1>4

-------------------------------------------------------------------------------
(* The calls that left *)

\* An answer that was given stands.
LEMMA AnswerStands ==
  ASSUME HoldInv, [Next]_vars, NEW q \in Requests, Answered(q)
  PROVE  Answered(q)' /\ reply'[q] = reply[q]
  <1>1. TypeOK
    BY DEF HoldInv
  <1>2. ASSUME NEW r \in Requests, Handle(r) PROVE Answered(q)' /\ reply'[q] = reply[q]
    <2>1. CASE q # r
      BY <1>1, <1>2, <2>1, HandleFrame DEF Answered
    <2>2. CASE q = r
      <3>1. ReleaseLine(r) \/ ReleaseSlot(r)
        BY <1>2, <2>2 DEF Answered, Handle, RefuseHeaders, AuthFails, RecordFailedLogon, Authenticate,
           RecordLogon, AcquireSlot, RefuseSlot, RespondLocally, Deny, RefuseFull, Serialize, Enter,
           CreateSession, ForwardFails, RelayResult, Record
      <3> QED BY <1>1, <2>2, <3>1 DEF ReleaseLine, ReleaseSlot, Goto, Answered, TypeOK
    <2> QED BY <2>1, <2>2
  <1>3. ASSUME NEW r \in Requests, NEW i \in Inputs, Arrive(r, i)
        PROVE  Answered(q)' /\ reply'[q] = reply[q]
    BY <1>1, <1>3 DEF Arrive, Goto, Answered, TypeOK
  <1>4. ASSUME ~ \E r \in Requests : Handle(r), ~ \E r \in Requests, i \in Inputs : Arrive(r, i)
        PROVE  Answered(q)' /\ reply'[q] = reply[q]
    BY <1>4 DEF Next, ControlRuns, Disconnect, Shutdown, CloseSink, Quiet, vars, Answered
  <1> QED BY <1>2, <1>3, <1>4

\* A call that left and is not recorded holds its line until its record or its 500.
LEMMA UnsettledStays ==
  ASSUME HoldInv, [Next]_vars, NEW q \in Requests, pc[q] \notin Before
  PROVE  /\ pc'[q] \notin Before
         /\ ~Answered(q) /\ place[q] = "running" =>
              \/ ~Answered(q)' /\ place'[q] = "running"
              \/ Answered(q)' /\ reply'[q].status = 500
              \/ trail' = Append(trail, [ev |-> Outcome(q), by |-> q])
  <1>1. TypeOK
    BY DEF HoldInv
  <1>2. ASSUME pc'[q] = pc[q], place'[q] = place[q]
        PROVE  pc'[q] \notin Before /\ (~Answered(q) /\ place[q] = "running" => ~Answered(q)' /\ place'[q] = "running")
    BY <1>2 DEF Answered
  <1>3. ASSUME NEW r \in Requests, Handle(r), q = r
        PROVE  /\ pc'[q] \notin Before
               /\ ~Answered(q) /\ place[q] = "running" =>
                    \/ ~Answered(q)' /\ place'[q] = "running"
                    \/ Answered(q)' /\ reply'[q].status = 500
                    \/ trail' = Append(trail, [ev |-> Outcome(q), by |-> q])
    <2>1. ForwardFails(r) \/ RelayResult(r) \/ Record(r) \/ ReleaseLine(r) \/ ReleaseSlot(r)
      BY <1>3 DEF Before, Handle, RefuseHeaders, AuthFails, RecordFailedLogon, Authenticate,
         RecordLogon, AcquireSlot, RefuseSlot, RespondLocally, Deny, RefuseFull, Serialize, Enter,
         CreateSession
    <2>2. CASE ForwardFails(r) \/ RelayResult(r)
      <3>1. pc'[r] = "record" /\ place' = place
        BY <1>1, <2>2 DEF ForwardFails, RelayResult, Goto, TypeOK
      <3> QED BY <1>3, <3>1 DEF Answered, Before
    <2>3. CASE Record(r)
      <3>1. pc'[r] \in {"unwindLine", "unwindSlot", "done"}
        BY <1>1, <2>3 DEF Record, Goto, Unwind, TypeOK
      <3>2. Answered(r)' /\ pc'[r] \notin Before
        BY <3>1 DEF Answered, Before
      <3>3. \/ trail' = Append(trail, [ev |-> Outcome(r), by |-> r])
            \/ reply' = [reply EXCEPT ![r] = rpcErrorBody(500, reply[r].id)]
        BY <2>3 DEF Record, Answer
      <3>4. reply' = [reply EXCEPT ![r] = rpcErrorBody(500, reply[r].id)] => reply'[r].status = 500
        BY <1>1 DEF TypeOK, rpcErrorBody
      <3> QED BY <1>3, <3>2, <3>3, <3>4
    <2>4. CASE ReleaseLine(r) \/ ReleaseSlot(r)
      <3>1. Answered(r) /\ pc'[r] \in {"unwindSlot", "done"}
        BY <1>1, <2>4 DEF ReleaseLine, ReleaseSlot, Goto, Answered, TypeOK
      <3> QED BY <1>3, <3>1 DEF Before
    <2> QED BY <2>1, <2>2, <2>3, <2>4
  <1>4. ASSUME NEW r \in Requests, Handle(r), q # r PROVE pc'[q] = pc[q] /\ place'[q] = place[q]
    BY <1>1, <1>4, HandleFrame
  <1>5. ASSUME NEW r \in Requests, NEW i \in Inputs, Arrive(r, i)
        PROVE  pc'[q] = pc[q] /\ place'[q] = place[q]
    BY <1>1, <1>5 DEF Arrive, Goto, Before, TypeOK
  <1>6. ASSUME ~ \E r \in Requests : Handle(r), ~ \E r \in Requests, i \in Inputs : Arrive(r, i)
        PROVE  pc'[q] = pc[q] /\ place'[q] = place[q]
    BY <1>6 DEF Next, ControlRuns, Disconnect, Shutdown, CloseSink, Quiet, vars
  <1> QED BY <1>2, <1>3, <1>4, <1>5, <1>6

\* Which step appends "sent".
LEMMA SentByCreate ==
  ASSUME HoldInv, [Next]_vars, trail' # trail, trail'[Len(trail) + 1].ev = "sent"
  PROVE  LET r == trail'[Len(trail) + 1].by
         IN  r \in Requests /\ CreateSession(r) /\ req[r].shape.tool # "bare"
  <1>1. PICK r \in Requests :
          \/ CreateSession(r) /\ trail' = Append(trail, [ev |-> "sent", by |-> r])
          \/ ControlRuns(r) /\ trail' = Append(trail, [ev |-> "ran", by |-> r])
          \/ Record(r) /\ trail' = Append(trail, [ev |-> Outcome(r), by |-> r])
    BY TrailGrows
  <1>2. \A e : trail' = Append(trail, e) => trail'[Len(trail) + 1] = e
    BY TrailAppend DEF HoldInv
  <1>3. trail' # Append(trail, [ev |-> "ran", by |-> r])
    <2> SUFFICES ASSUME trail' = Append(trail, [ev |-> "ran", by |-> r]) PROVE FALSE
      OBVIOUS
    <2>1. trail'[Len(trail) + 1] = [ev |-> "ran", by |-> r]
      BY <1>2
    <2> QED BY <2>1
  <1>4. trail' # Append(trail, [ev |-> Outcome(r), by |-> r])
    <2> SUFFICES ASSUME trail' = Append(trail, [ev |-> Outcome(r), by |-> r]) PROVE FALSE
      OBVIOUS
    <2>1. trail'[Len(trail) + 1] = [ev |-> Outcome(r), by |-> r]
      BY <1>2
    <2>2. Outcome(r) # "sent"
      BY DEF Outcome
    <2> QED BY <2>1, <2>2
  <1>5. CreateSession(r) /\ trail' = Append(trail, [ev |-> "sent", by |-> r])
    BY <1>1, <1>3, <1>4
  <1>6. trail'[Len(trail) + 1] = [ev |-> "sent", by |-> r]
    BY <1>2, <1>5
  <1>7. trail'[Len(trail) + 1].by = r
    BY <1>6
  <1>8. req[r].shape.tool # "bare"
    BY <1>5 DEF CreateSession
  <1> QED BY <1>5, <1>7, <1>8

LEMMA SentStep ==
  ASSUME HoldInv, SentInv, [Next]_vars
  PROVE  SentInv'
  <1>1. TypeOK
    BY DEF HoldInv
  <1> DEFINE n == Len(trail)  k == Len(trail')
  <1>2. DOMAIN trail = 1..n /\ DOMAIN trail' = 1..k
    BY TrailPrefix
  <1>3. n \in Nat /\ k \in Nat /\ (k = n \/ k = n + 1)
    BY TrailPrefix
  <1>4. \A i \in 1..n : trail'[i] = trail[i]
    BY TrailPrefix
  <1> HIDE DEF n, k
  <1> SUFFICES ASSUME NEW i \in DOMAIN trail', trail'[i].ev = "sent" PROVE Left(trail[i].by, i)'
    BY DEF SentInv
  <1>5. PICK q : q = trail'[i].by
    OBVIOUS
  <1>6. i \in 1..k
    BY <1>2
  <1>7. CASE i \in 1..n
    <2>1. trail'[i] = trail[i]
      BY <1>4, <1>7
    <2>2. trail[i].ev = "sent" /\ q = trail[i].by /\ q \in Requests /\ Left(q, i)
      BY <1>1, <1>2, <1>5, <1>7, <2>1, TrailBy DEF SentInv
    <2>3. pc'[q] \notin Before
      BY <2>2, UnsettledStays DEF Left
    <2>4. CASE \E m \in (i + 1)..n : IsRecordOf(q, trail[m])
      <3>1. PICK m \in (i + 1)..n : IsRecordOf(q, trail[m])
        BY <2>4
      <3>2. m \in 1..n
        BY <1>3, <1>7
      <3>3. m \in (i + 1)..k
        BY <1>3, <1>7
      <3>4. IsRecordOf(q, trail'[m])
        BY <1>4, <3>1, <3>2
      <3> QED BY <1>5, <2>3, <3>3, <3>4 DEF Left, IsRecordOf, k
    <2>5. CASE Answered(q) /\ reply[q].status = 500
      <3>1. Answered(q)' /\ reply'[q].status = 500
        BY <2>2, <2>5, AnswerStands
      <3> QED BY <1>5, <2>3, <3>1 DEF Left, Answered
    <2>6. CASE ~Answered(q) /\ place[q] = "running"
      <3>1. \/ ~Answered(q)' /\ place'[q] = "running"
            \/ Answered(q)' /\ reply'[q].status = 500
            \/ trail' = Append(trail, [ev |-> Outcome(q), by |-> q])
        BY <2>2, <2>6, UnsettledStays DEF Left
      <3>2. CASE trail' = Append(trail, [ev |-> Outcome(q), by |-> q])
        <4>1. trail'[n + 1] = [ev |-> Outcome(q), by |-> q] /\ k = n + 1
          BY <1>1, <3>2, TrailAppend DEF n, k
        <4>2. n + 1 \in (i + 1)..k
          BY <1>3, <1>7, <4>1
        <4>3. IsRecordOf(q, trail'[n + 1])
          BY <4>1 DEF IsRecordOf, Outcome
        <4> QED BY <1>5, <2>3, <4>2, <4>3 DEF Left, IsRecordOf, k
      <3> QED BY <1>5, <2>3, <3>1, <3>2 DEF Left, Answered
    <2> QED BY <2>2, <2>4, <2>5, <2>6 DEF Left, n
  <1>8. CASE i \notin 1..n
    <2>1. i = n + 1 /\ k = n + 1
      BY <1>3, <1>6, <1>8
    <2>2. trail' # trail
      <3>1. k # n
        BY <1>3, <2>1
      <3> QED BY <3>1 DEF n, k
    <2>3. q \in Requests /\ CreateSession(q) /\ req[q].shape.tool # "bare"
      BY <1>5, <2>1, <2>2, SentByCreate DEF n
    <2>4. pc'[q] = "await" /\ place'[q] = "running"
      <3>1. pc[q] = "create" /\ place' = place /\ place[q] = "running"
        BY <2>3 DEF CreateSession, HoldInv, Stage
      <3> QED BY <1>1, <2>3, <3>1 DEF CreateSession, Goto, TypeOK
    <2> QED BY <1>5, <2>4 DEF Left, Answered, Before
  <1> QED BY <1>7, <1>8

\* When a call leaves, those of its tenant that left before it are settled: one that was
\* not would still be the head of the line whose head the leaving one is.
LEMMA OrderStep ==
  ASSUME HoldInv, ForwardedInv, SentInv, RecordedBeforeNext, [Next]_vars
  PROVE  RecordedBeforeNext'
  <1>1. TypeOK /\ \A r \in Requests : Stage(r)
    BY DEF HoldInv
  <1> DEFINE n == Len(trail)  k == Len(trail')
  <1>2. DOMAIN trail = 1..n /\ DOMAIN trail' = 1..k
    BY TrailPrefix
  <1>3. n \in Nat /\ k \in Nat /\ (k = n \/ k = n + 1)
    BY TrailPrefix
  <1>4. \A i \in 1..n : trail'[i] = trail[i]
    BY TrailPrefix
  <1> HIDE DEF n, k
  <1> DEFINE Settled(i, j, q) == \/ \E m \in (i + 1)..(j - 1) : IsRecordOf(q, trail[m])
                                 \/ Answered(q) /\ reply[q].status = 500
  <1>5. ASSUME NEW i \in 1..k, NEW j \in 1..k, i < j, NEW q, q = trail'[i].by, NEW p, p = trail'[j].by,
               trail'[i].ev = "sent", trail'[j].ev = "sent", SameTenant(q, p)'
        PROVE  Settled(i, j, q)'
    <2>1. i \in 1..n
      BY <1>3, <1>5
    <2>2. trail[i].ev = "sent" /\ q = trail[i].by /\ q \in Requests /\ Left(q, i)
      BY <1>1, <1>2, <1>4, <1>5, <2>1, TrailBy DEF SentInv
    <2>3. Admitted(q)
      BY <1>2, <2>1, <2>2 DEF ForwardedInv
    <2>4. req'[q] = req[q]
      BY <2>2, <2>3, AdmittedStays
    <2>5. CASE j \in 1..n
      <3>1. trail[j].ev = "sent" /\ p = trail[j].by /\ p \in Requests
        BY <1>1, <1>2, <1>4, <1>5, <2>5, TrailBy
      <3>2. Admitted(p)
        BY <1>2, <2>5, <3>1 DEF ForwardedInv
      <3>3. req'[p] = req[p]
        BY <3>1, <3>2, AdmittedStays
      <3>4. SameTenant(q, p)
        BY <1>5, <2>4, <3>3 DEF SameTenant, Tenant
      <3>5. Settled(i, j, q)
        BY <1>2, <1>5, <2>1, <2>2, <2>5, <3>1, <3>4 DEF RecordedBeforeNext
      <3>6. CASE \E m \in (i + 1)..(j - 1) : IsRecordOf(q, trail[m])
        <4>1. PICK m \in (i + 1)..(j - 1) : IsRecordOf(q, trail[m])
          BY <3>6
        <4>2. m \in 1..n
          BY <1>3, <2>1, <2>5
        <4>3. IsRecordOf(q, trail'[m])
          BY <1>4, <4>1, <4>2
        <4> QED BY <4>3 DEF IsRecordOf
      <3>7. CASE Answered(q) /\ reply[q].status = 500
        BY <2>2, <3>7, AnswerStands
      <3> QED BY <3>5, <3>6, <3>7
    <2>6. CASE j \notin 1..n
      <3>1. j = n + 1 /\ k = n + 1
        BY <1>3, <2>6
      <3>2. trail' # trail
        <4>1. k # n
          BY <1>3, <3>1
        <4> QED BY <4>1 DEF n, k
      <3>3. p \in Requests /\ CreateSession(p)
        BY <1>5, <3>1, <3>2, SentByCreate DEF n
      <3>4. pc[p] = "create" /\ place[p] = "running" /\ req' = req
        BY <1>1, <3>3 DEF CreateSession, Stage
      <3>5. Tenant(q) = Tenant(p)
        BY <1>5, <3>4 DEF SameTenant, Tenant
      <3>6. ~(~Answered(q) /\ place[q] = "running")
        <4> SUFFICES ASSUME place[q] = "running" PROVE FALSE
          OBVIOUS
        <4>1. q = p
          BY <2>2, <3>3, <3>4, <3>5 DEF HoldInv, Lines
        <4> QED BY <2>2, <3>4, <4>1 DEF Left, Before
      <3>7. CASE \E m \in (i + 1)..n : IsRecordOf(q, trail[m])
        <4>1. PICK m \in (i + 1)..n : IsRecordOf(q, trail[m])
          BY <3>7
        <4>2. m \in 1..n /\ m \in (i + 1)..(j - 1)
          BY <1>3, <2>1, <3>1
        <4>3. IsRecordOf(q, trail'[m])
          BY <1>4, <4>1, <4>2
        <4> QED BY <4>2, <4>3 DEF IsRecordOf
      <3>8. CASE Answered(q) /\ reply[q].status = 500
        BY <2>2, <3>8, AnswerStands
      <3> QED BY <2>2, <3>6, <3>7, <3>8 DEF Left, n
    <2> QED BY <2>5, <2>6
  <1> SUFFICES ASSUME NEW i \in DOMAIN trail', NEW j \in DOMAIN trail', i < j,
                      trail'[i].ev = "sent", trail'[j].ev = "sent", SameTenant(trail[i].by, trail[j].by)'
               PROVE  Settled(i, j, trail[i].by)'
    BY DEF RecordedBeforeNext
  <1>6. PICK q, p : q = trail'[i].by /\ p = trail'[j].by
    OBVIOUS
  <1>7. SameTenant(q, p)'
    BY <1>6 DEF SameTenant, Tenant
  <1>8. Settled(i, j, q)'
    BY <1>2, <1>5, <1>6, <1>7
  <1> QED BY <1>6, <1>8 DEF IsRecordOf, Answered

-------------------------------------------------------------------------------
(* The audit trail: the theorems *)

LEMMA InitTrail == Init => TrailInv
  BY DEF Init, TrailInv, ReplyInv, SentInv, RecordedBeforeNext, Answered, AnsweredCall

\* What the answers and the trail of the pipeline say about each other in every
\* reachable state.
THEOREM TrailInvariant == Spec => [](HoldInv /\ ForwardedInv /\ TrailInv)
  <1>1. (HoldInv /\ ForwardedInv /\ TrailInv) /\ [Next]_vars => (HoldInv /\ ForwardedInv /\ TrailInv)'
    <2> SUFFICES ASSUME HoldInv, ForwardedInv, TrailInv, [Next]_vars PROVE TrailInv'
      BY HoldStep, ForwardedStep
    <2>1. \A r \in Requests : ReplyInv(r)'
      BY ReplyStep DEF TrailInv
    <2>2. SentInv'
      BY SentStep DEF TrailInv
    <2>3. RecordedBeforeNext'
      BY OrderStep DEF TrailInv
    <2> QED BY <2>1, <2>2, <2>3 DEF TrailInv
  <1>2. Init => HoldInv /\ ForwardedInv /\ TrailInv
    BY InitAll, InitTrail
  <1> QED BY <1>1, <1>2, PTL DEF Spec

\* Emit before ack: a tool result reaches the caller only after Control ran the call and
\* then its success was durably recorded (handler.go step 6).
THEOREM AckMeansRecordedHolds == Spec => []AckMeansRecorded
  <1>1. TrailInv => AckMeansRecorded
    BY DEF TrailInv, ReplyInv, AckMeansRecorded, RanThenRecorded
  <1> QED BY <1>1, TrailInvariant, PTL

\* A ceiling 429, a policy 403 or a forward 502 reaches the caller only when the refusal
\* is in the trail (recordRefusal).
THEOREM RefusalsRecordedHolds == Spec => []RefusalsRecorded
  <1>1. TrailInv => RefusalsRecorded
    BY DEF TrailInv, ReplyInv, RefusalsRecorded, Refusals
  <1> QED BY <1>1, TrailInvariant, PTL

\* The line is held across forward and emit: when a call leaves for Control, those of its
\* tenant that left before are recorded, or were answered 500 because the record failed.
THEOREM RecordedBeforeNextHolds == Spec => []RecordedBeforeNext
  <1>1. TrailInv => RecordedBeforeNext
    BY DEF TrailInv
  <1> QED BY <1>1, TrailInvariant, PTL
===============================================================================
