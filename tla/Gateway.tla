------------------------------- MODULE Gateway -------------------------------
(***************************************************************************)
(* The request pipeline: ServeHTTP of internal/ingress/handler.go from the *)
(* arrival of a request to its deferred releases, over the components it   *)
(* calls: the ceiling (Ceiling), the serializer (SessionLine, which        *)
(* Serializer implements), the audit trail, and Control behind             *)
(* internal/forward/http.go.  Every request is a goroutine of its own; an  *)
(* action ends where the handler next touches state that others share.     *)
(*                                                                         *)
(* Control is outside the repository: it is modelled by what a client of   *)
(* it can see.  It may run a command any time after the request left the   *)
(* gateway, also after the gateway gave up on the answer.                  *)
(***************************************************************************)
EXTENDS Admission, Integers, Sequences, FiniteSets, SequencesExt

CONSTANTS
    Requests,       \* the requests, each served once
    Conns,          \* client connections, HTTP/1.1: one request at a time on each
    Keys,           \* the caller keys of the loaded key set
    NoKey,          \* a bearer that resolves to no key
    TenantOf,       \* key -> its tenant, a sequence of "/"-separated segments
    Inputs,         \* what may arrive: records of conn, key, chat and shape
    Permitted,      \* the (key, tool) pairs the authorization policy permits
    CeilingLimit,   \* -caller-ceiling
    SerializeDepth, \* -serialize-depth
    Free, NoOp, Released,
    NoInput         \* the input of a request that has not arrived

Tenants == {TenantOf[k] : k \in Keys}

ASSUME GatewayAssumption ==
    /\ NoKey \notin Keys
    /\ \A i \in Inputs : i.conn \in Conns /\ i.key \in Keys \cup {NoKey} /\ i.shape \in Shapes
    /\ NoInput \notin Inputs
    /\ Permitted \subseteq Keys \X Tools
    /\ CeilingLimit \in Int /\ SerializeDepth \in Int
    /\ {Free, NoOp, Released} \cap Keys = {}
    /\ Free # NoOp /\ Free # Released /\ NoOp # Released
    /\ IsFiniteSet(Requests)

VARIABLES
    pc,         \* where each request's goroutine is in ServeHTTP
    req,        \* the request it serves
    reply,      \* the response it is about to write or has written
    counts, slot,   \* the ceiling
    line, place,    \* the serializer: per tenant, the line; per request, its place
    latch,      \* conn -> its once-per-connection logon latch
    logons,     \* history: conn -> the success logons recorded for it
    dropped,    \* Handler.logonDropped
    sinkOpen,   \* the audit sink accepts records
    trail,      \* history: the tool-calls sent to Control, run by it and durably
                \* recorded, in order
    inbox,      \* requests whose second hop left the gateway and has not run
    sessions,   \* history: the session hints Control was asked to create
    gone,       \* connections whose request context is cancelled
    stopping    \* the daemon's context is cancelled

logonVars == <<latch, logons, dropped>>
admissionVars == <<counts, slot, logonVars>>
controlVars == <<inbox, sessions>>
envVars == <<gone, stopping>>
vars == <<pc, req, reply, counts, slot, line, place, latch, logons, dropped,
          sinkOpen, trail, inbox, sessions, gone, stopping>>

C == INSTANCE Ceiling WITH Holders <- Requests, Limit <- CeilingLimit
L == INSTANCE SessionLine WITH Callers <- Requests, Sessions <- Tenants,
                               MaxDepth <- SerializeDepth, status <- place

PCs == {"idle", "arrived", "logonFailed", "logon", "ceiling", "read", "queued",
        "create", "await", "record", "unwindLine", "unwindSlot", "done"}

Tenant(r) == TenantOf[req[r].key]
Cancelled(r) == req[r].conn \in gone

\* sessionHintFor: tenant "/" chat, or the tenant alone with no X-Chat-Id.
sessionHintFor(tenant, chat) == tenant \o chat
Hint(r) == sessionHintFor(Tenant(r), req[r].chat)

Init ==
    /\ pc = [r \in Requests |-> "idle"]
    /\ req = [r \in Requests |-> NoInput]
    /\ reply = [r \in Requests |-> Pass]
    /\ C!NewCeiling
    /\ L!Init
    /\ latch = [c \in Conns |-> FALSE]
    /\ logons = [c \in Conns |-> 0]
    /\ dropped = 0
    /\ sinkOpen \in BOOLEAN     \* FALSE: no -audit-sink, the bus sink always refuses
    /\ trail = <<>>
    /\ inbox = {} /\ sessions = {}
    /\ gone = {} /\ stopping = FALSE

Goto(r, label) == pc' = [pc EXCEPT ![r] = label]
Answer(r, a) == reply' = [reply EXCEPT ![r] = a]

-------------------------------------------------------------------------------
(* The audit sink, as an emit of request r sees it *)

\* The record is durable when the emit returns.
Publish(r) == sinkOpen /\ ~Cancelled(r) /\ UNCHANGED sinkOpen

\* A cancelled context or a sealed sink refuses the record; a failed write or fsync
\* seals the sink.  After a forward that succeeded, Envelope.Validate refuses a record
\* whose correlation, adopted from Control's reply, is over its bound: nothing is
\* written and the sink stays open.
PublishFails(r) ==
    \/ ~sinkOpen /\ UNCHANGED sinkOpen
    \/ Cancelled(r) /\ UNCHANGED sinkOpen
    \/ pc[r] = "record" /\ reply[r].status \in {200, 500} /\ UNCHANGED sinkOpen
    \/ sinkOpen /\ ~Cancelled(r) /\ sinkOpen' = FALSE

-------------------------------------------------------------------------------
(* Before the body is read *)

\* A request is read off a connection that has no other request in service.
Arrive(r, i) ==
    /\ pc[r] = "idle"
    /\ i.conn \notin gone
    /\ \A q \in Requests : req[q] # NoInput /\ req[q].conn = i.conn => pc[q] = "done"
    /\ req' = [req EXCEPT ![r] = i]
    /\ Goto(r, "arrived")
    /\ UNCHANGED <<reply, admissionVars, line, place, sinkOpen, trail, controlVars, envVars>>

\* A header check answers.
RefuseHeaders(r) ==
    /\ pc[r] = "arrived"
    /\ PreAuth(req[r].shape) # Pass
    /\ Answer(r, PreAuth(req[r].shape))
    /\ Goto(r, "done")
    /\ UNCHANGED <<req, admissionVars, line, place, sinkOpen, trail, controlVars, envVars>>

\* The bearer resolves to no key.
AuthFails(r) ==
    /\ pc[r] = "arrived"
    /\ PreAuth(req[r].shape) = Pass
    /\ req[r].key = NoKey
    /\ Answer(r, writeRPCError(401))
    /\ Goto(r, "logonFailed")
    /\ UNCHANGED <<req, admissionVars, line, place, sinkOpen, trail, controlVars, envVars>>

\* The failed logon is recorded, or its loss counted; the 401 is the answer either way.
RecordFailedLogon(r) ==
    /\ pc[r] = "logonFailed"
    /\ \/ Publish(r) /\ UNCHANGED dropped
       \/ PublishFails(r) /\ dropped' = dropped + 1
    /\ Goto(r, "done")
    /\ UNCHANGED <<req, reply, counts, slot, latch, logons, line, place, trail, controlVars, envVars>>

\* The caller is resolved; emitLogonOnce swaps the connection's latch.
Authenticate(r) ==
    /\ pc[r] = "arrived"
    /\ PreAuth(req[r].shape) = Pass
    /\ req[r].key \in Keys
    /\ Goto(r, IF latch[req[r].conn] THEN "ceiling" ELSE "logon")
    /\ latch' = [latch EXCEPT ![req[r].conn] = TRUE]
    /\ UNCHANGED <<req, reply, counts, slot, logons, dropped, line, place, sinkOpen, trail,
                   controlVars, envVars>>

\* Mutant: a lost logon keeps the latch.
LoseLogonLatched(r) ==
    /\ PublishFails(r)
    /\ dropped' = dropped + 1
    /\ UNCHANGED <<latch, logons>>

\* A logon that could not be recorded is counted and gives the latch back.
LoseLogon(r) ==
    /\ PublishFails(r)
    /\ dropped' = dropped + 1
    /\ latch' = [latch EXCEPT ![req[r].conn] = FALSE]
    /\ UNCHANGED logons

\* The logon record, fail-open.
RecordLogon(r) ==
    /\ pc[r] = "logon"
    /\ \/ /\ Publish(r)
          /\ logons' = [logons EXCEPT ![req[r].conn] = @ + 1]
          /\ UNCHANGED <<dropped, latch>>
       \/ LoseLogon(r)
    /\ Goto(r, "ceiling")
    /\ UNCHANGED <<req, reply, counts, slot, line, place, trail, controlVars, envVars>>

AcquireSlot(r) ==
    /\ pc[r] = "ceiling"
    /\ C!Acquire(r, req[r].key)
    /\ Goto(r, "read")
    /\ UNCHANGED <<req, reply, logonVars, line, place, sinkOpen, trail, controlVars, envVars>>

\* Over the ceiling: an id-less 429, once its record is durable.
RefuseSlot(r) ==
    /\ pc[r] = "ceiling"
    /\ C!Refuse(r, req[r].key)
    /\ Answer(r, writeRPCError(429))
    /\ Goto(r, "record")
    /\ UNCHANGED <<req, logonVars, line, place, sinkOpen, trail, controlVars, envVars>>

-------------------------------------------------------------------------------
(* From the bounded read to the serializer *)

\* Mutant: the policy is not consulted.
AuthorizedAlways(r) == AfterRead(req[r].shape) = Pass

\* A tools/call every check admits; the policy decides on the resolved key.
Authorized(r) ==
    /\ AfterRead(req[r].shape) = Pass
    /\ <<req[r].key, req[r].shape.tool>> \in Permitted

\* A body check answers, or a handshake method is served: nothing is forwarded.
RespondLocally(r) ==
    /\ pc[r] = "read"
    /\ AfterRead(req[r].shape) # Pass
    /\ Answer(r, AfterRead(req[r].shape))
    /\ Goto(r, "unwindSlot")
    /\ UNCHANGED <<req, admissionVars, line, place, sinkOpen, trail, controlVars, envVars>>

\* Mutant: the denial is not recorded.
DenyUnrecorded(r) ==
    /\ pc[r] = "read"
    /\ AfterRead(req[r].shape) = Pass /\ ~Authorized(r)
    /\ Answer(r, writeRPCErrorWithID(403))
    /\ Goto(r, "unwindSlot")
    /\ UNCHANGED <<req, admissionVars, line, place, sinkOpen, trail, controlVars, envVars>>

\* The policy denies: 403, once its record is durable.
Deny(r) ==
    /\ pc[r] = "read"
    /\ AfterRead(req[r].shape) = Pass /\ ~Authorized(r)
    /\ Answer(r, writeRPCErrorWithID(403))
    /\ Goto(r, "record")
    /\ UNCHANGED <<req, admissionVars, line, place, sinkOpen, trail, controlVars, envVars>>

\* The tenant's line is at its bound: 429, which is not recorded.
RefuseFull(r) ==
    /\ pc[r] = "read"
    /\ Authorized(r)
    /\ L!Refuse(r, Tenant(r))
    /\ Answer(r, writeRPCErrorWithID(429))
    /\ Goto(r, "unwindSlot")
    /\ UNCHANGED <<req, admissionVars, sinkOpen, trail, controlVars, envVars>>

\* Mutant: the handler goes on without waiting for its turn.
SerializeNoWait(r) ==
    /\ pc[r] = "read"
    /\ Authorized(r)
    /\ L!Join(r, Tenant(r))
    /\ Goto(r, "create")
    /\ UNCHANGED <<req, reply, admissionVars, sinkOpen, trail, controlVars, envVars>>

\* serializer.Acquire on the tenant; it ignores the request's context.
Serialize(r) ==
    /\ pc[r] = "read"
    /\ Authorized(r)
    /\ L!Join(r, Tenant(r))
    /\ Goto(r, IF line[Tenant(r)] = <<>> THEN "create" ELSE "queued")
    /\ UNCHANGED <<req, reply, admissionVars, sinkOpen, trail, controlVars, envVars>>

Enter(r) ==
    /\ pc[r] = "queued"
    /\ L!Enter(r, Tenant(r))
    /\ Goto(r, "create")
    /\ UNCHANGED <<req, reply, admissionVars, sinkOpen, trail, controlVars, envVars>>

-------------------------------------------------------------------------------
(* Forward *)

\* The create hop succeeded.  A tool with no argv ends there; any other goes on to
\* its second hop, exec or status.
CreateSession(r) ==
    /\ pc[r] = "create"
    /\ sessions' = sessions \cup {Hint(r)}
    /\ IF req[r].shape.tool = "bare"
       THEN /\ Answer(r, writeRPCErrorWithID(200))
            /\ Goto(r, "record")
            /\ UNCHANGED <<inbox, trail>>
       ELSE /\ inbox' = inbox \cup {r}
            /\ trail' = Append(trail, [ev |-> "sent", by |-> r])
            /\ Goto(r, "await")
            /\ UNCHANGED reply
    /\ UNCHANGED <<req, admissionVars, line, place, sinkOpen, envVars>>

\* A hop fails: no credential or an inadmissible create, a transport error or a
\* cancelled context, a non-2xx, a reply that does not decode.  What left the gateway
\* may or may not have reached Control, and may still be run.
ForwardFails(r) ==
    /\ \/ /\ pc[r] = "create"
          /\ sessions' \in {sessions, sessions \cup {Hint(r)}}
          /\ UNCHANGED inbox
       \/ /\ pc[r] = "await"
          /\ inbox' \in {inbox, inbox \ {r}}
          /\ UNCHANGED sessions
    /\ Answer(r, writeRPCErrorWithID(502))
    /\ Goto(r, "record")
    /\ UNCHANGED <<req, admissionVars, line, place, sinkOpen, trail, envVars>>

\* Control (external) runs the command.
ControlRuns(r) ==
    /\ r \in inbox
    /\ inbox' = inbox \ {r}
    /\ trail' = Append(trail, [ev |-> "ran", by |-> r])
    /\ UNCHANGED <<pc, req, reply, admissionVars, line, place, sinkOpen, sessions, envVars>>

Ran(r) == Contains(trail, [ev |-> "ran", by |-> r])

\* Control's 2xx arrives: the projected result, or a 500 if it fails the outbound
\* validation.  Both are recorded as a success first.
RelayResult(r) ==
    /\ pc[r] = "await"
    /\ Ran(r)
    /\ \E a \in {writeRPCSuccess, writeRPCErrorWithID(500)} : Answer(r, a)
    /\ Goto(r, "record")
    /\ UNCHANGED <<req, admissionVars, line, place, sinkOpen, trail, controlVars, envVars>>

-------------------------------------------------------------------------------
(* The durable record, the response, and the deferred releases *)

\* Mutant: a refusal is recorded with the outcome left at its zero value.
OutcomeUnset(r) == IF reply[r].status \in {403, 429, 502} THEN "unknown" ELSE "success"

\* recordRefusal records a failure, the success path a success.
Outcome(r) == IF reply[r].status \in {403, 429, 502} THEN "failure" ELSE "success"

\* Mutant: a failed forward returns without the deferred release of its line.
UnwindForgetsLine(r) ==
    IF place[r] = "running" /\ reply[r].status # 502 THEN "unwindLine"
    ELSE IF slot[r] # Free THEN "unwindSlot"
    ELSE "done"

\* The deferred calls to run once the handler has answered.
Unwind(r) ==
    IF place[r] = "running" THEN "unwindLine"
    ELSE IF slot[r] # Free THEN "unwindSlot"
    ELSE "done"

\* Mutant: a failed emit does not change the answer.
RecordSwallow(r) ==
    /\ pc[r] = "record"
    /\ \/ /\ Publish(r)
          /\ trail' = Append(trail, [ev |-> Outcome(r), by |-> r])
       \/ PublishFails(r) /\ UNCHANGED trail
    /\ Goto(r, Unwind(r))
    /\ UNCHANGED <<req, reply, admissionVars, line, place, controlVars, envVars>>

\* Emit before ack: the answer stands if the record is durable, and is a 500 with
\* the same id if it isn't.
Record(r) ==
    /\ pc[r] = "record"
    /\ \/ /\ Publish(r)
          /\ trail' = Append(trail, [ev |-> Outcome(r), by |-> r])
          /\ UNCHANGED reply
       \/ /\ PublishFails(r)
          /\ Answer(r, rpcErrorBody(500, reply[r].id))
          /\ UNCHANGED trail
    /\ Goto(r, Unwind(r))
    /\ UNCHANGED <<req, admissionVars, line, place, controlVars, envVars>>

ReleaseLine(r) ==
    /\ pc[r] = "unwindLine"
    /\ L!Leave(r, Tenant(r))
    /\ Goto(r, "unwindSlot")
    /\ UNCHANGED <<req, reply, admissionVars, sinkOpen, trail, controlVars, envVars>>

ReleaseSlot(r) ==
    /\ pc[r] = "unwindSlot"
    /\ C!Release(r)
    /\ Goto(r, "done")
    /\ UNCHANGED <<req, reply, logonVars, line, place, sinkOpen, trail, controlVars, envVars>>

-------------------------------------------------------------------------------
(* The environment *)

InService(r) == pc[r] \notin {"idle", "done"}

\* The client goes away.  net/http notices only once the body has been read.
Disconnect(c) ==
    /\ c \notin gone
    /\ \E r \in Requests :
         /\ InService(r) /\ req[r].conn = c
         /\ slot[r] # Free /\ pc[r] # "read"
    /\ gone' = gone \cup {c}
    /\ UNCHANGED <<pc, req, reply, admissionVars, line, place, sinkOpen, trail, controlVars, stopping>>

\* SIGTERM: every request's context derives from the daemon's, and srv.Close closes
\* every connection without waiting for the handlers.
Shutdown ==
    /\ ~stopping
    /\ stopping' = TRUE
    /\ gone' = Conns
    /\ UNCHANGED <<pc, req, reply, admissionVars, line, place, sinkOpen, trail, controlVars>>

\* serve returns and its deferred Close seals the sink under the remaining handlers.
CloseSink ==
    /\ stopping /\ sinkOpen
    /\ sinkOpen' = FALSE
    /\ UNCHANGED <<pc, req, reply, admissionVars, line, place, trail, controlVars, envVars>>

\* Every request has been served.
Quiet ==
    /\ \A r \in Requests : ~InService(r)
    /\ UNCHANGED vars

\* One step of the goroutine that serves r.
Handle(r) ==
    \/ RefuseHeaders(r) \/ AuthFails(r) \/ RecordFailedLogon(r)
    \/ Authenticate(r) \/ RecordLogon(r) \/ AcquireSlot(r) \/ RefuseSlot(r)
    \/ RespondLocally(r) \/ Deny(r) \/ RefuseFull(r) \/ Serialize(r) \/ Enter(r)
    \/ CreateSession(r) \/ ForwardFails(r) \/ RelayResult(r)
    \/ Record(r) \/ ReleaseLine(r) \/ ReleaseSlot(r)

Next ==
    \/ \E r \in Requests, i \in Inputs : Arrive(r, i)
    \/ \E r \in Requests : Handle(r)
    \/ \E r \in Requests : ControlRuns(r)
    \/ \E c \in Conns : Disconnect(c)
    \/ Shutdown \/ CloseSink
    \/ Quiet

Spec == Init /\ [][Next]_vars

\* The goroutine of a request is scheduled whenever it can take a step.  At a hop that
\* means Control answers or the connection to it breaks: the client has no timeout.
FairSpec == Spec /\ \A r \in Requests : WF_vars(Handle(r))

-------------------------------------------------------------------------------
(* Properties *)

Events == [ev : {"sent", "ran", "success", "failure"}, by : Requests]

\* Type invariant.
TypeOK ==
    /\ pc \in [Requests -> PCs]
    /\ req \in [Requests -> Inputs \cup {NoInput}]
    /\ reply \in [Requests -> Replies \cup {Pass}]
    /\ C!TypeOK
    /\ line \in [Tenants -> Seq(Requests)]
    /\ place \in [Requests -> {"away", "refused", "queued", "running"}]
    /\ latch \in [Conns -> BOOLEAN]
    /\ logons \in [Conns -> Nat] /\ dropped \in Nat
    /\ sinkOpen \in BOOLEAN /\ stopping \in BOOLEAN
    /\ trail \in Seq(Events)
    /\ inbox \subseteq Requests
    /\ sessions \subseteq {sessionHintFor(TenantOf[i.key], i.chat) :
                             i \in {j \in Inputs : j.key \in Keys}}
    /\ gone \subseteq Conns

\* The handler of r has answered.
Answered(r) == pc[r] \in {"unwindLine", "unwindSlot", "done"}

\* The answers to tools/call requests of resolved callers.
AnsweredCall(r) ==
    /\ Answered(r)
    /\ req[r].key \in Keys
    /\ IsCall(req[r].shape) /\ PreAuth(req[r].shape) = Pass

SameTenant(q, r) ==
    /\ req[q] # NoInput /\ req[r] # NoInput
    /\ req[q].key \in Keys /\ req[r].key \in Keys
    /\ Tenant(q) = Tenant(r)

IsRecordOf(r, e) == e.by = r /\ e.ev \in {"success", "failure"}
Recorded(r) == \E i \in DOMAIN trail : IsRecordOf(r, trail[i])

\* Emit before ack (handler.go step 6): a tool result reaches the caller only after
\* Control ran the call and then the success was durably recorded, whichever of the
\* sink, the connection, the forward or the daemon fails in between.
AckMeansRecorded ==
    \A r \in Requests : AnsweredCall(r) /\ reply[r].body = "result" =>
        \E i, j \in DOMAIN trail :
            /\ i < j
            /\ trail[i] = [ev |-> "ran", by |-> r]
            /\ trail[j] = [ev |-> "success", by |-> r]

\* The line is held across forward and emit: when a tenant's call leaves for Control,
\* every call of that tenant that left before it has its record in the trail, or was
\* answered 500 because the record failed.
RecordedBeforeNext ==
    \A i, j \in DOMAIN trail :
        (/\ i < j
         /\ trail[i].ev = "sent" /\ trail[j].ev = "sent"
         /\ SameTenant(trail[i].by, trail[j].by))
        => LET q == trail[i].by
           IN  \/ \E m \in (i + 1)..(j - 1) : IsRecordOf(q, trail[m])
               \/ Answered(q) /\ reply[q].status = 500

\* The durable-first refusals (recordRefusal): a caller sees a ceiling 429, a policy
\* 403 or a forward 502 only when the refusal is in the trail.
RefusalsRecorded ==
    \A r \in Requests :
        (/\ Answered(r)
         /\ \/ reply[r] \in {writeRPCError(429), writeRPCErrorWithID(502)}
            \/ reply[r] = writeRPCErrorWithID(403))
        => Contains(trail, [ev |-> "failure", by |-> r])

\* Deny by default before Control is touched: what Control is asked to create or to
\* run is only what an authenticated, validated, allowlisted and permitted call asks.
DeniedNeverForwarded ==
    LET admitted == {r \in Requests :
                       /\ req[r] # NoInput
                       /\ PreAuth(req[r].shape) = Pass
                       /\ req[r].key \in Keys
                       /\ IsCall(req[r].shape)
                       /\ req[r].shape.tool # "unknown"
                       /\ <<req[r].key, req[r].shape.tool>> \in Permitted}
    IN  /\ sessions \subseteq {Hint(r) : r \in admitted}
        /\ \A i \in DOMAIN trail : trail[i].ev \in {"sent", "ran"} => trail[i].by \in admitted

\* The logon trail (emitLogonOnce): a connection's logon is recorded at most once,
\* and its latch is up exactly when it has been recorded or is being recorded, so a
\* lost record is tried again by the connection's next request.
LogonTrail ==
    \A c \in Conns :
        /\ logons[c] <= 1
        /\ latch[c] <=> \/ logons[c] = 1
                        \/ \E r \in Requests : pc[r] = "logon" /\ req[r].conn = c

\* No state outlives a request: once every request has returned, on whatever path,
\* the ceiling counts nobody and every line is empty.
NothingOutlivesRequests ==
    (\A r \in Requests : ~InService(r)) =>
        /\ DOMAIN counts = {}
        /\ \A t \in Tenants : line[t] = <<>>

\* Every request is answered and releases what it holds, also when it waits behind a
\* cancelled or failing one, unless the daemon stops.
EveryRequestAnswered ==
    \A r \in Requests : pc[r] = "arrived" ~> (pc[r] = "done" \/ stopping)

===============================================================================
