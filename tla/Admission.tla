------------------------------ MODULE Admission ------------------------------
(***************************************************************************)
(* What the ingress handler decides from a request alone                   *)
(* (internal/ingress/handler.go ServeHTTP with response.go, handshake.go   *)
(* and internal/profile): which requests it answers by itself, with which  *)
(* status, whether the answer carries the request id, and whether its body *)
(* is a JSON-RPC result, a JSON-RPC error or nothing.                      *)
(*                                                                         *)
(* A request is what the handler tells apart: its HTTP method, the         *)
(* MCP-Protocol-Version header, the Origin header, the class of its body,  *)
(* and for a tools/call the tool it names.                                 *)
(***************************************************************************)

\* The classes of body.  tooLarge: over the 512 KiB transport cap.  unreadable: the
\* read fails.  batch: an array or another JSON value that is no object.  notJSON.
\* notification: no id, a null id or a notifications/* method.  overSize: over the
\* ceiling of a tools/call.  otherMethod: off the inbound allowlist.  badCall: no
\* "2.0" marker, no method that is a string, no params with a tool name, or arguments
\* that are no object.
Bodies == {"tooLarge", "unreadable", "batch", "notJSON", "notification", "initialize",
           "toolsList", "overSize", "otherMethod", "badCall", "call"}

\* exec: bash_tool or a file tool with an argv projection.  scope: resolve_scope.
\* bare: an advertised tool whose arguments project to no argv (a bash_tool with no
\* command).  unknown: a name the gateway does not advertise.
Tools == {"exec", "scope", "bare", "unknown"}

Shapes == [method : {"POST", "other"},
           version : {"pinned", "absent", "other"},
           origin : {"allowed", "disallowed"},
           body : Bodies,
           tool : Tools]

Replies == [status : {200, 202, 400, 401, 403, 405, 413, 429, 500, 502},
            id : BOOLEAN,
            body : {"none", "result", "error"}]

\* The handler does not answer yet: the request goes on.
Pass == [status |-> 0, id |-> FALSE, body |-> "none"]

\* The error envelope, with the echoed request id or without.
rpcErrorBody(status, hasID) == [status |-> status, id |-> hasID, body |-> "error"]

\* writeRPCError is the id-less error writer, writeRPCErrorWithID the other one.
writeRPCError(status) == rpcErrorBody(status, FALSE)
writeRPCErrorWithID(status) == rpcErrorBody(status, TRUE)
writeRPCSuccess == [status |-> 200, id |-> TRUE, body |-> "result"]
Accepted == [status |-> 202, id |-> FALSE, body |-> "none"]

\* The header checks before authentication.
PreAuth(q) ==
    IF q.method # "POST" THEN writeRPCError(405)
    ELSE IF q.version = "other" THEN writeRPCError(400)
    ELSE IF q.origin = "disallowed" THEN writeRPCError(403)
    ELSE Pass

\* The first check that answers wins.
Then(a, b) == IF a # Pass THEN a ELSE b

\* The bounded read of the body.
readBounded(q) ==
    CASE q.body = "tooLarge" -> writeRPCError(413)
      [] q.body = "unreadable" -> writeRPCError(400)
      [] OTHER -> Pass

\* The profile's verdict on a body: none, or the reason class of a deny.
ValidateSingleMessageEnvelope(q) ==
    CASE q.body = "batch" -> "batching"
      [] q.body = "notJSON" -> "baseSchema"
      [] OTHER -> "none"

enforceSize(q) == IF q.body = "overSize" THEN "overSize" ELSE "none"

\* The strict pass over marker, method and params.
ValidateBase(q) ==
    CASE q.body = "otherMethod" -> "methodNotFound"
      [] q.body = "badCall" -> "baseSchema"
      [] OTHER -> "none"

\* The size comes before the base pass; a tools/call has no overlay definition.
Validate(q) == IF enforceSize(q) # "none" THEN enforceSize(q) ELSE ValidateBase(q)

\* The answer to a deny.  The writer echoes the id that the body yields, if it does.
writeProfileDeny(reason, hasID) ==
    IF reason = "none" THEN Pass
    ELSE rpcErrorBody(IF reason = "overSize" THEN 413 ELSE 400, hasID)

\* Only the advertised tools go on; any other name is answered like a tool with no
\* projection, on a 200.
allowedToolNames == Tools \ {"unknown"}

\* The checks from the bounded read to the tool allowlist, in the handler's order.
AfterRead(q) ==
    Then(Then(readBounded(q), writeProfileDeny(ValidateSingleMessageEnvelope(q), FALSE)),
         IF q.body = "notification" THEN Accepted
         ELSE IF q.version = "absent" /\ q.body # "initialize" THEN writeRPCError(400)
         ELSE IF q.body \in {"initialize", "toolsList"} THEN writeRPCSuccess
         ELSE Then(writeProfileDeny(Validate(q), TRUE),
                   IF q.tool \notin allowedToolNames THEN writeRPCErrorWithID(200) ELSE Pass))

\* A tools/call that reaches authorization.
IsCall(q) == q.body = "call"
===============================================================================
