# ocu-mcp-gateway: a TLA+ verification project

The gateway is one Go daemon (`cmd/ocu-mcp-gatewayd`). MCP clients send it
JSON-RPC over HTTP; it authenticates the caller, applies a ceiling, validates
and authorizes the call, serializes the calls of a tenant, forwards each to the
Control service, writes a durable audit record, and only then answers. This
project models those parts in TLA+, model-checks them with TLC on small
instances, and proves with TLAPS, for instances of any size, every safety
property that the passing runs check and that the serializer implements its
abstract specification. File names below are relative to the repository; `PROJECT.json` maps
every definition to the lines it stands for.

## 1. Inventory

| Component | State | Operations | What is hard | What makes it correct |
|---|---|---|---|---|
| Serializer (`internal/serialize`) | map session -> gate; per gate `tickets`, `serving`, `depth`, a condition variable | `Acquire`, its release closure | a gate is deleted from the map when its line empties and created again while callers hold pointers to it; `Broadcast`/`Wait`; double release | one call of a session at a time, FIFO, bounded, nobody sleeps through its turn, the map shrinks again |
| Ceiling (`internal/quota`) | map key -> in-flight count | `Acquire`, release closure | double release, self-cleaning map | counts exact, limit holds |
| Audit (`internal/audit`) | sequence counter (memory), file, `closed` flag | `Emit`, `EmitAuthn`, `Publish`, `Close`, boot | number taken before the sink's mutex; short writes, failed fsyncs; crash, power loss, restart over the same file | an acknowledged record survives; nothing is appended after a line in doubt |
| Ingress (`internal/ingress`) | one goroutine per request; logon latch per connection | `ServeHTTP` with some twenty early returns | concurrent requests, disconnects, shutdown while handlers run, failures of every step | emit before ack, refusals recorded, nothing denied reaches Control, everything acquired is released, every request is answered |
| Forwarder (`internal/forward`) | the policy and the dial material, fixed at boot; the connections its HTTP clients leave open | guarded construction; `Forward` (create hop, then exec or status hop); `Destroy` | an answer that is lost after the command has left; no client timeout; replies that are late, over-long or broken; connections kept by a client nobody holds | what is reported is what Control said; a session per tenant and chat; every open connection has a reason |
| Service credential (`forward/credential.go`, `dial.go`) | the credential file, rotated from outside | probe at boot, `Token` | a rotation or a blank file between two calls or two hops | a rotation takes effect with the next call at the latest, nothing goes out anonymously |
| Provisioning (`config/provisioning.go`, `forward/session.go`) | the policy, fixed at boot | `LoadProvisioningPolicy`, `validate`, `clampExecTimeout` | two spellings of one field, limits, an unset value against a zero | a session is provisioned as the operator wrote it, or the daemon does not boot |
| Tool projection (`internal/projection`, `forward/http.go`) | the guest's file while a script runs | `Project`, the scripts of `create_file`, `str_replace`, `view`; `projectCallToolResult` | a file operation that fails or a kill between two steps; line ends, overlaps, unencodable text; sizes that must add up; a shell line's exit read as its first command's | what a caller is told about a file is what is on disk; a picture arrives whole or is said to be cut; a failure stays an error, a cut is announced, runes stay whole |
| Key ring (`internal/boot`, `config/loader.go`, `keyset`, `auth`) | the live key set behind a lock | `Load`, `Refresh` loop, `Authenticate` | a refresh that fails, a resolution that races one, revocation, expiry | load before bind, last good set, bounded revocation window |
| Authorization (`internal/authz`, `ingress/resolveonly.go`) | the policy, fixed at boot | `Load`, `CompileResolveOnly`, `Decide` | traversal, prefix boundaries, the flag against the document | a call is judged by where its path lands and by the document before the flag |
| Profile validation (`internal/profile`) | none | envelope, size, base and strict passes | their order, which answer carries the id | see ingress |

Not modelled: the readiness endpoint and the health-check client (stateless; the
listener is bound only after `Load`, so a probe that is answered is answered
200), operator diagnostics (logging), flag parsing, the OCSF field layout, the
JSON schemas themselves, TLS and X.509, what a `bash_tool` line does in the
guest, generated protobuf code, deployment files and maintenance scripts.

Interactions. `ServeHTTP` calls, in this order: header checks, authentication
(the key ring), the logon record (audit), the ceiling, the bounded read, the
validation passes, the policy (authorization), the serializer, the forwarder,
and the audit emitter, then its deferred releases in reverse order. Shared state
is the serializer's and the ceiling's maps, the key set, the sink's mutex and
the emitter's counter. A request's context is cancelled by a disconnect or by
the daemon's shutdown; it cancels hops and emits but not `serialize.Acquire`.

## 2. Modules

| Module | Models | Notes |
|---|---|---|
| `SessionLine` | what the serializer promises: one bounded FIFO line per session | abstract specification |
| `Serializer` | `serialize.go` at the grain of its critical sections | implements `SessionLine` |
| `SerializerProofs` | theorems about `Serializer` | TLAPS |
| `Ceiling` | `ceiling.go` | |
| `CeilingProofs` | theorems about `Ceiling` | TLAPS |
| `AuditSpine` | `emitter.go`, `authn.go`, `filesink.go` with crashes | |
| `AuditSpineProofs` | theorems about `AuditSpine` | TLAPS |
| `Admission` | what the handler decides from a request alone | operators |
| `Gateway` | `ServeHTTP` over `Ceiling`, `SessionLine`, the sink and Control | composition, INSTANCE |
| `GatewayProofs` | theorems about `Gateway`, over those of `CeilingProofs` | TLAPS |
| `KeyRing` | `boot.go`, `loader.go`, `keyset.go`, the refresh loop of `main.go` | |
| `KeyRingProofs` | theorems about `KeyRing` | TLAPS |
| `Authz` | `policy.go`, `decide.go`, `resolveonly.go` | algorithm against a reference |
| `AuthzProofs` | theorems about `Authz` | TLAPS |
| `ExecResult` | the result projection of `forward/http.go` | operators, against a reference |
| `ToolCall` | a tool call from its arguments through the guest script of `projection.go` to its result | extends `ExecResult` |
| `ToolCallProofs` | theorems about `ToolCall` and `ExecResult` | TLAPS |
| `Provisioning` | the policy document, the admission checks, the wire bodies | operators |
| `Forwarder` | boot of the F5 leg, `Forward` and `Destroy` on the wire | extends `Provisioning` |
| `ForwarderProofs` | theorems about `Forwarder` and `Provisioning` | TLAPS |
| `MC*` | the instances TLC checks | |

How state and actions correspond to the code:

* **Serializer.** A gate is a heap object with an identity; `gates` is the map,
  `myGate` and `myTicket` the locals a caller and its release closure keep. Each
  region between `Lock` and `Unlock` (or `cond.Wait`) is one action:
  `Acquire` (with the parallel opt-in `AcquireParallel` and the bound `Refuse`),
  `Recheck` (a woken waiter tests its turn), `Release` (advance, broadcast,
  self-clean; a second call changes nothing). `Return` drops the caller's frame;
  an address is reused once nothing points to it, as after a collection.
* **Ceiling.** `slot` is what the release closure captures: the key and whether
  it has run.
* **AuditSpine.** `AssignSequence` is the atomic increment, before validation
  and before the mutex. Under the mutex a line is written (`WriteLine`, or
  `WriteFails` with nothing or a torn line) and fsynced (`Sync`, `SyncFails`);
  every failure seals the sink. An fsync confirms every chunk before it. `Exit`
  keeps what the operating system has; `PowerLoss` keeps a prefix that includes
  all that was confirmed. Records carry the process life as a history value.
* **Gateway.** `pc` follows `ServeHTTP`; an action ends where the handler next
  touches shared state, so an answer that needs a durable record first passes
  through `record`, where the emit succeeds or turns the answer into a 500. The
  sink is what an emit sees of `AuditSpine`: open, sealed, or (no `-audit-sink`)
  never open. Control is external: it runs a command any time after the request
  left, also after the gateway gave up. `trail` is a history of what was sent,
  run and recorded.
* **KeyRing.** The refresh loop is split between reading the file (`Tick`) and
  the swap (`Refresh`), a resolution between obtaining the set (`Provide`) and
  comparing (`Resolve`). Time advances only when no refresh is due and no
  resolution is under way: reading a local file and hashing a bearer take far
  less than a refresh interval.
* **Authz, ExecResult.** One call per behaviour, compared with a definition that
  shares nothing with the code's algorithm: `Landing` walks a path from its end;
  `Shell` reads a line by the rules of `sh`. `ExecResult` leaves out command
  substitution, which the code treats as an operator, and the directory of a
  program's path. A stream may hold broken runes; what `WholeRunes` says of the
  end of a text is said of streams of whole ones.
* **ToolCall.** A file is its kind and its text, a sequence of units among which
  a carriage return, a line feed and half a surrogate pair (JSON can carry it,
  UTF-8 cannot) are told apart. A script is cut where the file changes:
  `CreateOpen`, `CreateCut`, `CreateWrite`; `ReplaceRead`, `ReplaceWrite`,
  `ReplaceCut`; `View`. Any of them may fail in the guest's file system, a write
  half way, and `Killed` ends the script at any point, inside a write too: what a
  write had flushed stays. `before` and `fault` are
  history. A picture is the sizes of its encodings in the order `render_image`
  tries them; they meet the real budget, the base64 growth, the longest and the
  shortest path line and the real stream ceiling.
* **Forwarder.** `stage` follows `serve` through the options, the credential, the
  provisioning policy and the dial; any refusal exits. A call then follows
  `pc`, `hop` and its local `token`: `Enter` (endpoint, token, admission), `Send`
  (a client and a connection of its own per hop), `Receive` (bounded read,
  status, decode, next hop or result), with `DialFails` and `RoundTripFails` at
  any point and the caller's departure among their causes. Control answers when
  and as it likes (`Answer`), also after the gateway gave up; the credential file
  changes at any time (`Rotate`). `net/http` is modelled by what it does with a
  connection: kept idle after a body read to its end, closed otherwise. `wire`
  and `held` are histories. `Destroy` is modelled although the daemon does not
  call it yet; `Route` is a stub that fails.

## 3. Runs

Passing runs:

| Run | Instance | Properties |
|---|---|---|
| `serializer` | 4 callers, 2 sessions, 2 reused gates, with fairness | `TypeOK`, `LineInv`, `MutualExclusion`, `SelfCleaning`, `HeadIsAwake`, `ImplementsSessionLine`, `EveryCallServed` |
| `ceiling` | 4 requests, 2 keys, limit 2 | `TypeOK`, `CountsExact`, `WithinLimit` |
| `audit` | 3 emitters, 2 lives, 3 numbers a life | `TypeOK`, `AckedIsDurable`, `NothingAfterUnconfirmed`, `NoDuplicateRecord`, `BoundedReordering` |
| `gateway_calls` | 2 calls of one tenant, by one key or two, over 2 connections, with fairness; ceiling 1, a line of two | `TypeOK`, `AckMeansRecorded`, `RecordedBeforeNext`, `RefusalsRecorded`, `EveryRequestAnswered` |
| `gateway_shapes` | 2 requests of every kind over 2 connections, 3 kinds of caller; ceiling 2, a line of one | `RefusalsRecorded`, `DeniedNeverForwarded`, `LogonTrail`, `NothingOutlivesRequests` |
| `keyring` | 2 resolutions, good, foreign, empty and broken files | `ServesLastGoodSet`, `RevocationWindow`, `AdmittedIsCurrent` |
| `authz` | paths of up to 4 segments, 7 documents | `DecidesAsIntended`, `BootedPolicyResolves` |
| `toolcall` | lines of up to 5 units (3 with a command word that holds a `=`), every reply over 8 streams; edits of texts of up to 4 letters, pictures around the budget | `ErrorsStayVisible`, `NeverSilent`, `TruncationAnnounced`, `WholeRunes`, `FileAsAsked`, `PictureShown` |
| `forwarder` | 28 deployments, 2 calls at once, 5 kinds of call, 2 tokens | `ProvisionedAsWritten`, `TokenIsFresh`, `NeverFabricated`, `SessionsApart`, `ConnectionsAccounted` |

Why the bounds suffice. The serializer needs one running, one woken and one
parked caller and a newcomer on one session, and a second session to reuse a
freed gate: four callers. Two lives of the daemon are enough for every statement
that relates a restart to what was before it, and three emitters for one in the
mutex and two behind it. Two calls of one tenant give a running call and one that
is queued behind it, refused at the ceiling or following on its connection; what
they show of two the proofs of section 4 show of any number. A line of one place,
in `gateway_shapes`, gives the refusal of a full line, and a ceiling the two
requests stay under gives every early return a slot to give back. With one refresh interval of a few ticks the key ring
reaches several failed refreshes in a row. Paths of four segments reach a
traversal out of and back into a two-segment prefix; lines of five units hold
two commands with an operator and a quoted part. Texts of four letters hold two
occurrences of a text of two, apart or overlapping, and an edit that shortens or
lengthens the file. Two calls of two hops each are enough for a token read by one
call to meet a rotation seen by the other, and every option and every field of the
policy has a deployment that gets it wrong. `MaxTickets`, `MaxSeq`,
`MaxLives` and `MaxTime` bound counters that are unbounded (or 64 bits wide) in
the code.

Deadlock is checked in the serializer, the ceiling, the gateway (whose `Quiet`
step stands for a daemon with nothing to serve) and the key ring. It is off where
a bounded model ends: the audit file after its last life, `Authz` and
`ToolCall` after their one call, `Forwarder` after its last (or at a boot that is
refused).

Fairness. In `Serializer`, a woken goroutine gets the mutex (`sync.Mutex` hands
over to starving waiters) and a handler's deferred release runs; the whole run
`serializer` is under that specification. In `Gateway`,
the goroutine of a request takes a step when it can. For a hop this includes that
Control answers or the connection breaks: the code sets no client timeout, so
`EveryRequestAnswered` holds under exactly that assumption, and says nothing of a
hop that never ends (`internal/forward/http.go:432`): everyone behind it waits.

### Where the code and its documents disagree

Three runs check a sentence of a comment, and TLC finds a behaviour of the code
that does not satisfy it; `PROJECT.json` quotes the lines.

| Run | Property | Behaviour |
|---|---|---|
| `audit_torn_tail` | `AckedIsReadable` | a restart opens the file for append after a torn last line; the next record, fsynced and acknowledged, continues that line and cannot be read |
| `keyring_last_key` | `RevokedWithinInterval` | Control revokes the last key; the set it renders is empty, the loader refuses it, and every later refresh keeps the revoked key (if Control renders no empty set, the old file stays, to the same effect) |
| `forwarder_token` | `TokenPerPresentation` | the file is rotated between the two hops of a call; the second presents the token read for the first (`internal/forward/http.go:271`), although `credential.go:20-23` says the file is read "PER PRESENTATION" and a revoked token "is never presented from memory" |

### Observations

Met while modelling, and without a run of their own. The passing properties set
these cases apart by name, or say what still holds of them. (`RevocationWindow` likewise
allows one more interval for every refresh that failed.)

* *Order of records.* Sequence numbers are taken before the sink's mutex
  (`internal/audit/emitter.go:70`), so lines may be in another order than their
  numbers, against `filesink.go:37`. The counter starts from zero at every boot
  over the same file, against `envelope.go:100`. `NoDuplicateRecord` is therefore
  stated of the pair of process life and number, and `BoundedReordering` says how
  far apart lines and numbers can be: a line overtakes only emits in flight.
* *A record the emitter refuses.* The correlation of a success record is the one
  Control replied with; over its bound, `Envelope.Validate` refuses the record
  (`envelope.go:115`), so a command that ran is answered 500 at every attempt with
  the sink open and sound.
* *Calls with no record.* A call refused because its line is full is answered 429
  with no emit (`internal/ingress/handler.go:312`), and an unadvertised tool on a
  200 with none (`:262`), against "Every terminated request with a validated
  identity is recorded" (`CONSTITUTION.md:614`) and "A 200 therefore always means
  the action took effect" (`:616`). A command that ran whose client has left, or
  whose sink refuses, is answered 500 and leaves no record. `RefusalsRecorded`
  names the three refusals that are recorded; `AckMeansRecorded` speaks of results.
* *A 502 after the command left.* `internal/forward/http.go:372` says "The command
  did NOT run"; the model's Control may have run it, or may run it after the next
  call of its session has started. `RecordedBeforeNext` is therefore stated of
  when calls leave the gateway and not of when Control runs them.
* *The serializer's key* is the tenant (`handler.go:312`); `CONSTITUTION.md:674`
  says the session hint. Two chats of a tenant wait for each other.
* *The id.* A request with an id and no version header is refused without its id
  (`handler.go:214`), against `CONSTITUTION.md:448`.
* *The exit of a shell line.* The quote scan knows no backslash and the fields are
  split inside quotes (`internal/forward/http.go:685,722`), so on lines with an
  escaped quote or blank, or a quoted assignment, a failure can be relayed as
  "No matches found". The same happens when the command word holds a `=`: the
  comment says "leading VAR=value env assignments" are skipped (`:679`), the code
  skips every token with a `=` (`:686`), so of `./a=1 grep` it takes `grep`.
  `ErrorsStayVisible` excludes exactly the lines that are not `Plain`.
* *Over-long replies.* "an over-large reply is a fail-closed ErrForwardFailed"
  (`http.go:406`), but what is cut may still decode (JSON followed by white space
  beyond the bound), and a 2xx to a destroy is not decoded at all (`:505`): both
  succeed. In the model a cut reply decodes or not, as it likes, and `NeverFabricated`
  counts what the code counts.
* *Authorization.* The prefix `/` grants the root and nothing below it
  (`internal/authz/decide.go:111`), and a document's own profile named
  `resolve-only` takes the place of the flag's (`ingress/resolveonly.go:98`).
  `DecidesAsIntended` sets both documents apart; `BootedPolicyResolves` does not.
* *Connections.* A fresh client per hop is built "so the forwarder holds no
  long-lived connection state (no state outlives a request)"
  (`internal/forward/http.go:410`), but each hop whose reply is read to its end
  leaves an idle connection in the pool of a transport nobody can reach any more,
  with no idle timeout: it stays until Control closes it. `ConnectionsAccounted`
  says which connections are open and why; it does not say they go away.
* *Provisioning.* `forward/session.go:101` says a create with `DefaultDeny=false`
  "is refused" and `:280` that the upstream is scoped to the mount; `validate`
  checks neither. Destinations are compared as strings (`:327`), so `/out` and
  `/out/` pass as two mountpoints. The trust profile and the resource caps are
  checked and then have no field on the create body, and an explicit pids limit
  of 0, which `:122` says the server reads as no limit, passes.
* *The session hint* is the tenant, a slash and the chat (`session.go:271`), and
  the key set's schema lets a tenant hold a slash: tenant `a` with chat `b` and
  tenant `a/b` without a chat have one hint. `SessionsApart` sets apart tenants
  of which one begins the other.
* *The file tools.* `internal/projection/projection.go:37` says a failing
  `create_file` writes "NOTHING", and `:69` that a failing `str_replace` "leaves
  the file unchanged"; the file is created and cut before it is written, or
  written over before it is cut, so a failing write, a kill at the timeout or (for
  `create_file`) a text with no encoding leaves something else. `FileAsAsked` says
  what: the file as it was, or a beginning of what was to be written, over the old
  text in an edit and alone in a create. `:68` says an edit is "never applied
  ambiguously"; occurrences that overlap are counted once. A file with carriage
  returns has its line ends rewritten by any edit.
* *The image frame.* A path with a line feed breaks the two-line frame of the
  sentinel (`projection.go:171`, `http.go:591`), and the picture is relayed as
  base64 text. `PictureShown` is stated of paths of one line.
* *The connection id* of an audit record is always empty: `connIDFrom` reads a
  context key that nothing sets.

## 4. Proofs

Each `...Proofs` module extends the component's module and proves its theorems
for every value of the constants. A safety property is proved from an inductive
invariant; the proof has one step per action and, under it, one per conjunct the
action can disturb. `PROJECT.json` lists the theorems with the property each
states.

### Assumptions

The assumptions on constants are named and stand in the module that declares
them; TLC evaluates them in every run.

| Assumption | Says | Why the code justifies it |
|---|---|---|
| `SerializerAssumption` | the bounds are numbers; "no gate", "no session" are none | `maxDepth` is an `int`; the markers stand for `nil` and an empty frame |
| `CeilingAssumption` | the limit is an integer, the holders are finitely many, the markers are no keys | `limit` is an `int`; a process has finitely many goroutines |
| `AuditAssumption` | the bounds are naturals, the emitters finitely many | they only bound the counters; a process has finitely many goroutines |
| `GatewayAssumption` | a request names a connection, a key or none, and a shape; the policy speaks of keys and tools; the requests are finitely many | the fields of a request that `ServeHTTP` reads |
| `KeyRingAssumption` | the interval is positive; what Control renders is a set of records | `main.go` refuses an interval that is not positive; the loader decodes records |
| `ForwarderAssumption` | calls, timeouts and mounts have their types | they are Go values that have been decoded |
| `ExecResultAssumption`, `ToolCallAssumption` | the cap is positive; commands, replies, texts and pictures have their types; a picture has an encoding | `maxExecContentBytes` is a positive constant; Go and JSON values; `render_image` tries a fixed, non-empty list |
| `AuthzAssumption` | `resolve_scope` is advertised; a document's prefixes are absolute paths; the flag names callers | the tool table; the schema's pattern `^/` |

### The inductive invariants

* **`Serializer`.** `LineInv`. Mutual exclusion needs that a running caller holds
  the ticket being served, that tickets of a gate are distinct, and that two
  callers of a session hold tickets of the same gate. The last needs that a gate
  leaves the map only when no ticket is outstanding, which needs that `depth`
  counts the outstanding tickets, and for `HeadIsAwake` that each of them has a
  holder: `TicketsHeld` and `GatesLive`. `SelfCleaning` follows by counting.
* **Refinement** (`LineRefinement`). The line of a session maps to its gate's
  callers in the order of their tickets; the mapped initial state is one of
  `SessionLine`, and `StepSimulated` shows, action by action, that a step of the
  serializer is a step of the line or a stutter. It uses `LineInv`: without it a
  gate could be in two lines, or a line have a hole.
* **`Ceiling`.** `CeilingInv`. The code tests the count and never the requests, so
  `WithinLimit` needs `CountsExact`, which says they agree; a count in the map is
  positive, so dropping it at zero loses nothing.
* **`AuditSpine`.** `SpineInv`. That an acknowledged record survives needs that the
  emit between `Write` and `Sync` is alone and its line is the last (`Locked`),
  that numbers of a life are distinct and what is written has one the counter has
  passed (`Numbered`, `Written`), and that an open sink has no line of its life in
  doubt but that one (`Confirmed`). `BoundedReordering` counts: the later lines with
  a smaller number and the emits that have yet to write one were together in flight
  when the line was written, beside its own emit (`Reordered`).
* **`KeyRing`.** `RingInv`. The window needs that no tick is missed (`OnTime`), what
  the live set and the set in flight still hold and since when the file has not
  (`KeysWindow`, `LoadingWindow`: a refresh that read just before a revocation
  stores the old set just after it), and that a resolution holds the live set or
  one swapped out at this moment (`SnapCurrent`). `AdmittedIsCurrent` is an action
  property, proved from the same invariant.
* **`Forwarder`.** `ForwardInv`: the policy served is the one the document loads to;
  a call under way holds a token that was in the file as one of its hops was prepared
  (`Seen`) and a settling reply to every hop before its own (`Tracked`, `Answered`); and a message on the wire is what was
  then in force (`Faithful`). `ProvisionedAsWritten` adds what loading a document
  does to its two spellings, its limits and its timeout, and `SessionsApart` that
  two hints are equal only if tenant and chat are, or one tenant begins the other.
* **`Gateway`.** `HoldInv` (what a handler holds at each point of `ServeHTTP`, the
  lines, and `CeilingInv` of the ceiling inside), `LogonInv`, `ForwardedInv` and
  `TrailInv`. The last says what the trail holds for every answer given or waiting
  for its record, and that a call that has left is recorded, or was answered 500,
  or still holds its line: so the next of its tenant to leave finds it recorded.
* **`ToolCall`, `ExecResult`.** `ReqInv` and `ResultInv` say that a result is the
  projection of a reply; `ViewInv` what `view` has replied, and `FileInv` what is
  on disk at each cut of a script against what was there before, from which every
  failure and every kill leaves one of the texts `FileAsAsked` allows. The rest is about
  operators: where `boundContent` cuts, what the encodings cost, that an edit with
  one occurrence is the one asked for.
* **`ErrorsStayVisible`.** On a plain line the quote scan and the shell's reader
  have the same quotes open after every unit (`QuotesAgree`), so a line taken for a
  single command has no operator the shell acts on; nothing before the command the
  code finds is quoted (`CleanBefore`), so up to it the code's fields are the
  shell's words (`GrepDecides`), and the first that is neither an assignment nor a
  launcher is the same.
* **`Authz`.** `PolicyInv` says that a booted policy is compiled from an accepted
  document and a decision is one of `Decide`. That the decision is the intended one
  is a statement about paths of any length: `Clean`, which walks a path from its
  beginning with a stack, and `Landing`, which walks it from its end counting what
  is to be dropped, arrive at the same place.

Statements about recursive functions over data of any length (`Clean`, `Landing`,
the quote scan, the shell's reader) are proved without an induction rule, which the
installed provers cannot instantiate: the naturals are well founded, so a false
statement would be false at a least length (`LeastExists`, `Climb`), and that length
follows from the one before. The recursion itself is justified in the same way: a
function that satisfies it exists (`WalkExists`), so the one `CHOOSE` takes does too.

### Only model-checked

* `EveryCallServed` and `EveryRequestAnswered`: liveness under fairness, and with
  it `ENABLED`, are outside the prover's reach.
* The three violations of section 3: TLC's counterexample is the result.

## 5. Plan

1. Done: every component of the inventory that keeps state, with its runs, and the
   proofs of section 4.
2. Next, what the proofs could say more: the safety part of the composition of
   `Gateway` with the detailed `Serializer` (it uses `SessionLine`, which
   `LineRefinement` justifies), and of its sink with `AuditSpine`.
3. Left out for its cost: `Gateway` over the key ring's live set. A request uses
   the set once, at authentication, so the product of the two modules adds states
   and no interaction that `KeyRing` with its concurrent resolutions lacks.
