------------------------------- MODULE KeyRing -------------------------------
(***************************************************************************)
(* The caller keys: load-before-bind (internal/boot/boot.go, serve of      *)
(* cmd/ocu-mcp-gatewayd/main.go), the boot-set loader                      *)
(* (internal/config/loader.go), the refresh loop, and the resolution of a  *)
(* bearer against the live set (internal/auth/skkey.go).                   *)
(*                                                                         *)
(* Control renders the boot-set file; it is outside the repository and may *)
(* leave the file missing, malformed or scoped to another deployment.      *)
(* Time is counted in units so long that a refresh or a resolution, once   *)
(* begun, ends within one.                                                 *)
(***************************************************************************)
EXTENDS Integers, FiniteSets

CONSTANTS
    Callers,        \* requests that authenticate
    Ids,            \* key ids, each the key of one bearer
    Deployment,     \* this gateway's -deployment
    Foreign,        \* another deployment
    Renders,        \* the sets of records Control may render
    Interval,       \* -boot-set-refresh
    MaxTime,        \* bound on time
    NoSet,          \* the nil KeySet
    NoId            \* no key id

ASSUME KeyRingAssumption ==
    /\ Interval \in Nat \ {0} /\ MaxTime \in Nat
    /\ Deployment # Foreign
    /\ NoId \notin Ids
    /\ NoSet \notin Renders
    /\ \A f \in Renders : f \subseteq [id : Ids, deployment : {Deployment, Foreign}, expires : Nat]

VARIABLES
    now,        \* the clock
    file,       \* the boot-set file: the rendered records, NoSet if it does not parse
    since,      \* history: id -> when a file that reads last held it
    stage,      \* off, loaded, bound
    keys,       \* Sequencer.keys, the live set
    tick,       \* when the refresh ticker fires next
    loading,    \* the set the refresh loop has read and not yet stored
    pcRefresh,  \* idle, read
    fails,      \* history: refreshes failed since the last success
    snap,       \* the set each Authenticate got from the provider
    pc,         \* where each Authenticate is
    bearer,     \* the id of the bearer it carries
    result      \* the key id it resolved to, NoId for ErrUnauthenticated

procVars == <<stage, keys, tick, loading, pcRefresh, fails>>
callVars == <<snap, pc, bearer, result>>
vars == <<now, file, since, stage, keys, tick, loading, pcRefresh, fails, snap, pc, bearer, result>>

Has(set, id) == \E rec \in set : rec.id = id

\* keyset.Validate: the file parses and meets the schema, which asks for a record.
Validate(f) == f # NoSet /\ f # {}

\* FileKeySetLoader.Load: a file that does not read or validate, or that holds a single
\* foreign record, is refused whole.
LoadFile(f) ==
    IF ~Validate(f) \/ \E rec \in f : rec.deployment # Deployment
    THEN NoSet ELSE f

\* Mutant: the expiry is not compared.
ResolvesExpired(set, id, t) == \E rec \in set : rec.id = id /\ rec.deployment = Deployment

\* staticKeySet.Resolve at time t.
Resolves(set, id, t) ==
    \E rec \in set : rec.id = id /\ t <= rec.expires /\ rec.deployment = Deployment

Init ==
    /\ now = 0
    /\ file \in Renders \cup {NoSet}
    /\ since = [id \in Ids |-> 0]
    /\ stage = "off" /\ keys = NoSet
    /\ tick = 0 /\ loading = NoSet /\ pcRefresh = "idle" /\ fails = 0
    /\ snap = [c \in Callers |-> NoSet]
    /\ pc = [c \in Callers |-> "idle"]
    /\ bearer = [c \in Callers |-> NoId]
    /\ result = [c \in Callers |-> NoId]

-------------------------------------------------------------------------------
(* Control and the clock *)

\* An id that leaves the file, or whose file breaks, is out of it from now on.
Render(f) ==
    /\ f # file
    /\ file' = f
    /\ since' = [id \in Ids |-> IF file # NoSet /\ Has(file, id) /\ (f = NoSet \/ ~Has(f, id))
                               THEN now ELSE since[id]]
    /\ UNCHANGED <<now, procVars, callVars>>

\* A refresh that is due, and a resolution that has begun, end before time goes on.
Advance ==
    /\ now < MaxTime
    /\ stage # "off" => now < tick /\ pcRefresh = "idle"
    /\ \A c \in Callers : pc[c] = "idle"
    /\ now' = now + 1
    /\ UNCHANGED <<file, since, procVars, callVars>>

-------------------------------------------------------------------------------
(* Boot *)

\* Sequencer.Load; serve returns an error, and nothing is bound, when it fails.
Load ==
    /\ stage = "off"
    /\ LoadFile(file) # NoSet
    /\ keys' = LoadFile(file)
    /\ stage' = "loaded"
    /\ tick' = now + Interval
    /\ fails' = 0
    /\ UNCHANGED <<now, file, since, loading, pcRefresh, callVars>>

\* The listener is bound, once the rest of serve has been built.
Bind ==
    /\ stage = "loaded"
    /\ stage' = "bound"
    /\ UNCHANGED <<now, file, since, keys, tick, loading, pcRefresh, fails, callVars>>

\* A later construction step fails, or the daemon stops.
Exit ==
    /\ stage # "off"
    /\ stage' = "off"
    /\ keys' = NoSet /\ loading' = NoSet /\ pcRefresh' = "idle" /\ fails' = 0 /\ tick' = 0
    /\ snap' = [c \in Callers |-> NoSet]
    /\ pc' = [c \in Callers |-> "idle"]
    /\ bearer' = [c \in Callers |-> NoId]
    /\ result' = [c \in Callers |-> NoId]
    /\ UNCHANGED <<now, file, since>>

-------------------------------------------------------------------------------
(* The refresh loop *)

\* The ticker fires and the loader reads the file.
Tick ==
    /\ stage # "off" /\ now = tick /\ pcRefresh = "idle"
    /\ loading' = LoadFile(file)
    /\ pcRefresh' = "read"
    /\ UNCHANGED <<now, file, since, stage, keys, tick, fails, callVars>>

\* Mutant: a failed load blanks the live set.
StoredBlank(set) == set

\* The swap happens only on success; a failed load keeps the last good set.
Stored(set) == IF set = NoSet THEN keys ELSE set

\* Mutant: the loop stops at the first failed refresh.
RefreshGivesUp ==
    /\ pcRefresh = "read"
    /\ keys' = Stored(loading)
    /\ fails' = IF loading = NoSet THEN fails + 1 ELSE 0
    /\ loading' = NoSet
    /\ pcRefresh' = "idle"
    /\ tick' = IF loading = NoSet THEN MaxTime + 1 ELSE tick + Interval
    /\ UNCHANGED <<now, file, since, stage, callVars>>

Refresh ==
    /\ pcRefresh = "read"
    /\ keys' = Stored(loading)
    /\ fails' = IF loading = NoSet THEN fails + 1 ELSE 0
    /\ loading' = NoSet
    /\ pcRefresh' = "idle"
    /\ tick' = tick + Interval
    /\ UNCHANGED <<now, file, since, stage, callVars>>

-------------------------------------------------------------------------------
(* Authenticate *)

\* The provider hands out the set that is live now.
Provide(c, id) ==
    /\ stage = "bound" /\ pc[c] = "idle"
    /\ snap' = [snap EXCEPT ![c] = keys]
    /\ bearer' = [bearer EXCEPT ![c] = id]
    /\ pc' = [pc EXCEPT ![c] = "resolving"]
    /\ result' = [result EXCEPT ![c] = NoId]
    /\ UNCHANGED <<now, file, since, procVars>>

\* Resolve runs on the set it was handed, whatever has been stored since.
Resolve(c) ==
    /\ pc[c] = "resolving"
    /\ result' = [result EXCEPT ![c] = IF snap[c] # NoSet /\ Resolves(snap[c], bearer[c], now)
                                       THEN bearer[c] ELSE NoId]
    /\ pc' = [pc EXCEPT ![c] = "idle"]
    /\ snap' = [snap EXCEPT ![c] = NoSet]
    /\ bearer' = [bearer EXCEPT ![c] = NoId]
    /\ UNCHANGED <<now, file, since, procVars>>

Next ==
    \/ \E f \in Renders \cup {NoSet} : Render(f)
    \/ Advance \/ Load \/ Bind \/ Exit \/ Tick \/ Refresh
    \/ \E c \in Callers : Resolve(c) \/ \E id \in Ids : Provide(c, id)

Spec == Init /\ [][Next]_vars

-------------------------------------------------------------------------------
(* Properties *)

Sets == Renders \cup {NoSet}

\* Type invariant.
TypeOK ==
    /\ now \in 0..MaxTime
    /\ file \in Sets
    /\ since \in [Ids -> 0..MaxTime]
    /\ stage \in {"off", "loaded", "bound"}
    /\ keys \in Sets /\ loading \in Sets
    /\ tick \in Nat /\ fails \in Nat
    /\ pcRefresh \in {"idle", "read"}
    /\ snap \in [Callers -> Sets]
    /\ pc \in [Callers -> {"idle", "resolving"}]
    /\ bearer \in [Callers -> Ids \cup {NoId}]
    /\ result \in [Callers -> Ids \cup {NoId}]

\* Load before bind, and fail-safe refresh: whatever Control leaves in the file, a
\* process that serves has a set, with keys in it, all of this deployment.
ServesLastGoodSet ==
    stage # "off" =>
        /\ keys # NoSet /\ keys # {}
        /\ \A rec \in keys : rec.deployment = Deployment

\* Revoked: Control's file omits the key.
Revoked(id) == file # NoSet /\ ~Has(file, id)

\* A revoked key leaves the live set within one refresh interval, plus one for every
\* refresh that has failed since the last success.
RevocationWindow ==
    \A id \in Ids :
        stage # "off" /\ Revoked(id) /\ Has(keys, id)
            => now - since[id] <= Interval * (1 + fails)

\* A set vouches for a key: it has its record, of this deployment and unexpired.
Vouches(set, id) ==
    \E rec \in set : rec.id = id /\ rec.deployment = Deployment /\ rec.expires >= now

\* A resolution that races a refresh: a key is admitted only if the live set has it
\* unexpired, or had it until a refresh of this very moment.
AdmittedIsCurrent ==
    [][\A c \in Callers :
         pc[c] = "resolving" /\ pc'[c] = "idle" /\ result'[c] # NoId
           => \/ Vouches(keys, bearer[c])
              \/ now = tick - Interval /\ Vouches(snap[c], bearer[c])]_vars

\* boot.go: a key Control revoked (omitted from the re-rendered set) stops
\* authenticating within the refresh window.
RevokedWithinInterval ==
    \A id \in Ids :
        stage # "off" /\ Revoked(id) /\ Has(keys, id) => now - since[id] <= Interval
===============================================================================
