----------------------------- MODULE Provisioning -----------------------------
(***************************************************************************)
(* The deployment's provisioning policy: its document as the loader maps   *)
(* it (internal/config/provisioning.go), the admission checks of a create  *)
(* request and the bodies the gateway sends to Control                     *)
(* (internal/forward/session.go, http.go).                                 *)
(*                                                                         *)
(* A document is a record: decodes (readable JSON of known fields and      *)
(* types), profile (the word it gives), singular (mount_intent or          *)
(* NoMount), plural (mount_intents), egress, pids (pids_limit or Unset)    *)
(* and timeout.  A mount is a record of dest, fs, mem and ro; a            *)
(* destination is a sequence of units, "/" or a name; an empty id is "".   *)
(***************************************************************************)
EXTENDS Integers, Sequences, FiniteSets, SequencesExt

CONSTANTS
    NoMount,    \* no mount_intent field
    Unset,      \* no pids_limit field
    Refused     \* the error of a loader or a check

\* A mount intent as it decodes.
Mounts == [dest : Seq(STRING), fs : STRING, mem : STRING, ro : BOOLEAN]

-------------------------------------------------------------------------------
(* The loader *)

Profiles == {"trusted_operator", "internal_workforce"}

\* Only the two words of the vocabulary are profiles; a missing one is never defaulted.
profileFromWire(word) == IF word \in Profiles THEN word ELSE Refused

\* Mutant: with both fields set, the plural one wins.
mountsFromWirePlural(doc) ==
    IF doc.plural # <<>> THEN doc.plural
    ELSE IF doc.singular # NoMount THEN <<doc.singular>> ELSE <<>>

\* The legacy field is a list of one; setting both is refused.
mountsFromWire(doc) ==
    IF doc.singular # NoMount /\ doc.plural # <<>> THEN Refused
    ELSE IF doc.singular # NoMount THEN <<doc.singular>> ELSE doc.plural

LoadProvisioningPolicy(doc) ==
    IF ~doc.decodes \/ profileFromWire(doc.profile) = Refused \/ mountsFromWire(doc) = Refused
    THEN Refused
    ELSE [profile |-> profileFromWire(doc.profile), mounts |-> mountsFromWire(doc),
          egress |-> doc.egress, pids |-> doc.pids, timeout |-> doc.timeout]

-------------------------------------------------------------------------------
(* The admission of a create request *)

maxMountIntents == 4

\* WorkloadTrustProfile.valid.
valid(profile) == profile \in Profiles

scopeValid(m) == (m.fs # "") # (m.mem # "")

\* The destination's first byte is a slash.
Absolute(dest) == dest # <<>> /\ Head(dest) = "/"

\* Destinations are compared as strings.
validateMounts(ms) ==
    /\ Len(ms) \in 1..maxMountIntents
    /\ \A i \in DOMAIN ms : scopeValid(ms[i]) /\ Absolute(ms[i].dest)
    /\ \A i, j \in DOMAIN ms : ms[i].dest = ms[j].dest => i = j

buildCreateRequest(policy, hint) ==
    [profile |-> policy.profile, mounts |-> policy.mounts, egress |-> policy.egress,
     pids |-> policy.pids, hint |-> hint]

validate(create) ==
    valid(create.profile) /\ validateMounts(create.mounts) /\ create.pids # Unset

-------------------------------------------------------------------------------
(* The bodies on the wire *)

\* createBodyWire: the profile and the resource caps have no field in it.
createBody(create) == [mounts |-> create.mounts, egress |-> create.egress]

execTimeoutDefaultSeconds == 30
execTimeoutMinSeconds == 1
execTimeoutMaxSeconds == 300

\* Unset means the default; the rest is clamped.
clampExecTimeout(configured) ==
    LET v == IF configured = 0 THEN execTimeoutDefaultSeconds ELSE configured
    IN  IF v < execTimeoutMinSeconds THEN execTimeoutMinSeconds
        ELSE IF v > execTimeoutMaxSeconds THEN execTimeoutMaxSeconds ELSE v

execBody(policy) == [timeout |-> clampExecTimeout(policy.timeout)]

\* Mutant: a chat scope stands for itself.
sessionHintForChat(tenant, chat) == IF chat = <<>> THEN tenant ELSE chat

\* sessionHintFor: tenant "/" chat, or the tenant alone with no chat scope.  Both are
\* sequences of "/"-separated segments.
sessionHintFor(tenant, chat) == tenant \o chat
===============================================================================
