-------------------------------- MODULE Authz --------------------------------
(***************************************************************************)
(* Per-action authorization: the policy a boot accepts                     *)
(* (internal/authz/policy.go), the -resolve-only-key-ids flag compiled     *)
(* into it (internal/ingress/resolveonly.go) and the evaluator             *)
(* (internal/authz/decide.go).                                             *)
(*                                                                         *)
(* A path is a sequence of segments, absolute or relative; an empty        *)
(* segment (a doubled separator) is a "." to path.Clean.  A tool rule is   *)
(* the set of its path prefixes, {} for a rule with no path predicate.     *)
(***************************************************************************)
EXTENDS Integers, Sequences, SequencesExt, FiniteSets

CONSTANTS
    Callers,        \* resolved key ids
    Advertised,     \* AdvertisedToolNames, resolve_scope among them
    Docs,           \* the schema-valid policy documents an operator may configure
    Flags,          \* the sets of key ids -resolve-only-key-ids may name
    Paths,          \* the path arguments of a call
    NoPath,         \* no path argument, an empty one or one that is no string
    NoPolicy        \* nothing loaded

\* A path as it is written; a prefix of a document is absolute, by the schema.
AllPaths == [abs : BOOLEAN, segs : Seq(STRING)]

ASSUME AuthzAssumption ==
    /\ "resolve_scope" \in Advertised
    /\ \A f \in Flags : f \subseteq Callers
    /\ Paths \subseteq AllPaths
    /\ \A d \in Docs : \A n \in DOMAIN d.profiles : \A t \in DOMAIN d.profiles[n] :
         \A prefix \in d.profiles[n][t] : prefix \in AllPaths /\ prefix.abs
    /\ NoPath \notin Paths /\ NoPolicy \notin Docs

VARIABLES
    doc,        \* the configured document
    flag,       \* the key ids the flag names
    policy,     \* the handler's policy, NoPolicy before and after a refused boot
    call,       \* the call decided: its caller, tool and path
    permitted   \* the decision on it

vars == <<doc, flag, policy, call, permitted>>

-------------------------------------------------------------------------------
(* The evaluator *)

\* path.Clean: "." goes, ".." takes the segment before it; a ".." with nothing to
\* take stays in a relative path and is dropped at the root.
Clean(p) ==
    LET done[i \in 0..Len(p.segs)] ==
          IF i = 0 THEN <<>>
          ELSE LET s == p.segs[i]
                   d == done[i - 1]
               IN  IF s = "." THEN d
                   ELSE IF s # ".." THEN Append(d, s)
                   ELSE IF d # <<>> /\ Last(d) # ".." THEN Front(d)
                   ELSE IF p.abs THEN d
                   ELSE Append(d, s)
    IN  [abs |-> p.abs, segs |-> done[Len(p.segs)]]

\* strings.HasPrefix(clean, prefix + "/") on cleaned paths.  The cleaned root is "/"
\* itself, and no cleaned path starts with "//".
HasPrefixSlash(clean, prefix) ==
    /\ clean.abs = prefix.abs
    /\ prefix.segs # <<>>
    /\ IsStrictPrefix(prefix.segs, clean.segs)

\* Mutant: the path is compared as the caller wrote it.
pathUnderAnyPrefixRaw(p, prefixes) ==
    \E prefix \in prefixes : p = Clean(prefix) \/ HasPrefixSlash(p, Clean(prefix))

pathUnderAnyPrefix(p, prefixes) ==
    \E prefix \in prefixes :
        \/ Clean(p) = Clean(prefix)
        \/ HasPrefixSlash(Clean(p), Clean(prefix))

ProfileFor(p, caller) ==
    IF caller \in DOMAIN p.callers THEN p.callers[caller] ELSE p.default

\* A zero policy, an undeclared profile, an omitted tool and a predicate with no
\* readable path all deny.
Decide(p, caller, tool, path) ==
    /\ p # NoPolicy
    /\ ProfileFor(p, caller) \in DOMAIN p.profiles
    /\ LET tools == p.profiles[ProfileFor(p, caller)]
       IN  /\ tool \in DOMAIN tools
           /\ \/ tools[tool] = {}
              \/ path # NoPath /\ pathUnderAnyPrefix(path, tools[tool])

-------------------------------------------------------------------------------
(* Load and the resolve-only flag *)

\* Mutant: the callers' bindings are not resolved.
AcceptsUnboundCallers(d) ==
    /\ d.default \in DOMAIN d.profiles
    /\ \A n \in DOMAIN d.profiles : DOMAIN d.profiles[n] \subseteq Advertised

\* What Load checks beyond the schema: every profile name resolves, every tool a
\* rule names is advertised.
Accepts(d) ==
    /\ d.default \in DOMAIN d.profiles
    /\ \A c \in DOMAIN d.callers : d.callers[c] \in DOMAIN d.profiles
    /\ \A n \in DOMAIN d.profiles : DOMAIN d.profiles[n] \subseteq Advertised

ResolveOnlyProfile == [t \in {"resolve_scope"} |-> {}]

\* CompileResolveOnly: the confining profile is added unless the document declares
\* one of that name, and a caller the document binds keeps its binding.
CompileResolveOnly(d, ids) ==
    IF ids = {} THEN d
    ELSE [profiles |-> [n \in DOMAIN d.profiles \cup {"resolve-only"} |->
              IF n \in DOMAIN d.profiles THEN d.profiles[n] ELSE ResolveOnlyProfile],
          callers |-> [c \in DOMAIN d.callers \cup ids |->
              IF c \in DOMAIN d.callers THEN d.callers[c] ELSE "resolve-only"],
          default |-> d.default]

-------------------------------------------------------------------------------
(* Boot, then calls *)

NoCall == [caller |-> NoPath, tool |-> "", path |-> NoPath]

Init ==
    /\ doc \in Docs /\ flag \in Flags
    /\ policy = NoPolicy
    /\ call = NoCall /\ permitted = FALSE

\* serve loads the policy and compiles the flag; a document Load refuses fails boot.
Boot ==
    /\ policy = NoPolicy
    /\ Accepts(doc)
    /\ policy' = CompileResolveOnly(doc, flag)
    /\ UNCHANGED <<doc, flag, call, permitted>>

\* The handler consults the policy on an advertised tool.  The policy never changes
\* after boot and a decision leaves nothing behind, so a behaviour decides one call.
Authorize(c, tool, path) ==
    /\ policy # NoPolicy
    /\ call = NoCall
    /\ call' = [caller |-> c, tool |-> tool, path |-> path]
    /\ permitted' = Decide(policy, c, tool, path)
    /\ UNCHANGED <<doc, flag, policy>>

Next ==
    \/ Boot
    \/ \E c \in Callers, tool \in Advertised, path \in Paths \cup {NoPath} :
         Authorize(c, tool, path)

Spec == Init /\ [][Next]_vars

-------------------------------------------------------------------------------
(* Properties *)

\* Where an absolute path lands, read from its end: a ".." hides the nearest name
\* before it that nothing hides yet.
Landing(p) ==
    LET walk[i \in 0..Len(p.segs)] ==
          IF i = 0 THEN [hide |-> 0, names |-> <<>>]
          ELSE LET s == p.segs[Len(p.segs) + 1 - i]
                   w == walk[i - 1]
               IN  CASE s = "." -> w
                     [] s = ".." -> [w EXCEPT !.hide = @ + 1]
                     [] OTHER -> IF w.hide > 0 THEN [w EXCEPT !.hide = @ - 1]
                                 ELSE [w EXCEPT !.names = <<s>> \o @]
    IN  walk[Len(p.segs)].names

\* A path lies under a prefix when it is absolute and lands at it or below it.
LiesUnder(p, prefix) == p.abs /\ IsPrefix(Landing(prefix), Landing(p))

\* What the document and the flag say, by the words of their comments: a caller the
\* document binds has its profile; another the flag names may resolve its scope and
\* nothing else; any other has the default profile.
Intended(c, tool, path) ==
    LET granted(name) ==
          /\ tool \in DOMAIN doc.profiles[name]
          /\ \/ doc.profiles[name][tool] = {}
             \/ path # NoPath /\ \E prefix \in doc.profiles[name][tool] : LiesUnder(path, prefix)
    IN  IF c \in DOMAIN doc.callers THEN granted(doc.callers[c])
        ELSE IF c \in flag THEN tool = "resolve_scope"
        ELSE granted(doc.default)

HasRootPrefix == \E n \in DOMAIN doc.profiles : \E t \in DOMAIN doc.profiles[n] :
                    \E prefix \in doc.profiles[n][t] : Landing(prefix) = <<>>

\* The evaluator decides on where a path lands, whatever its traversals, and on the
\* document before the flag.  Two documents are set apart: one that grants the root
\* prefix, and one that declares a profile of the flag's own name.
DecidesAsIntended ==
    call # NoCall /\ ~HasRootPrefix /\ "resolve-only" \notin DOMAIN doc.profiles
        => permitted = Intended(call.caller, call.tool, call.path)

\* A booted policy is closed: every caller has a declared profile, and no profile
\* grants a tool that is not advertised, the compiled one included.
BootedPolicyResolves ==
    policy # NoPolicy =>
        /\ \A c \in Callers : ProfileFor(policy, c) \in DOMAIN policy.profiles
        /\ \A n \in DOMAIN policy.profiles : DOMAIN policy.profiles[n] \subseteq Advertised

===============================================================================
