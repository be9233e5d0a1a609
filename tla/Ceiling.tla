------------------------------- MODULE Ceiling -------------------------------
(***************************************************************************)
(* The per-caller connection ceiling (internal/quota/ceiling.go).  The map *)
(* of counts holds only the callers with a request in flight.  A holder's  *)
(* slot is what the release closure it was given captures: the caller key, *)
(* and whether the closure has run.                                        *)
(***************************************************************************)
EXTENDS Integers, FiniteSets

CONSTANTS
    Holders,    \* the requests that acquire
    Keys,       \* the resolved caller keys
    Limit,      \* the concurrent limit; <= 0 disables the ceiling
    Free,       \* slot of a holder with no release closure
    NoOp,       \* slot of a holder admitted by a disabled ceiling
    Released    \* slot of a holder whose release closure has run

ASSUME CeilingAssumption ==
    /\ Limit \in Int
    /\ Free \notin Keys /\ NoOp \notin Keys /\ Released \notin Keys
    /\ Free # NoOp /\ Free # Released /\ NoOp # Released
    /\ IsFiniteSet(Holders)

VARIABLES
    counts,     \* Ceiling.counts, a map: key -> in-flight requests
    slot        \* holder -> the key whose slot it holds, or Free, NoOp, Released

vars == <<counts, slot>>

NewCeiling ==
    /\ counts = [k \in {} |-> 0]
    /\ slot = [h \in Holders |-> Free]

\* A missing map entry reads as zero.
InFlight(k) == IF k \in DOMAIN counts THEN counts[k] ELSE 0

Holding(k) == {h \in Holders : slot[h] = k}

\* Mutant: the limit admits one request too many.
AtLimitOffByOne(k) == Limit > 0 /\ InFlight(k) > Limit

AtLimit(k) == Limit > 0 /\ InFlight(k) >= Limit

\* Check and increment, in one critical section.
Acquire(h, k) ==
    /\ slot[h] = Free
    /\ ~AtLimit(k)
    /\ slot' = [slot EXCEPT ![h] = IF Limit <= 0 THEN NoOp ELSE k]
    /\ counts' = IF Limit <= 0 THEN counts
                 ELSE [x \in DOMAIN counts \cup {k} |->
                         IF x = k THEN InFlight(k) + 1 ELSE counts[x]]

\* Refused at once, never queued.
Refuse(h, k) ==
    /\ slot[h] = Free
    /\ AtLimit(k)
    /\ UNCHANGED vars

\* Decrement, and drop the entry at zero.
Decrement(k) ==
    IF counts[k] - 1 <= 0 THEN [x \in DOMAIN counts \ {k} |-> counts[x]]
    ELSE [counts EXCEPT ![k] = @ - 1]

\* Mutant: the entry is dropped whatever it counts.
ReleaseDrops(h) ==
    /\ slot[h] \in Keys
    /\ slot' = [slot EXCEPT ![h] = Released]
    /\ counts' = [x \in DOMAIN counts \ {slot[h]} |-> counts[x]]

\* Mutant: the closure forgets that it has run, and a second call counts below zero.
ReleaseUnguarded(h) ==
    /\ slot[h] \in Keys
    /\ UNCHANGED slot
    /\ counts' = [x \in DOMAIN counts \cup {slot[h]} |->
                    IF x = slot[h] THEN InFlight(x) - 1 ELSE counts[x]]

\* The release closure: its released flag makes a second call change nothing.
Release(h) ==
    \/ /\ slot[h] \in Keys
       /\ slot' = [slot EXCEPT ![h] = Released]
       /\ counts' = Decrement(slot[h])
    \/ /\ slot[h] \in {NoOp, Released}
       /\ UNCHANGED vars

\* The request is over: its closure is garbage.
Forget(h) ==
    /\ slot[h] \in {NoOp, Released}
    /\ slot' = [slot EXCEPT ![h] = Free]
    /\ UNCHANGED counts

Next ==
    \E h \in Holders :
        \/ \E k \in Keys : Acquire(h, k) \/ Refuse(h, k)
        \/ Release(h)
        \/ Forget(h)

Spec == NewCeiling /\ [][Next]_vars

-------------------------------------------------------------------------------
(* Properties *)

\* Type invariant.
TypeOK ==
    /\ DOMAIN counts \subseteq Keys
    /\ \A k \in DOMAIN counts : counts[k] \in Nat
    /\ slot \in [Holders -> Keys \cup {Free, NoOp, Released}]

\* Each count is the number of requests that hold a slot of that key, whatever
\* the order of acquires and releases and however often a release is called, and
\* a key is in the map exactly while one of its requests is in flight.
CountsExact ==
    /\ \A k \in Keys : InFlight(k) = Cardinality(Holding(k))
    /\ \A k \in DOMAIN counts : counts[k] > 0

\* NFR-SEC-53: no caller has more than Limit requests in flight.
WithinLimit == Limit > 0 => \A k \in Keys : Cardinality(Holding(k)) <= Limit
===============================================================================
