------------------------------ MODULE Serializer ------------------------------
(***************************************************************************)
(* The per-session tool-call serializer (internal/serialize/serialize.go). *)
(*                                                                         *)
(* Each contended session has a gate: a FIFO ticket line guarded by the    *)
(* Serializer mutex, with one sync.Cond per gate.  Every region between    *)
(* s.mu.Lock and s.mu.Unlock (or cond.Wait, which unlocks) is one action.  *)
(* Gates are heap objects with an identity of their own: a caller keeps    *)
(* the pointer it found in the map, so a line that was deleted and created *)
(* again is a different gate.                                              *)
(***************************************************************************)
EXTENDS Integers, FiniteSets

CONSTANTS
    Callers,        \* the goroutines that call Acquire
    Sessions,       \* the session hints
    Tools,          \* the tool names
    ParallelTools,  \* the tools the ParallelPredicate admits ({} = nil predicate)
    Gates,          \* the heap addresses a gate may be allocated at
    NoGate,         \* the nil *gate
    NoSession,      \* the hint of a caller outside Acquire and its release
    MaxDepth,       \* maxDepth: waiting + in-flight bound, <= 0 disables it
    MaxTickets      \* bound on the tickets one gate issues (uint64 in the code)

ASSUME SerializerAssumption ==
    /\ ParallelTools \subseteq Tools
    /\ NoGate \notin Gates
    /\ NoSession \notin Sessions
    /\ MaxDepth \in Int
    /\ MaxTickets \in Nat

VARIABLES
    gates,      \* Serializer.gates: session -> gate, NoGate when the key is absent
    tickets,    \* gate.tickets
    serving,    \* gate.serving
    depth,      \* gate.depth
    pc,         \* where each caller is in Acquire / its release
    session,    \* the sessionHint argument of the caller's Acquire
    myGate,     \* the local g of Acquire, captured by the release closure
    myTicket    \* the local myTicket of Acquire

lineVars == <<gates, tickets, serving, depth>>
frameVars == <<session, myGate, myTicket>>
vars == <<gates, tickets, serving, depth, pc, session, myGate, myTicket>>

\* parked: asleep in cond.Wait.  woken: a Broadcast reached it and it has yet to
\* take the mutex and test its turn again.  running: Acquire returned a release.
\* settled: that release has run (the closure's released flag is true).
\* parallel, refused: Acquire returned a no-op release or ErrSerializerFull.
PCs == {"idle", "parked", "woken", "running", "settled", "parallel", "refused"}

\* In line: holds a ticket that its release has not yet retired.
InLine(c) == pc[c] \in {"parked", "woken", "running"}

\* A gate nothing points to: neither the map nor a caller's frame.
Unreferenced(g) ==
    /\ \A s \in Sessions : gates[s] # g
    /\ \A c \in Callers : myGate[c] # g

NewSerializer ==
    /\ gates = [s \in Sessions |-> NoGate]
    /\ tickets = [g \in Gates |-> 0]
    /\ serving = [g \in Gates |-> 0]
    /\ depth = [g \in Gates |-> 0]

Init ==
    /\ NewSerializer
    /\ pc = [c \in Callers |-> "idle"]
    /\ session = [c \in Callers |-> NoSession]
    /\ myGate = [c \in Callers |-> NoGate]
    /\ myTicket = [c \in Callers |-> 0]

-------------------------------------------------------------------------------
(* Acquire *)

\* Parallel opt-in: admitted at once, with a no-op release.
AcquireParallel(c, tool) ==
    /\ pc[c] = "idle"
    /\ tool \in ParallelTools
    /\ pc' = [pc EXCEPT ![c] = "parallel"]
    /\ UNCHANGED <<lineVars, frameVars>>

\* Mutant: the bound refuses one caller too early.
FullOffByOne(d) == MaxDepth > 0 /\ d >= MaxDepth - 1

\* The depth bound on a session's queue.
Full(d) == MaxDepth > 0 /\ d >= MaxDepth

\* Refused at the bound.  A gate this call had just created has depth 0 and so is
\* never Full: only an existing gate refuses, and it stays as it is.
Refuse(c, s) ==
    /\ gates[s] # NoGate
    /\ Full(depth[gates[s]])
    /\ pc' = [pc EXCEPT ![c] = "refused"]
    /\ UNCHANGED <<lineVars, frameVars>>

\* Take the next ticket of gate g, whose counters are k, v and d, and join its
\* line; run at once if the line was empty, otherwise sleep in cond.Wait.
TakeTicket(c, s, g, k, v, d) ==
    /\ ~Full(d)
    /\ k < MaxTickets
    /\ gates' = [gates EXCEPT ![s] = g]
    /\ tickets' = [tickets EXCEPT ![g] = k + 1]
    /\ serving' = [serving EXCEPT ![g] = v]
    /\ depth' = [depth EXCEPT ![g] = d + 1]
    /\ session' = [session EXCEPT ![c] = s]
    /\ myGate' = [myGate EXCEPT ![c] = g]
    /\ myTicket' = [myTicket EXCEPT ![c] = k]
    /\ pc' = [pc EXCEPT ![c] = IF v = k THEN "running" ELSE "parked"]

Acquire(c, s, tool) ==
    /\ pc[c] = "idle"
    /\ tool \notin ParallelTools
    /\ \/ /\ gates[s] = NoGate
          /\ \E g \in Gates : Unreferenced(g) /\ TakeTicket(c, s, g, 0, 0, 0)
       \/ /\ gates[s] # NoGate
          /\ LET g == gates[s]
             IN  TakeTicket(c, s, g, tickets[g], serving[g], depth[g])
       \/ Refuse(c, s)

\* A woken caller re-acquires the mutex inside cond.Wait and tests its turn again.
Recheck(c) ==
    /\ pc[c] = "woken"
    /\ pc' = [pc EXCEPT ![c] =
                IF serving[myGate[c]] = myTicket[c] THEN "running" ELSE "parked"]
    /\ UNCHANGED <<lineVars, frameVars>>

-------------------------------------------------------------------------------
(* The release closure *)

\* Mutant: the release forgets to Broadcast.
SettleOnly(c, g) == [pc EXCEPT ![c] = "settled"]

\* cond.Broadcast on gate g: every caller asleep on it wakes; caller c settles.
SettleAndBroadcast(c, g) ==
    [e \in Callers |-> IF e = c THEN "settled"
                       ELSE IF pc[e] = "parked" /\ myGate[e] = g THEN "woken"
                       ELSE pc[e]]

\* Mutant: the gate is dropped while one caller is still in line.
SelfCleanEarly(s, d) == IF d <= 1 THEN [gates EXCEPT ![s] = NoGate] ELSE gates

\* Mutant: the gate is never dropped.
SelfCleanNever(s, d) == gates

\* Drop the session's gate from the map once nobody is left on it.
SelfClean(s, d) == IF d = 0 THEN [gates EXCEPT ![s] = NoGate] ELSE gates

\* Mutant: the released flag is not tested.
ReleaseTwice(c) ==
    /\ pc[c] \in {"running", "settled"}
    /\ LET g == myGate[c]
       IN  /\ serving' = [serving EXCEPT ![g] = @ + 1]
           /\ depth' = [depth EXCEPT ![g] = @ - 1]
           /\ pc' = SettleAndBroadcast(c, g)
           /\ gates' = SelfClean(session[c], depth[g] - 1)
    /\ UNCHANGED <<tickets, frameVars>>

\* A second call finds released true and changes nothing.
Release(c) ==
    \/ /\ pc[c] = "running"
       /\ LET g == myGate[c]
          IN  /\ serving' = [serving EXCEPT ![g] = @ + 1]
              /\ depth' = [depth EXCEPT ![g] = @ - 1]
              /\ pc' = SettleAndBroadcast(c, g)
              /\ gates' = SelfClean(session[c], depth[g] - 1)
       /\ UNCHANGED <<tickets, frameVars>>
    \/ /\ pc[c] = "settled"
       /\ UNCHANGED vars

\* The caller's frame goes away, and with it its references.
Return(c) ==
    /\ pc[c] \in {"settled", "parallel", "refused"}
    /\ pc' = [pc EXCEPT ![c] = "idle"]
    /\ myGate' = [myGate EXCEPT ![c] = NoGate]
    /\ session' = [session EXCEPT ![c] = NoSession]
    /\ myTicket' = [myTicket EXCEPT ![c] = 0]
    /\ UNCHANGED lineVars

Next ==
    \E c \in Callers :
        \/ \E tool \in Tools : AcquireParallel(c, tool)
        \/ \E s \in Sessions, tool \in Tools : Acquire(c, s, tool)
        \/ Recheck(c)
        \/ Release(c)
        \/ Return(c)

Spec == Init /\ [][Next]_vars

\* A woken goroutine is eventually scheduled and gets the mutex (sync.Mutex hands
\* over to starving waiters), and the handler's deferred release eventually runs.
Fairness == \A c \in Callers : WF_vars(Recheck(c)) /\ WF_vars(Release(c))

FairSpec == Spec /\ Fairness

-------------------------------------------------------------------------------
(* Properties *)

\* Type invariant.
TypeOK ==
    /\ gates \in [Sessions -> Gates \cup {NoGate}]
    /\ tickets \in [Gates -> Nat]
    /\ serving \in [Gates -> Nat]
    /\ depth \in [Gates -> Nat]
    /\ pc \in [Callers -> PCs]
    /\ session \in [Callers -> Sessions \cup {NoSession}]
    /\ myGate \in [Callers -> Gates \cup {NoGate}]
    /\ myTicket \in [Callers -> Nat]

\* Where every ticket is.  Whoever is in line holds, on the gate its session's map
\* entry names, a ticket of its own among those not yet retired; the caller that runs
\* holds the ticket being served and none sleeps holding it.
TicketsHeld ==
    /\ \A c \in Callers : InLine(c) =>
         /\ session[c] \in Sessions
         /\ myGate[c] \in Gates
         /\ gates[session[c]] = myGate[c]
         /\ serving[myGate[c]] <= myTicket[c]
         /\ myTicket[c] < tickets[myGate[c]]
    /\ \A c, d \in Callers :
         InLine(c) /\ InLine(d) /\ myGate[c] = myGate[d] /\ myTicket[c] = myTicket[d]
           => c = d
    /\ \A c \in Callers : pc[c] = "running" => myTicket[c] = serving[myGate[c]]
    /\ \A c \in Callers : pc[c] = "parked" => myTicket[c] # serving[myGate[c]]

\* What the map holds: no two sessions share a gate, a mapped gate's depth counts
\* its unretired tickets and is positive, and each of those tickets has a holder.
GatesLive ==
    /\ \A s, r \in Sessions : gates[s] # NoGate /\ gates[s] = gates[r] => s = r
    /\ \A s \in Sessions : gates[s] # NoGate =>
         /\ depth[gates[s]] = tickets[gates[s]] - serving[gates[s]]
         /\ depth[gates[s]] > 0
         /\ \A k \in serving[gates[s]] .. (tickets[gates[s]] - 1) :
              \E c \in Callers :
                  InLine(c) /\ myGate[c] = gates[s] /\ myTicket[c] = k

\* The inductive invariant: a release retires the one ticket its caller holds and
\* drops the gate only when no ticket is left, so the line never loses a caller.
LineInv == TicketsHeld /\ GatesLive

\* At most one serialized call of a session runs at a time (Acquire admits a
\* caller only on its own ticket, and a release retires exactly one ticket).
MutualExclusion ==
    \A c, d \in Callers :
        pc[c] = "running" /\ pc[d] = "running" /\ session[c] = session[d] => c = d

\* The map holds exactly the contended sessions (Contended returns to zero once
\* every call has drained), and a gate's depth is its number of callers.
SelfCleaning ==
    /\ \A s \in Sessions :
         gates[s] # NoGate <=> \E c \in Callers : InLine(c) /\ session[c] = s
    /\ \A s \in Sessions : gates[s] # NoGate =>
         depth[gates[s]] = Cardinality({c \in Callers : InLine(c) /\ session[c] = s})

\* No lost wakeup: in every contended session the holder of the ticket being
\* served exists and is running, or awake and about to run; it never sleeps
\* through its turn in cond.Wait.
HeadIsAwake ==
    \A s \in Sessions : gates[s] # NoGate =>
        \E c \in Callers :
            /\ session[c] = s
            /\ pc[c] \in {"woken", "running"}
            /\ myTicket[c] = serving[gates[s]]

\* Refinement: the callers of a session, in ticket order, form the line of the
\* abstract specification.
LineOf(s) ==
    IF gates[s] = NoGate THEN <<>>
    ELSE LET g == gates[s]
         IN  [i \in 1..depth[g] |->
                CHOOSE c \in Callers :
                    InLine(c) /\ myGate[c] = g /\ myTicket[c] = serving[g] + i - 1]

StatusOf(c) ==
    CASE pc[c] \in {"parked", "woken"} -> "queued"
      [] pc[c] \in {"running", "refused"} -> pc[c]
      [] OTHER -> "away"

Line == INSTANCE SessionLine WITH
            line <- [s \in Sessions |-> LineOf(s)],
            status <- [c \in Callers |-> StatusOf(c)]

\* The ticket lines, with their gate deletion and re-creation, implement one
\* bounded FIFO line per session.
ImplementsSessionLine == Line!Spec

\* Every call that took a ticket eventually runs.
EveryCallServed ==
    \A c \in Callers : pc[c] = "parked" ~> pc[c] = "running"
===============================================================================
