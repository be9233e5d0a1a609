--------------------------- MODULE SerializerProofs ---------------------------
(***************************************************************************)
(* Proofs about Serializer, for any sets of callers, sessions and gates    *)
(* and any depth bound.                                                    *)
(***************************************************************************)
EXTENDS Serializer, FiniteSetTheorems, SequenceTheorems, TLAPS

LEMMA InitInv == Init => TypeOK /\ LineInv
  BY SerializerAssumption
  DEF Init, NewSerializer, TypeOK, PCs, LineInv, TicketsHeld, GatesLive, InLine

\* A caller that joins nobody's line, leaves no line and sleeps nowhere new keeps
\* the invariant: used for every step that changes no gate.
LEMMA QuietStep ==
  ASSUME TypeOK, LineInv, UNCHANGED lineVars,
         NEW c \in Callers, ~InLine(c), pc'[c] \in PCs \ {"parked", "woken", "running"},
         pc' = [pc EXCEPT ![c] = pc'[c]],
         session' \in [Callers -> Sessions \cup {NoSession}],
         myGate' \in [Callers -> Gates \cup {NoGate}],
         myTicket' \in [Callers -> Nat],
         \A d \in Callers \ {c} : /\ session'[d] = session[d]
                                  /\ myGate'[d] = myGate[d]
                                  /\ myTicket'[d] = myTicket[d]
  PROVE  TypeOK' /\ LineInv'
  <1>1. \A d \in Callers : InLine(d)' <=> InLine(d)
    BY DEF InLine, TypeOK, PCs
  <1>2. \A d \in Callers : InLine(d) => d # c
    OBVIOUS
  <1>3. TypeOK'
    BY DEF TypeOK, lineVars, PCs
  <1>4. TicketsHeld'
    BY <1>1, <1>2 DEF LineInv, TicketsHeld, TypeOK, lineVars, PCs
  <1>5. GatesLive'
    BY <1>1, <1>2 DEF LineInv, GatesLive, TypeOK, lineVars
  <1> QED BY <1>3, <1>4, <1>5 DEF LineInv

LEMMA AcquireParallelStep ==
  ASSUME TypeOK, LineInv, NEW c \in Callers, NEW tool \in Tools, AcquireParallel(c, tool)
  PROVE  TypeOK' /\ LineInv'
  <1>1. pc' = [pc EXCEPT ![c] = "parallel"] /\ pc'[c] = "parallel" /\ ~InLine(c)
    BY DEF AcquireParallel, TypeOK, InLine
  <1> QED BY <1>1, QuietStep DEF AcquireParallel, TypeOK, frameVars, PCs

LEMMA RefuseStep ==
  ASSUME TypeOK, LineInv, NEW c \in Callers, NEW s \in Sessions, pc[c] = "idle", Refuse(c, s)
  PROVE  TypeOK' /\ LineInv'
  <1>1. pc' = [pc EXCEPT ![c] = "refused"] /\ pc'[c] = "refused" /\ ~InLine(c)
    BY DEF Refuse, TypeOK, InLine
  <1> QED BY <1>1, QuietStep DEF Refuse, TypeOK, frameVars, PCs

LEMMA ReturnStep ==
  ASSUME TypeOK, LineInv, NEW c \in Callers, Return(c)
  PROVE  TypeOK' /\ LineInv'
  <1>1. pc' = [pc EXCEPT ![c] = "idle"] /\ pc'[c] = "idle" /\ ~InLine(c)
    BY DEF Return, TypeOK, InLine
  <1>2. /\ session' \in [Callers -> Sessions \cup {NoSession}]
        /\ myGate' \in [Callers -> Gates \cup {NoGate}]
        /\ myTicket' \in [Callers -> Nat]
        /\ \A d \in Callers \ {c} : /\ session'[d] = session[d]
                                    /\ myGate'[d] = myGate[d]
                                    /\ myTicket'[d] = myTicket[d]
        /\ UNCHANGED lineVars
    BY DEF Return, TypeOK
  <1> QED BY <1>1, <1>2, QuietStep DEF PCs

\* The gate found in the map: its counters carry on.
LEMMA JoinExistingStep ==
  ASSUME TypeOK, LineInv, NEW c \in Callers, NEW s \in Sessions, pc[c] = "idle",
         gates[s] # NoGate,
         TakeTicket(c, s, gates[s], tickets[gates[s]], serving[gates[s]], depth[gates[s]])
  PROVE  TypeOK' /\ LineInv'
  <1> DEFINE g == gates[s]
  <1>1. g \in Gates /\ ~InLine(c)
    BY DEF TypeOK, InLine
  <1>2. /\ gates' = gates /\ serving' = serving
        /\ tickets' = [tickets EXCEPT ![g] = tickets[g] + 1]
        /\ depth' = [depth EXCEPT ![g] = depth[g] + 1]
        /\ session' = [session EXCEPT ![c] = s]
        /\ myGate' = [myGate EXCEPT ![c] = g]
        /\ myTicket' = [myTicket EXCEPT ![c] = tickets[g]]
    BY <1>1 DEF TakeTicket, TypeOK
  <1>3. /\ serving[g] \in Nat /\ tickets[g] \in Nat
        /\ serving[g] < tickets[g] /\ serving[g] # tickets[g]
    BY <1>1 DEF LineInv, GatesLive, TypeOK
  <1>4. pc' = [pc EXCEPT ![c] = "parked"]
    BY <1>3 DEF TakeTicket
  <1>5. TypeOK'
    BY <1>1, <1>2, <1>4 DEF TypeOK, PCs
  <1>6. \A d \in Callers : InLine(d)' <=> (InLine(d) \/ d = c)
    BY <1>4 DEF InLine, TypeOK
  <1>7. \A d \in Callers \ {c} : /\ session'[d] = session[d]
                                 /\ myGate'[d] = myGate[d]
                                 /\ myTicket'[d] = myTicket[d]
                                 /\ pc'[d] = pc[d]
    BY <1>2, <1>4 DEF TypeOK
  <1>8. session'[c] = s /\ myGate'[c] = g /\ myTicket'[c] = tickets[g] /\ pc'[c] = "parked"
    BY <1>2, <1>4 DEF TypeOK
  <1>9. TicketsHeld'
    BY <1>1, <1>2, <1>3, <1>6, <1>7, <1>8 DEF LineInv, TicketsHeld, TypeOK
  <1>10. GatesLive'
    <2>1. \A r, q \in Sessions : gates'[r] # NoGate /\ gates'[r] = gates'[q] => r = q
      BY <1>2 DEF LineInv, GatesLive
    <2>2. ASSUME NEW r \in Sessions, gates'[r] # NoGate
          PROVE  /\ depth'[gates'[r]] = tickets'[gates'[r]] - serving'[gates'[r]]
                 /\ depth'[gates'[r]] > 0
      BY <2>2, <1>1, <1>2 DEF LineInv, GatesLive, TypeOK
    <2>3. ASSUME NEW r \in Sessions, gates'[r] # NoGate,
                 NEW k \in serving'[gates'[r]] .. (tickets'[gates'[r]] - 1)
          PROVE  \E d \in Callers :
                    InLine(d)' /\ myGate'[d] = gates'[r] /\ myTicket'[d] = k
      <3>1. CASE r = s /\ k = tickets[g]
        BY <3>1, <1>2, <1>6, <1>8
      <3>2. CASE ~(r = s /\ k = tickets[g])
        <4>1. k \in serving[gates[r]] .. (tickets[gates[r]] - 1)
          <5>1. CASE r = s
            BY <5>1, <3>2, <2>3, <1>1, <1>2, <1>3 DEF TypeOK
          <5>2. CASE r # s
            <6>1. gates[r] # g /\ gates[r] \in Gates
              BY <5>2, <2>3, <1>2 DEF LineInv, GatesLive, TypeOK
            <6> QED BY <6>1, <2>3, <1>2 DEF TypeOK
          <5> QED BY <5>1, <5>2
        <4>2. PICK d \in Callers : InLine(d) /\ myGate[d] = gates[r] /\ myTicket[d] = k
          BY <4>1, <2>3, <1>2 DEF LineInv, GatesLive
        <4> QED BY <4>2, <1>1, <1>2, <1>6, <1>7
      <3> QED BY <3>1, <3>2
    <2> QED BY <2>1, <2>2, <2>3 DEF GatesLive
  <1> QED BY <1>5, <1>9, <1>10 DEF LineInv

\* A gate allocated for a session the map does not have.
LEMMA JoinNewStep ==
  ASSUME TypeOK, LineInv, NEW c \in Callers, NEW s \in Sessions, pc[c] = "idle",
         gates[s] = NoGate, NEW g \in Gates, Unreferenced(g),
         TakeTicket(c, s, g, 0, 0, 0)
  PROVE  TypeOK' /\ LineInv'
  <1>1. /\ gates' = [gates EXCEPT ![s] = g]
        /\ tickets' = [tickets EXCEPT ![g] = 1]
        /\ serving' = [serving EXCEPT ![g] = 0]
        /\ depth' = [depth EXCEPT ![g] = 1]
        /\ session' = [session EXCEPT ![c] = s]
        /\ myGate' = [myGate EXCEPT ![c] = g]
        /\ myTicket' = [myTicket EXCEPT ![c] = 0]
        /\ pc' = [pc EXCEPT ![c] = "running"]
    BY DEF TakeTicket
  <1>2. TypeOK'
    BY <1>1 DEF TypeOK, PCs
  <1>3. ~InLine(c)
    BY DEF InLine
  <1>4. \A d \in Callers : InLine(d)' <=> (InLine(d) \/ d = c)
    BY <1>1 DEF InLine, TypeOK
  <1>5. \A d \in Callers \ {c} : /\ session'[d] = session[d]
                                 /\ myGate'[d] = myGate[d]
                                 /\ myTicket'[d] = myTicket[d]
                                 /\ pc'[d] = pc[d]
    BY <1>1 DEF TypeOK
  <1>6. session'[c] = s /\ myGate'[c] = g /\ myTicket'[c] = 0 /\ pc'[c] = "running"
    BY <1>1 DEF TypeOK
  <1>7. g # NoGate /\ \A d \in Callers : myGate[d] # g
    BY SerializerAssumption DEF Unreferenced
  <1>8. \A d \in Callers : InLine(d) => session[d] # s
    BY SerializerAssumption DEF LineInv, TicketsHeld
  <1>9. \A r \in Sessions : gates[r] # g
    BY DEF Unreferenced
  <1>10. TicketsHeld'
    BY <1>1, <1>3, <1>4, <1>5, <1>6, <1>7, <1>8 DEF LineInv, TicketsHeld, TypeOK
  <1>11. GatesLive'
    <2>1. \A r, q \in Sessions : gates'[r] # NoGate /\ gates'[r] = gates'[q] => r = q
      BY <1>1, <1>9 DEF LineInv, GatesLive, TypeOK
    <2>2. ASSUME NEW r \in Sessions, gates'[r] # NoGate
          PROVE  /\ depth'[gates'[r]] = tickets'[gates'[r]] - serving'[gates'[r]]
                 /\ depth'[gates'[r]] > 0
      BY <2>2, <1>1, <1>9 DEF LineInv, GatesLive, TypeOK
    <2>3. ASSUME NEW r \in Sessions, gates'[r] # NoGate,
                 NEW k \in serving'[gates'[r]] .. (tickets'[gates'[r]] - 1)
          PROVE  \E d \in Callers :
                    InLine(d)' /\ myGate'[d] = gates'[r] /\ myTicket'[d] = k
      <3>1. CASE r = s
        BY <3>1, <1>1, <1>4, <1>6 DEF TypeOK
      <3>2. CASE r # s
        <4>1. gates'[r] = gates[r] /\ k \in serving[gates[r]] .. (tickets[gates[r]] - 1)
          BY <3>2, <1>1, <1>9 DEF TypeOK
        <4>2. PICK d \in Callers : InLine(d) /\ myGate[d] = gates[r] /\ myTicket[d] = k
          BY <4>1, <2>3 DEF LineInv, GatesLive
        <4> QED BY <4>1, <4>2, <1>3, <1>4, <1>5
      <3> QED BY <3>1, <3>2
    <2> QED BY <2>1, <2>2, <2>3 DEF GatesLive
  <1> QED BY <1>2, <1>10, <1>11 DEF LineInv

LEMMA RecheckStep ==
  ASSUME TypeOK, LineInv, NEW c \in Callers, Recheck(c)
  PROVE  TypeOK' /\ LineInv'
  <1>1. \A d \in Callers : InLine(d)' <=> InLine(d)
    BY DEF Recheck, InLine, TypeOK
  <1>2. TypeOK'
    BY DEF Recheck, TypeOK, PCs, lineVars, frameVars
  <1>3. TicketsHeld'
    BY <1>1 DEF Recheck, LineInv, TicketsHeld, TypeOK, lineVars, frameVars
  <1>4. GatesLive'
    BY <1>1 DEF Recheck, LineInv, GatesLive, lineVars, frameVars
  <1> QED BY <1>2, <1>3, <1>4 DEF LineInv

LEMMA ReleaseStep ==
  ASSUME TypeOK, LineInv, NEW c \in Callers, Release(c)
  PROVE  TypeOK' /\ LineInv'
  <1>1. CASE UNCHANGED vars
    BY <1>1 DEF vars, TypeOK, LineInv, TicketsHeld, GatesLive, InLine
  <1>2. CASE pc[c] = "running" /\ Release(c)
    <2> DEFINE g == myGate[c]
               s == session[c]
    <2>1. /\ serving' = [serving EXCEPT ![g] = serving[g] + 1]
          /\ depth' = [depth EXCEPT ![g] = depth[g] - 1]
          /\ pc' = SettleAndBroadcast(c, g)
          /\ gates' = SelfClean(s, depth[g] - 1)
          /\ tickets' = tickets
          /\ session' = session /\ myGate' = myGate /\ myTicket' = myTicket
      BY <1>2 DEF Release, frameVars
    <2>2. /\ InLine(c) /\ s \in Sessions /\ g \in Gates /\ gates[s] = g /\ g # NoGate
          /\ myTicket[c] = serving[g] /\ serving[g] < tickets[g]
          /\ depth[g] = tickets[g] - serving[g] /\ depth[g] > 0
          /\ serving[g] \in Nat /\ tickets[g] \in Nat /\ depth[g] \in Nat
      BY <1>2, SerializerAssumption DEF LineInv, TicketsHeld, GatesLive, InLine, TypeOK
    <2>3. \A d \in Callers : InLine(d)' <=> (InLine(d) /\ d # c)
      BY <2>1 DEF SettleAndBroadcast, InLine
    <2>4. gates' = IF depth[g] = 1 THEN [gates EXCEPT ![s] = NoGate] ELSE gates
      BY <2>1, <2>2 DEF SelfClean
    <2>5. TypeOK'
      <3>1. gates' \in [Sessions -> Gates \cup {NoGate}]
        BY <2>4 DEF TypeOK
      <3>2. serving' \in [Gates -> Nat] /\ depth' \in [Gates -> Nat]
        BY <2>1, <2>2 DEF TypeOK
      <3>3. pc' \in [Callers -> PCs]
        BY <2>1 DEF TypeOK, PCs, SettleAndBroadcast
      <3> QED BY <3>1, <3>2, <3>3, <2>1 DEF TypeOK
    <2>6. \A d \in Callers \ {c} :
             InLine(d) /\ myGate[d] = g => serving[g] + 1 <= myTicket[d] /\ depth[g] # 1
      <3> SUFFICES ASSUME NEW d \in Callers \ {c}, InLine(d), myGate[d] = g
                   PROVE  serving[g] + 1 <= myTicket[d] /\ depth[g] # 1
        OBVIOUS
      <3>1. myTicket[d] # serving[g]
        BY <2>2 DEF LineInv, TicketsHeld
      <3>2. serving[g] <= myTicket[d] /\ myTicket[d] < tickets[g] /\ myTicket[d] \in Nat
        BY DEF LineInv, TicketsHeld, TypeOK
      <3> QED BY <2>2, <3>1, <3>2
    <2>7. \A d \in Callers \ {c} : InLine(d) /\ myGate[d] # g => session[d] # s
      BY <2>2 DEF LineInv, TicketsHeld
    <2>8. \A d \in Callers \ {c} : pc'[d] = "running" => pc[d] = "running"
      BY <2>1 DEF SettleAndBroadcast
    <2>9. \A d \in Callers : pc'[d] = "parked" => pc[d] = "parked" /\ myGate[d] # g
      BY <2>1 DEF SettleAndBroadcast
    <2>10. \A d \in Callers : pc'[d] = "running" => d # c
      BY <2>1 DEF SettleAndBroadcast
    <2>11. \A d \in Callers : InLine(d) /\ d # c => gates'[session[d]] = gates[session[d]]
      BY <2>2, <2>4, <2>6, <2>7 DEF LineInv, TicketsHeld, TypeOK
    <2>12. TicketsHeld'
      <3>1. ASSUME NEW d \in Callers, InLine(d)'
            PROVE  /\ session'[d] \in Sessions
                   /\ myGate'[d] \in Gates
                   /\ gates'[session'[d]] = myGate'[d]
                   /\ serving'[myGate'[d]] <= myTicket'[d]
                   /\ myTicket'[d] < tickets'[myGate'[d]]
        BY <3>1, <2>1, <2>2, <2>3, <2>6, <2>11 DEF LineInv, TicketsHeld, TypeOK
      <3>2. \A d, e \in Callers :
               InLine(d)' /\ InLine(e)' /\ myGate'[d] = myGate'[e]
               /\ myTicket'[d] = myTicket'[e] => d = e
        BY <2>1, <2>3 DEF LineInv, TicketsHeld
      <3>3. \A d \in Callers : pc[d] = "running" /\ d # c => myGate[d] # g
        BY <2>2 DEF LineInv, TicketsHeld, InLine
      <3>4. \A d \in Callers : pc'[d] = "running" => myTicket'[d] = serving'[myGate'[d]]
        BY <2>1, <2>2, <2>8, <2>10, <3>3 DEF LineInv, TicketsHeld, InLine, TypeOK
      <3>5. \A d \in Callers : pc'[d] = "parked" => myTicket'[d] # serving'[myGate'[d]]
        BY <2>1, <2>2, <2>9 DEF LineInv, TicketsHeld, InLine, TypeOK
      <3> QED BY <3>1, <3>2, <3>4, <3>5 DEF TicketsHeld
    <2>13. GatesLive'
      <3>1. \A r \in Sessions : gates'[r] # NoGate =>
                gates'[r] = gates[r] /\ (r = s => depth[g] # 1)
        BY <2>2, <2>4 DEF TypeOK
      <3>2. \A r, q \in Sessions : gates'[r] # NoGate /\ gates'[r] = gates'[q] => r = q
        BY <3>1 DEF LineInv, GatesLive
      <3>3. ASSUME NEW r \in Sessions, gates'[r] # NoGate
            PROVE  /\ depth'[gates'[r]] = tickets'[gates'[r]] - serving'[gates'[r]]
                   /\ depth'[gates'[r]] > 0
        <4>1. CASE r = s
          BY <4>1, <3>1, <3>3, <2>1, <2>2 DEF TypeOK
        <4>2. CASE r # s
          <5>1. gates[r] # g /\ gates[r] \in Gates
            BY <4>2, <3>1, <3>3, <2>2 DEF LineInv, GatesLive, TypeOK
          <5> QED BY <5>1, <3>1, <3>3, <2>1 DEF LineInv, GatesLive, TypeOK
        <4> QED BY <4>1, <4>2
      <3>4. ASSUME NEW r \in Sessions, gates'[r] # NoGate,
                   NEW k \in serving'[gates'[r]] .. (tickets'[gates'[r]] - 1)
            PROVE  \E d \in Callers :
                      InLine(d)' /\ myGate'[d] = gates'[r] /\ myTicket'[d] = k
        <4>1. gates[r] \in Gates /\ gates[r] # NoGate /\ gates'[r] = gates[r]
          BY <3>1, <3>4 DEF TypeOK
        <4>2. k \in serving[gates[r]] .. (tickets[gates[r]] - 1)
          BY <4>1, <2>1, <2>2 DEF TypeOK
        <4>3. gates[r] = g => k # serving[g]
          BY <4>1, <2>1, <2>2 DEF TypeOK
        <4>4. PICK d \in Callers : InLine(d) /\ myGate[d] = gates[r] /\ myTicket[d] = k
          BY <4>1, <4>2 DEF LineInv, GatesLive
        <4>5. d # c
          BY <4>3, <4>4, <2>2
        <4> QED BY <4>1, <4>4, <4>5, <2>1, <2>3
      <3> QED BY <3>2, <3>3, <3>4 DEF GatesLive
    <2> QED BY <2>5, <2>12, <2>13 DEF LineInv
  <1> QED BY <1>1, <1>2 DEF Release

\* The serializer's state is well formed in every reachable state, and every ticket
\* is where LineInv says: TLC's LineInv, for any number of callers and sessions.
THEOREM LineInvariant == Spec => [](TypeOK /\ LineInv)
  <1>1. TypeOK /\ LineInv /\ [Next]_vars => TypeOK' /\ LineInv'
    <2> SUFFICES ASSUME TypeOK, LineInv, [Next]_vars
                 PROVE  TypeOK' /\ LineInv'
      OBVIOUS
    <2>1. CASE UNCHANGED vars
      BY <2>1 DEF vars, TypeOK, LineInv, TicketsHeld, GatesLive, InLine
    <2>2. ASSUME NEW c \in Callers, NEW tool \in Tools, AcquireParallel(c, tool)
          PROVE  TypeOK' /\ LineInv'
      BY <2>2, AcquireParallelStep
    <2>3. ASSUME NEW c \in Callers, NEW s \in Sessions, NEW tool \in Tools,
                 Acquire(c, s, tool)
          PROVE  TypeOK' /\ LineInv'
      BY <2>3, JoinNewStep, JoinExistingStep, RefuseStep DEF Acquire
    <2>4. ASSUME NEW c \in Callers, Recheck(c)
          PROVE  TypeOK' /\ LineInv'
      BY <2>4, RecheckStep
    <2>5. ASSUME NEW c \in Callers, Release(c)
          PROVE  TypeOK' /\ LineInv'
      BY <2>5, ReleaseStep
    <2>6. ASSUME NEW c \in Callers, Return(c)
          PROVE  TypeOK' /\ LineInv'
      BY <2>6, ReturnStep
    <2> QED BY <2>1, <2>2, <2>3, <2>4, <2>5, <2>6 DEF Next
  <1> QED BY InitInv, <1>1, PTL DEF Spec

\* Acquire lets at most one caller of a session run: two runners would hold the one
\* ticket being served on the one gate of their session.
THEOREM MutualExclusionHolds == Spec => []MutualExclusion
  <1>1. TypeOK /\ LineInv => MutualExclusion
    BY DEF LineInv, TicketsHeld, MutualExclusion, InLine
  <1> QED BY <1>1, LineInvariant, PTL

\* No caller sleeps in cond.Wait through its turn: the ticket being served is held
\* by a caller that runs or has been woken.
THEOREM HeadIsAwakeHolds == Spec => []HeadIsAwake
  <1>1. TypeOK /\ LineInv => HeadIsAwake
    <2> SUFFICES ASSUME TypeOK, LineInv, NEW s \in Sessions, gates[s] # NoGate
                 PROVE  \E c \in Callers : /\ session[c] = s
                                           /\ pc[c] \in {"woken", "running"}
                                           /\ myTicket[c] = serving[gates[s]]
      BY DEF HeadIsAwake
    <2>1. serving[gates[s]] \in serving[gates[s]] .. (tickets[gates[s]] - 1)
      BY DEF LineInv, GatesLive, TypeOK
    <2>2. PICK c \in Callers : /\ InLine(c) /\ myGate[c] = gates[s]
                               /\ myTicket[c] = serving[gates[s]]
      BY <2>1 DEF LineInv, GatesLive
    <2>3. session[c] = s
      BY <2>2 DEF LineInv, TicketsHeld, GatesLive
    <2>4. pc[c] # "parked"
      BY <2>2 DEF LineInv, TicketsHeld
    <2> QED BY <2>2, <2>3, <2>4 DEF InLine
  <1> QED BY <1>1, LineInvariant, PTL

-------------------------------------------------------------------------------
(* The map holds the contended sessions *)

\* The state of the serializer is well formed.
THEOREM TypeCorrect == Spec => []TypeOK
  BY LineInvariant, PTL

\* The callers of a mapped session are counted by its gate's tickets in use: each of
\* them holds one, and each of those has a holder.
LEMMA TicketBijection ==
  ASSUME TypeOK, LineInv, NEW s \in Sessions, gates[s] # NoGate
  PROVE  ExistsBijection(serving[gates[s]] .. (tickets[gates[s]] - 1),
                         {c \in Callers : InLine(c) /\ session[c] = s})
  <1> DEFINE W == {c \in Callers : InLine(c) /\ session[c] = s}
             T == serving[gates[s]] .. (tickets[gates[s]] - 1)
             holds(k, c) == InLine(c) /\ myGate[c] = gates[s] /\ myTicket[c] = k
             f == [k \in T |-> CHOOSE c \in Callers : holds(k, c)]
  <1>1. ASSUME NEW k \in T
        PROVE  f[k] \in Callers /\ holds(k, f[k])
    BY <1>1 DEF LineInv, GatesLive
  <1>2. ASSUME NEW c \in Callers, InLine(c), myGate[c] = gates[s]
        PROVE  session[c] = s
    BY <1>2 DEF LineInv, TicketsHeld, GatesLive
  <1>3. f \in [T -> W]
    BY <1>1, <1>2
  <1>4. \A j, k \in T : f[j] = f[k] => j = k
    BY <1>1
  <1>5. ASSUME NEW c \in W
        PROVE  \E k \in T : f[k] = c
    <2>1. myGate[c] = gates[s] /\ myTicket[c] \in T
      BY DEF LineInv, TicketsHeld, TypeOK
    <2>2. f[myTicket[c]] = c
      BY <2>1, <1>1 DEF LineInv, TicketsHeld
    <2> QED BY <2>1, <2>2
  <1> HIDE DEF f, W, T
  <1>6. f \in Injection(T, W)
    BY <1>3, <1>4 DEF Injection, IsInjective
  <1>7. f \in Surjection(T, W)
    BY <1>3, <1>5 DEF Surjection
  <1>8. ExistsBijection(T, W)
    BY <1>6, <1>7 DEF ExistsBijection, Bijection
  <1> QED BY <1>8 DEF W, T

\* The map has an entry for exactly the sessions with a caller in line, and an entry's
\* depth is the number of those callers: what a release retires is what Acquire added.
THEOREM SelfCleaningHolds == Spec => []SelfCleaning
  <1>1. TypeOK /\ LineInv => SelfCleaning
    <2> SUFFICES ASSUME TypeOK, LineInv
                 PROVE  SelfCleaning
      OBVIOUS
    <2>1. ASSUME NEW s \in Sessions, gates[s] # NoGate
          PROVE  /\ \E c \in Callers : InLine(c) /\ session[c] = s
                 /\ depth[gates[s]] = Cardinality({c \in Callers : InLine(c) /\ session[c] = s})
      <3> DEFINE lo == serving[gates[s]]
                 hi == tickets[gates[s]] - 1
                 W == {c \in Callers : InLine(c) /\ session[c] = s}
      <3>1. /\ lo \in Int /\ hi \in Int /\ ~(lo > hi)
            /\ depth[gates[s]] = hi - lo + 1
        BY <2>1 DEF LineInv, GatesLive, TypeOK
      <3>2. ExistsBijection(lo .. hi, W)
        BY <2>1, TicketBijection
      <3>3. \E c \in Callers : InLine(c) /\ session[c] = s
        <4>1. PICK c \in Callers : InLine(c) /\ myGate[c] = gates[s]
          BY <2>1, <3>1 DEF LineInv, GatesLive
        <4> QED BY <2>1, <4>1 DEF LineInv, TicketsHeld, GatesLive
      <3> HIDE DEF lo, hi, W
      <3>4. IsFiniteSet(lo .. hi) /\ Cardinality(lo .. hi) = hi - lo + 1
        BY <3>1, FS_Interval
      <3>5. Cardinality(W) = Cardinality(lo .. hi)
        BY <3>2, <3>4, FS_Bijection
      <3> QED BY <3>1, <3>3, <3>4, <3>5 DEF W
    <2>2. ASSUME NEW s \in Sessions, NEW c \in Callers, InLine(c), session[c] = s
          PROVE  gates[s] # NoGate
      BY <2>2, SerializerAssumption DEF LineInv, TicketsHeld
    <2> QED BY <2>1, <2>2 DEF SelfCleaning
  <1> QED BY <1>1, LineInvariant, PTL

-------------------------------------------------------------------------------
(* The refinement of SessionLine *)

\* The sequence q lists the callers of session s in the order of their tickets.
IsLine(s, q) ==
    /\ Len(q) = depth[gates[s]]
    /\ \A i \in 1..Len(q) : /\ InLine(q[i]) /\ myGate[q[i]] = gates[s]
                            /\ myTicket[q[i]] = serving[gates[s]] + i - 1

\* LineOf is that sequence and there is no other; it is empty when the map has no gate.
LineExact ==
    \A s \in Sessions :
        /\ LineOf(s) \in Seq(Callers)
        /\ gates[s] = NoGate => LineOf(s) = <<>>
        /\ gates[s] # NoGate => LineOf(s) # <<>> /\ IsLine(s, LineOf(s))
        /\ \A q \in Seq(Callers) : gates[s] # NoGate /\ IsLine(s, q) => LineOf(s) = q

LEMMA LineIsExact == TypeOK /\ LineInv => LineExact
  <1> SUFFICES ASSUME TypeOK, LineInv, NEW s \in Sessions
               PROVE  /\ LineOf(s) \in Seq(Callers)
                      /\ gates[s] = NoGate => LineOf(s) = <<>>
                      /\ gates[s] # NoGate => LineOf(s) # <<>> /\ IsLine(s, LineOf(s))
                      /\ \A q \in Seq(Callers) :
                            gates[s] # NoGate /\ IsLine(s, q) => LineOf(s) = q
    BY DEF LineExact
  <1>1. CASE gates[s] = NoGate
    <2>1. LineOf(s) = <<>>
      BY <1>1 DEF LineOf
    <2> QED BY <1>1, <2>1, EmptySeq
  <1>2. CASE gates[s] # NoGate
    <2> DEFINE g == gates[s]
               n == depth[gates[s]]
               L == LineOf(s)
               at(i, c) == InLine(c) /\ myGate[c] = g /\ myTicket[c] = serving[g] + i - 1
    <2>1. L = [i \in 1..n |-> CHOOSE c \in Callers : at(i, c)]
      BY <1>2 DEF LineOf
    <2>2. /\ g \in Gates /\ n \in Nat /\ n > 0
          /\ serving[g] \in Nat /\ tickets[g] \in Nat /\ n = tickets[g] - serving[g]
      BY <1>2 DEF LineInv, GatesLive, TypeOK
    <2>3. ASSUME NEW i \in 1..n
          PROVE  L[i] \in Callers /\ at(i, L[i])
      <3>1. serving[g] + i - 1 \in serving[g] .. (tickets[g] - 1)
        BY <2>2
      <3>2. \E c \in Callers : at(i, c)
        BY <3>1, <1>2 DEF LineInv, GatesLive
      <3> QED BY <2>1, <3>2
    <2>4. L \in Seq(Callers) /\ Len(L) = n
      <3>1. L \in [1..n -> Callers]
        BY <2>1, <2>3
      <3> HIDE DEF L, n
      <3> QED BY <3>1, <2>2
    <2>5. IsLine(s, L)
      BY <2>3, <2>4 DEF IsLine
    <2>6. L # <<>>
      BY <2>2, <2>4, EmptySeq
    <2>7. ASSUME NEW q \in Seq(Callers), IsLine(s, q)
          PROVE  L = q
      <3>1. Len(q) = n
        BY <2>7 DEF IsLine
      <3>2. ASSUME NEW i \in 1..n
            PROVE  L[i] = q[i]
        <4>1. q[i] \in Callers /\ at(i, q[i])
          BY <2>7, <3>1, LenProperties DEF IsLine
        <4> QED BY <4>1, <2>3 DEF LineInv, TicketsHeld
      <3> HIDE DEF L
      <3> QED BY <2>4, <3>1, <3>2, SeqEqual
    <2> QED BY <1>2, <2>4, <2>5, <2>6, <2>7
  <1> QED BY <1>1, <1>2

\* A session whose gate keeps its counters and its callers keeps its line.
LEMMA SameLine ==
  ASSUME LineExact, LineExact', NEW s \in Sessions, gates'[s] = gates[s],
         gates[s] # NoGate => /\ depth'[gates[s]] = depth[gates[s]]
                              /\ serving'[gates[s]] = serving[gates[s]]
                              /\ \A c \in Callers : InLine(c) /\ myGate[c] = gates[s] =>
                                    /\ InLine(c)'
                                    /\ myGate'[c] = myGate[c]
                                    /\ myTicket'[c] = myTicket[c]
  PROVE  LineOf(s)' = LineOf(s)
  <1>1. CASE gates[s] = NoGate
    BY <1>1 DEF LineExact
  <1>2. CASE gates[s] # NoGate
    <2>1. PICK q \in Seq(Callers) : q = LineOf(s) /\ IsLine(s, q)
      BY <1>2 DEF LineExact
    <2>2. \A i \in 1..Len(q) : q[i] \in Callers
      BY LenProperties
    <2>3. IsLine(s, q)'
      BY <1>2, <2>1, <2>2 DEF IsLine
    <2> QED BY <1>2, <2>1, <2>3 DEF LineExact
  <1> QED BY <1>1, <1>2

\* The lines of SessionLine after a step that touches the line of at most one session.
LEMMA OneLineChanges ==
  ASSUME NEW s \in Sessions, NEW q, LineOf(s)' = q,
         \A r \in Sessions : r # s => LineOf(r)' = LineOf(r)
  PROVE  [r \in Sessions |-> LineOf(r)]' = [[r \in Sessions |-> LineOf(r)] EXCEPT ![s] = q]
  OBVIOUS

\* The statuses of SessionLine after a step that changes that of caller c alone.
LEMMA OneStatusChanges ==
  ASSUME NEW c \in Callers, NEW v, StatusOf(c)' = v,
         \A d \in Callers : d # c => StatusOf(d)' = StatusOf(d)
  PROVE  [d \in Callers |-> StatusOf(d)]' = [[d \in Callers |-> StatusOf(d)] EXCEPT ![c] = v]
  OBVIOUS

\* A step that changes the place of caller c alone changes no other status.
LEMMA OnePlaceChanges ==
  ASSUME TypeOK, NEW c \in Callers, NEW v, pc' = [pc EXCEPT ![c] = v]
  PROVE  pc'[c] = v /\ \A d \in Callers : d # c => StatusOf(d)' = StatusOf(d)
  BY DEF StatusOf, TypeOK

\* Taking a ticket is joining the line, whichever gate the ticket is of.
LEMMA JoinSimulated ==
  ASSUME TypeOK, LineExact, NEW c \in Callers, NEW s \in Sessions, pc[c] = "idle",
         ~(MaxDepth > 0 /\ Len(LineOf(s)) >= MaxDepth),
         LineOf(s)' = Append(LineOf(s), c),
         \A r \in Sessions : r # s => LineOf(r)' = LineOf(r),
         pc' = [pc EXCEPT ![c] = IF LineOf(s) = <<>> THEN "running" ELSE "parked"]
  PROVE  Line!Join(c, s)
  <1>1. StatusOf(c) = "away"
    BY DEF StatusOf
  <1>2. StatusOf(c)' = IF LineOf(s) = <<>> THEN "running" ELSE "queued"
    BY ZenonT(30), OnePlaceChanges DEF StatusOf
  <1>3. \A d \in Callers : d # c => StatusOf(d)' = StatusOf(d)
    BY OnePlaceChanges
  <1>4. /\ [r \in Sessions |-> LineOf(r)]'
             = [[r \in Sessions |-> LineOf(r)] EXCEPT ![s] = Append(LineOf(s), c)]
        /\ [d \in Callers |-> StatusOf(d)]'
             = [[d \in Callers |-> StatusOf(d)] EXCEPT
                  ![c] = IF LineOf(s) = <<>> THEN "running" ELSE "queued"]
    BY <1>2, <1>3, OneLineChanges, OneStatusChanges
  <1> QED BY <1>1, <1>4 DEF Line!Join, Line!AtBound

LEMMA JoinNewSimulated ==
  ASSUME TypeOK, LineInv, LineExact, LineExact', NEW c \in Callers, NEW s \in Sessions,
         pc[c] = "idle", gates[s] = NoGate, NEW g \in Gates, Unreferenced(g),
         TakeTicket(c, s, g, 0, 0, 0)
  PROVE  Line!Join(c, s)
  <1>1. /\ gates' = [gates EXCEPT ![s] = g]
        /\ serving' = [serving EXCEPT ![g] = 0]
        /\ depth' = [depth EXCEPT ![g] = 1]
        /\ myGate' = [myGate EXCEPT ![c] = g]
        /\ myTicket' = [myTicket EXCEPT ![c] = 0]
        /\ pc' = [pc EXCEPT ![c] = "running"]
        /\ ~Full(0)
    BY DEF TakeTicket
  <1>2. ~InLine(c) /\ InLine(c)' /\ gates'[s] = g /\ g # NoGate
    BY <1>1, SerializerAssumption DEF InLine, TypeOK
  <1>3. LineOf(s) = <<>> /\ Len(LineOf(s)) = 0
    BY EmptySeq DEF LineExact
  <1>4. <<c>> \in Seq(Callers) /\ Len(<<c>>) = 1 /\ <<c>>[1] = c
    OBVIOUS
  <1>5. IsLine(s, <<c>>)'
    BY <1>1, <1>2, <1>4 DEF IsLine, TypeOK
  <1>6. LineOf(s)' = <<c>>
    BY <1>2, <1>4, <1>5 DEF LineExact
  <1>7. LineOf(s)' = Append(LineOf(s), c)
    BY <1>3, <1>6
  <1>8. ASSUME NEW r \in Sessions, r # s
        PROVE  LineOf(r)' = LineOf(r)
    <2>1. gates'[r] = gates[r] /\ gates[r] # g
      BY <1>1, <1>8 DEF Unreferenced, TypeOK
    <2>2. \A d \in Callers : InLine(d) => InLine(d)' /\ myGate'[d] = myGate[d]
                                                     /\ myTicket'[d] = myTicket[d]
      BY <1>1, <1>2 DEF InLine, TypeOK
    <2>3. depth'[gates[r]] = depth[gates[r]] /\ serving'[gates[r]] = serving[gates[r]]
      BY <1>1, <2>1 DEF TypeOK
    <2> QED BY <2>1, <2>2, <2>3, SameLine
  <1>9. ~(MaxDepth > 0 /\ Len(LineOf(s)) >= MaxDepth)
    BY <1>1, <1>3 DEF Full
  <1>10. pc' = [pc EXCEPT ![c] = IF LineOf(s) = <<>> THEN "running" ELSE "parked"]
    BY <1>1, <1>3
  <1> QED BY <1>7, <1>8, <1>9, <1>10, JoinSimulated

LEMMA JoinExistingSimulated ==
  ASSUME TypeOK, LineInv, LineExact, LineExact', NEW c \in Callers, NEW s \in Sessions,
         pc[c] = "idle", gates[s] # NoGate,
         TakeTicket(c, s, gates[s], tickets[gates[s]], serving[gates[s]], depth[gates[s]])
  PROVE  Line!Join(c, s)
  <1> DEFINE g == gates[s]
  <1>1. /\ g \in Gates /\ serving[g] \in Nat /\ tickets[g] \in Nat /\ depth[g] \in Nat
        /\ depth[g] = tickets[g] - serving[g] /\ depth[g] > 0 /\ serving[g] # tickets[g]
    BY DEF LineInv, GatesLive, TypeOK
  <1>2. /\ gates' = gates /\ serving' = serving
        /\ depth' = [depth EXCEPT ![g] = depth[g] + 1]
        /\ myGate' = [myGate EXCEPT ![c] = g]
        /\ myTicket' = [myTicket EXCEPT ![c] = tickets[g]]
        /\ pc' = [pc EXCEPT ![c] = "parked"]
        /\ ~Full(depth[g])
    BY <1>1 DEF TakeTicket, TypeOK
  <1>3. ~InLine(c) /\ InLine(c)' /\ myGate'[c] = g /\ myTicket'[c] = tickets[g]
    BY <1>2 DEF InLine, TypeOK
  <1>4. \A d \in Callers : InLine(d) => /\ InLine(d)' /\ myGate'[d] = myGate[d]
                                        /\ myTicket'[d] = myTicket[d]
    BY <1>2, <1>3 DEF InLine, TypeOK
  <1>5. PICK q \in Seq(Callers) : q = LineOf(s) /\ q # <<>> /\ IsLine(s, q)
    BY DEF LineExact
  <1>6. /\ Append(q, c) \in Seq(Callers) /\ Len(Append(q, c)) = Len(q) + 1
        /\ \A i \in 1..Len(q) : Append(q, c)[i] = q[i] /\ q[i] \in Callers
        /\ Append(q, c)[Len(q) + 1] = c
        /\ Len(q) \in Nat
    BY AppendProperties, LenProperties
  <1>7. IsLine(s, Append(q, c))'
    <2>1. Len(Append(q, c)) = depth'[gates'[s]]
      BY <1>1, <1>2, <1>5, <1>6 DEF IsLine, TypeOK
    <2>2. ASSUME NEW i \in 1..Len(q)
          PROVE  /\ InLine(Append(q, c)[i])' /\ myGate'[Append(q, c)[i]] = gates'[s]
                 /\ myTicket'[Append(q, c)[i]] = serving'[gates'[s]] + i - 1
      <3>1. /\ InLine(q[i]) /\ myGate[q[i]] = g /\ q[i] \in Callers
            /\ myTicket[q[i]] = serving[g] + i - 1
        BY <1>5, <1>6 DEF IsLine
      <3>2. InLine(q[i])' /\ myGate'[q[i]] = g /\ myTicket'[q[i]] = serving[g] + i - 1
        BY <1>4, <3>1
      <3> QED BY <1>2, <1>6, <3>2
    <2>3. LET i == Len(q) + 1
          IN  /\ InLine(Append(q, c)[i])' /\ myGate'[Append(q, c)[i]] = gates'[s]
              /\ myTicket'[Append(q, c)[i]] = serving'[gates'[s]] + i - 1
      BY <1>1, <1>2, <1>3, <1>5, <1>6 DEF IsLine
    <2>4. \A i \in 1..Len(Append(q, c)) : i \in 1..Len(q) \/ i = Len(q) + 1
      BY <1>6
    <2> QED BY <2>1, <2>2, <2>3, <2>4 DEF IsLine
  <1>8. LineOf(s)' = Append(q, c)
    BY <1>2, <1>6, <1>7 DEF LineExact
  <1>9. ASSUME NEW r \in Sessions, r # s
        PROVE  LineOf(r)' = LineOf(r)
    <2>1. gates'[r] = gates[r] /\ serving' = serving
      BY <1>2
    <2>2. gates[r] # NoGate => depth'[gates[r]] = depth[gates[r]]
      BY <1>2, <1>9 DEF LineInv, GatesLive, TypeOK
    <2> QED BY <1>4, <2>1, <2>2, SameLine
  <1>10. ~(MaxDepth > 0 /\ Len(LineOf(s)) >= MaxDepth)
    BY <1>2, <1>5 DEF Full, IsLine
  <1> QED BY <1>2, <1>5, <1>8, <1>9, <1>10, JoinSimulated

\* A step that leaves the gates alone and moves nobody into or out of a line.
LEMMA QuietLines ==
  ASSUME LineExact, LineExact', UNCHANGED lineVars,
         \A d \in Callers : InLine(d) => /\ InLine(d)' /\ myGate'[d] = myGate[d]
                                         /\ myTicket'[d] = myTicket[d]
  PROVE  /\ \A r \in Sessions : LineOf(r)' = LineOf(r)
         /\ [r \in Sessions |-> LineOf(r)]' = [r \in Sessions |-> LineOf(r)]
  <1>1. \A r \in Sessions : LineOf(r)' = LineOf(r)
    BY SameLine DEF lineVars
  <1> QED BY <1>1

LEMMA QuietStatuses ==
  ASSUME \A d \in Callers : StatusOf(d)' = StatusOf(d)
  PROVE  [d \in Callers |-> StatusOf(d)]' = [d \in Callers |-> StatusOf(d)]
  OBVIOUS

LEMMA AcquireParallelSimulated ==
  ASSUME TypeOK, LineExact, LineExact', NEW c \in Callers, NEW tool \in Tools,
         AcquireParallel(c, tool)
  PROVE  UNCHANGED Line!vars
  <1>1. pc[c] = "idle" /\ pc' = [pc EXCEPT ![c] = "parallel"] /\ UNCHANGED <<lineVars, frameVars>>
    BY DEF AcquireParallel
  <1>2. \A d \in Callers : InLine(d) => /\ InLine(d)' /\ myGate'[d] = myGate[d]
                                        /\ myTicket'[d] = myTicket[d]
    BY <1>1 DEF InLine, TypeOK, frameVars
  <1>3. StatusOf(c) = "away" /\ StatusOf(c)' = "away"
    BY <1>1, OnePlaceChanges DEF StatusOf
  <1>4. \A d \in Callers : StatusOf(d)' = StatusOf(d)
    BY <1>1, <1>3, OnePlaceChanges
  <1> QED BY <1>1, <1>2, <1>4, QuietLines, QuietStatuses DEF Line!vars

LEMMA RefuseSimulated ==
  ASSUME TypeOK, LineExact, LineExact', NEW c \in Callers, NEW s \in Sessions,
         pc[c] = "idle", Refuse(c, s)
  PROVE  Line!Refuse(c, s)
  <1>1. /\ pc' = [pc EXCEPT ![c] = "refused"] /\ UNCHANGED <<lineVars, frameVars>>
        /\ gates[s] # NoGate /\ Full(depth[gates[s]])
    BY DEF Refuse
  <1>2. \A d \in Callers : InLine(d) => /\ InLine(d)' /\ myGate'[d] = myGate[d]
                                        /\ myTicket'[d] = myTicket[d]
    BY <1>1 DEF InLine, TypeOK, frameVars
  <1>3. MaxDepth > 0 /\ Len(LineOf(s)) >= MaxDepth
    BY <1>1 DEF LineExact, IsLine, Full
  <1>4. StatusOf(c) = "away" /\ StatusOf(c)' = "refused"
    BY <1>1, OnePlaceChanges DEF StatusOf
  <1>5. [d \in Callers |-> StatusOf(d)]'
          = [[d \in Callers |-> StatusOf(d)] EXCEPT ![c] = "refused"]
    BY <1>1, <1>4, OnePlaceChanges, OneStatusChanges
  <1> QED BY <1>1, <1>2, <1>3, <1>4, <1>5, QuietLines DEF Line!Refuse, Line!AtBound

\* Whoever holds the ticket being served is the head of its session's line.
LEMMA ServedIsHead ==
  ASSUME TypeOK, LineInv, LineExact, NEW c \in Callers, InLine(c),
         myTicket[c] = serving[myGate[c]]
  PROVE  /\ session[c] \in Sessions
         /\ LineOf(session[c]) # <<>>
         /\ Head(LineOf(session[c])) = c
  <1>1. /\ session[c] \in Sessions /\ gates[session[c]] = myGate[c]
        /\ gates[session[c]] # NoGate /\ myGate[c] \in Gates
    BY SerializerAssumption DEF LineInv, TicketsHeld
  <1>2. PICK q \in Seq(Callers) : /\ q = LineOf(session[c]) /\ q # <<>>
                                  /\ IsLine(session[c], q)
    BY <1>1 DEF LineExact
  <1>3. Len(q) \in Nat \ {0} /\ Head(q) = q[1] /\ q[1] \in Callers
    BY <1>2, EmptySeq, LenProperties
  <1>4. InLine(q[1]) /\ myGate[q[1]] = myGate[c] /\ myTicket[q[1]] = serving[myGate[c]]
    BY <1>1, <1>2, <1>3 DEF IsLine, TypeOK
  <1>5. q[1] = c
    BY <1>3, <1>4 DEF LineInv, TicketsHeld
  <1> QED BY <1>1, <1>2, <1>3, <1>5

LEMMA RecheckSimulated ==
  ASSUME TypeOK, LineInv, LineExact, LineExact', NEW c \in Callers, Recheck(c)
  PROVE  \/ \E s \in Sessions : Line!Enter(c, s)
         \/ UNCHANGED Line!vars
  <1>1. pc[c] = "woken" /\ UNCHANGED <<lineVars, frameVars>> /\ InLine(c)
    BY DEF Recheck, InLine
  <1>2. \A d \in Callers : InLine(d) => /\ InLine(d)' /\ myGate'[d] = myGate[d]
                                        /\ myTicket'[d] = myTicket[d]
    BY <1>1 DEF Recheck, InLine, TypeOK, frameVars
  <1>3. StatusOf(c) = "queued"
    BY <1>1 DEF StatusOf
  <1>4. CASE serving[myGate[c]] = myTicket[c]
    <2>1. pc' = [pc EXCEPT ![c] = "running"]
      BY <1>4 DEF Recheck
    <2>2. StatusOf(c)' = "running"
      BY ZenonT(30), <2>1, OnePlaceChanges DEF StatusOf
    <2>3. [d \in Callers |-> StatusOf(d)]'
            = [[d \in Callers |-> StatusOf(d)] EXCEPT ![c] = "running"]
      BY <2>1, <2>2, OnePlaceChanges, OneStatusChanges
    <2>4. Line!Enter(c, session[c]) /\ session[c] \in Sessions
      BY <1>1, <1>2, <1>3, <1>4, <2>3, ServedIsHead, QuietLines DEF Line!Enter
    <2> QED BY <2>4
  <1>5. CASE serving[myGate[c]] # myTicket[c]
    <2>1. pc' = [pc EXCEPT ![c] = "parked"]
      BY <1>5 DEF Recheck
    <2>2. StatusOf(c)' = "queued"
      BY <2>1 DEF StatusOf, TypeOK
    <2>3. \A d \in Callers : StatusOf(d)' = StatusOf(d)
      BY <1>3, <2>1, <2>2, OnePlaceChanges
    <2> QED BY <1>1, <1>2, <2>3, QuietLines, QuietStatuses DEF Line!vars
  <1> QED BY <1>4, <1>5

LEMMA ReturnSimulated ==
  ASSUME TypeOK, LineExact, LineExact', NEW c \in Callers, Return(c)
  PROVE  Line!Return(c) \/ UNCHANGED Line!vars
  <1>1. /\ pc[c] \in {"settled", "parallel", "refused"} /\ pc' = [pc EXCEPT ![c] = "idle"]
        /\ UNCHANGED lineVars
    BY DEF Return
  <1>2. \A d \in Callers : InLine(d) => /\ InLine(d)' /\ myGate'[d] = myGate[d]
                                        /\ myTicket'[d] = myTicket[d]
    BY DEF Return, InLine, TypeOK
  <1>3. StatusOf(c)' = "away"
    BY ZenonT(30), <1>1, OnePlaceChanges DEF StatusOf
  <1>4. CASE pc[c] = "refused"
    <2>1. StatusOf(c) = "refused"
      BY <1>4 DEF StatusOf
    <2>2. [d \in Callers |-> StatusOf(d)]'
            = [[d \in Callers |-> StatusOf(d)] EXCEPT ![c] = "away"]
      BY <1>1, <1>3, OnePlaceChanges, OneStatusChanges
    <2> QED BY <1>1, <1>2, <2>1, <2>2, QuietLines DEF Line!Return
  <1>5. CASE pc[c] \in {"settled", "parallel"}
    <2>1. StatusOf(c) = "away"
      BY <1>5 DEF StatusOf
    <2>2. \A d \in Callers : StatusOf(d)' = StatusOf(d)
      BY <1>1, <1>3, <2>1, OnePlaceChanges
    <2> QED BY <1>1, <1>2, <2>2, QuietLines, QuietStatuses DEF Line!vars
  <1> QED BY <1>1, <1>4, <1>5

\* The release that retires a ticket takes the head off the line; the others move up,
\* and when nobody is left the gate goes and the line is empty either way.
LEMMA LeaveSimulated ==
  ASSUME TypeOK, LineInv, LineExact, LineExact', NEW c \in Callers,
         pc[c] = "running", Release(c)
  PROVE  \E s \in Sessions : Line!Leave(c, s)
  <1>0. PICK s \in Sessions, g \in Gates : s = session[c] /\ g = myGate[c]
    BY DEF LineInv, TicketsHeld, InLine
  <1>1. /\ serving' = [serving EXCEPT ![g] = serving[g] + 1]
        /\ depth' = [depth EXCEPT ![g] = depth[g] - 1]
        /\ pc' = SettleAndBroadcast(c, g)
        /\ gates' = SelfClean(s, depth[g] - 1)
        /\ myGate' = myGate /\ myTicket' = myTicket
    BY <1>0 DEF Release, frameVars
  <1>2. /\ InLine(c) /\ gates[s] = g /\ g # NoGate
        /\ myTicket[c] = serving[g]
        /\ serving[g] \in Nat /\ depth[g] \in Nat /\ depth[g] > 0
    BY <1>0, SerializerAssumption DEF LineInv, TicketsHeld, GatesLive, InLine, TypeOK
  <1>3. gates' = IF depth[g] = 1 THEN [gates EXCEPT ![s] = NoGate] ELSE gates
    BY <1>1, <1>2 DEF SelfClean
  <1>4. \A d \in Callers : InLine(d)' <=> (InLine(d) /\ d # c)
    BY <1>1 DEF SettleAndBroadcast, InLine
  <1>5. PICK q \in Seq(Callers) : q = LineOf(s) /\ q # <<>> /\ IsLine(s, q)
    BY <1>2 DEF LineExact
  <1>6. Len(q) = depth[g] /\ Head(q) = c
    BY <1>0, <1>2, <1>5, ServedIsHead DEF IsLine
  <1>7. /\ Tail(q) \in Seq(Callers) /\ Len(Tail(q)) = depth[g] - 1
        /\ \A i \in 1..Len(Tail(q)) : Tail(q)[i] = q[i + 1]
        /\ \A i \in 1..Len(q) : q[i] \in Callers
    BY <1>5, <1>6, HeadTailProperties, LenProperties
  <1>8. LineOf(s)' = Tail(q)
    <2>1. CASE depth[g] = 1
      <3>1. gates'[s] = NoGate
        BY <1>2, <1>3, <2>1 DEF TypeOK
      <3>2. LineOf(s)' = <<>>
        BY <1>2, <3>1 DEF LineExact
      <3>3. Tail(q) = <<>>
        <4>1. Tail(q) \in Seq(Callers) /\ Len(Tail(q)) = 0
          BY <1>7, <2>1
        <4>2. \A t \in Seq(Callers) : t # <<>> => Len(t) \in Nat \ {0}
          BY EmptySeq
        <4> QED BY <4>1, <4>2
      <3> QED BY <3>2, <3>3
    <2>2. CASE depth[g] # 1
      <3>1. gates' = gates /\ gates'[s] = g
        BY <1>2, <1>3, <2>2
      <3>2. serving'[g] = serving[g] + 1 /\ depth'[g] = depth[g] - 1
        BY <1>1, <1>2 DEF TypeOK
      <3>3. ASSUME NEW i \in 1..Len(Tail(q))
            PROVE  /\ InLine(Tail(q)[i])' /\ myGate'[Tail(q)[i]] = g
                   /\ myTicket'[Tail(q)[i]] = serving'[g] + i - 1
        <4>1. i + 1 \in 1..Len(q) /\ i \in Nat /\ i >= 1
          BY <1>2, <1>6, <1>7
        <4>2. /\ InLine(q[i + 1]) /\ myGate[q[i + 1]] = g /\ q[i + 1] \in Callers
              /\ myTicket[q[i + 1]] = serving[g] + (i + 1) - 1
          BY <1>2, <1>5, <1>7, <4>1 DEF IsLine
        <4>3. q[i + 1] # c
          BY <1>2, <4>1, <4>2
        <4>4. InLine(q[i + 1])' /\ Tail(q)[i] = q[i + 1]
          BY <1>4, <1>7, <4>2, <4>3
        <4> QED BY <1>1, <1>2, <3>2, <4>1, <4>2, <4>4
      <3>4. IsLine(s, Tail(q))'
        BY <1>1, <1>7, <3>1, <3>2, <3>3 DEF IsLine
      <3> QED BY <1>2, <1>7, <3>1, <3>4 DEF LineExact
    <2> QED BY <2>1, <2>2
  <1>9. ASSUME NEW r \in Sessions, r # s
        PROVE  LineOf(r)' = LineOf(r)
    <2>1. gates'[r] = gates[r]
      BY <1>3, <1>9 DEF TypeOK
    <2>2. gates[r] # NoGate => /\ gates[r] # g /\ depth'[gates[r]] = depth[gates[r]]
                               /\ serving'[gates[r]] = serving[gates[r]]
      BY <1>1, <1>2, <1>9 DEF LineInv, GatesLive, TypeOK
    <2> QED BY <1>0, <1>1, <1>4, <2>1, <2>2, SameLine
  <1>10. StatusOf(c) = "running"
    BY DEF StatusOf
  <1>11. StatusOf(c)' = "away"
    BY <1>1 DEF StatusOf, SettleAndBroadcast
  <1>12. \A d \in Callers : d # c => StatusOf(d)' = StatusOf(d)
    BY <1>1 DEF StatusOf, SettleAndBroadcast
  <1>13. [d \in Callers |-> StatusOf(d)]'
           = [[d \in Callers |-> StatusOf(d)] EXCEPT ![c] = "away"]
    BY <1>11, <1>12, OneStatusChanges
  <1>14. [r \in Sessions |-> LineOf(r)]'
           = [[r \in Sessions |-> LineOf(r)] EXCEPT ![s] = Tail(q)]
    BY <1>2, <1>8, <1>9, OneLineChanges
  <1>15. Line!Leave(c, s)
    BY <1>2, <1>5, <1>6, <1>10, <1>13, <1>14 DEF Line!Leave
  <1> QED BY <1>2, <1>15

\* Every step of the serializer is a step of the abstract line or changes nothing of it.
LEMMA StepSimulated ==
  ASSUME TypeOK, LineInv, LineExact, LineExact', [Next]_vars
  PROVE  [Line!Next]_(Line!vars)
  <1>1. CASE UNCHANGED vars
    <2>1. /\ \A d \in Callers : InLine(d)' <=> InLine(d)
          /\ UNCHANGED <<lineVars, frameVars>>
      BY <1>1 DEF vars, lineVars, frameVars, InLine
    <2>2. \A d \in Callers : StatusOf(d)' = StatusOf(d)
      BY <1>1 DEF vars, StatusOf
    <2> QED BY <2>1, <2>2, QuietLines, QuietStatuses DEF Line!vars, frameVars
  <1>2. ASSUME NEW c \in Callers, NEW tool \in Tools, AcquireParallel(c, tool)
        PROVE  UNCHANGED Line!vars
    BY <1>2, AcquireParallelSimulated
  <1>3. ASSUME NEW c \in Callers, NEW s \in Sessions, NEW tool \in Tools, Acquire(c, s, tool)
        PROVE  Line!Join(c, s) \/ Line!Refuse(c, s)
    BY <1>3, JoinNewSimulated, JoinExistingSimulated, RefuseSimulated DEF Acquire
  <1>4. ASSUME NEW c \in Callers, Recheck(c)
        PROVE  (\E s \in Sessions : Line!Enter(c, s)) \/ UNCHANGED Line!vars
    BY <1>4, RecheckSimulated
  <1>5. ASSUME NEW c \in Callers, Release(c)
        PROVE  (\E s \in Sessions : Line!Leave(c, s)) \/ UNCHANGED vars
    BY <1>5, LeaveSimulated DEF Release
  <1>6. ASSUME NEW c \in Callers, Return(c)
        PROVE  Line!Return(c) \/ UNCHANGED Line!vars
    BY <1>6, ReturnSimulated
  <1> QED BY <1>1, <1>2, <1>3, <1>4, <1>5, <1>6 DEF Next, Line!Next

\* The serializer, with its tickets, wakeups and gates deleted and created again,
\* implements one bounded FIFO line per session: callers are served in the order they
\* came, one at a time, and refused exactly when the line is at its bound.
THEOREM LineRefinement == Spec => ImplementsSessionLine
  <1>1. Init => Line!Init
    <2> SUFFICES ASSUME Init
                 PROVE  Line!Init
      OBVIOUS
    <2>1. \A s \in Sessions : LineOf(s) = <<>>
      BY DEF Init, NewSerializer, LineOf
    <2>2. \A c \in Callers : StatusOf(c) = "away"
      BY DEF Init, StatusOf
    <2> QED BY <2>1, <2>2 DEF Line!Init
  <1>2. TypeOK /\ LineInv /\ LineExact /\ LineExact' /\ [Next]_vars
          => [Line!Next]_(Line!vars)
    BY StepSimulated
  <1> QED BY <1>1, <1>2, LineIsExact, LineInvariant, PTL
          DEF Spec, ImplementsSessionLine, Line!Spec
===============================================================================
