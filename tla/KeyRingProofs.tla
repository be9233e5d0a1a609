---------------------------- MODULE KeyRingProofs ----------------------------
(***************************************************************************)
(* Proofs about KeyRing, for any sets of requests and keys, whatever       *)
(* Control may render, and any refresh interval.                           *)
(***************************************************************************)
EXTENDS KeyRing, TLAPS

-------------------------------------------------------------------------------
(* The inductive invariant *)

\* A set the loader accepts.
Good(set) ==
    /\ set # NoSet /\ set # {}
    /\ \A rec \in set : rec.deployment = Deployment

\* A file that reads holds the key.
InFile(id) == file # NoSet /\ Has(file, id)

\* The ticker is never missed and never more than one interval away, and a refresh
\* under way belongs to the tick of this moment.
OnTime ==
    /\ stage # "off" => now <= tick /\ tick <= now + Interval
    /\ pcRefresh = "read" => stage # "off" /\ now = tick

\* What is served, and what is about to be, passed the loader.
GoodSets ==
    /\ stage # "off" => Good(keys)
    /\ loading # NoSet => Good(loading)

\* A key still live that the file no longer holds left it at most one interval, plus
\* one per failed refresh, before the next tick.
KeysWindow ==
    \A id \in Ids :
        stage # "off" /\ Has(keys, id) /\ ~InFile(id)
            => tick <= since[id] + Interval * (1 + fails)

\* A key the refresh has read and the file no longer holds left it after the read.
LoadingWindow ==
    \A id \in Ids :
        pcRefresh = "read" /\ loading # NoSet /\ Has(loading, id) /\ ~InFile(id)
            => tick <= since[id]

\* A request resolves against the live set, or against one swapped out at this moment.
SnapCurrent ==
    \A c \in Callers :
        pc[c] = "resolving" => stage = "bound" /\ (snap[c] = keys \/ now = tick - Interval)

RingInv ==
    TypeOK /\ OnTime /\ GoodSets /\ KeysWindow /\ LoadingWindow /\ SnapCurrent

-------------------------------------------------------------------------------
(* It holds at the start, and every step keeps it *)

\* One more failed refresh widens the window by one interval.
LEMMA OneMoreInterval ==
  ASSUME NEW i \in Nat, NEW f \in Nat
  PROVE  /\ i * (1 + (f + 1)) = i * (1 + f) + i
         /\ i * (1 + f) \in Nat /\ i <= i * (1 + f)
         /\ i * (1 + 0) = i
  OBVIOUS

\* The loader refuses, or returns the file, whole and good.
LEMMA LoadFileGood ==
  ASSUME NEW f \in Sets
  PROVE  /\ LoadFile(f) \in Sets
         /\ LoadFile(f) # NoSet => LoadFile(f) = f /\ Good(f)
  BY DEF LoadFile, Validate, Sets, Good

LEMMA InitInv == Init => RingInv
  <1> SUFFICES ASSUME Init PROVE RingInv
    OBVIOUS
  <1>1. TypeOK
    BY KeyRingAssumption DEF Init, TypeOK, Sets
  <1> QED BY <1>1 DEF Init, RingInv, OnTime, GoodSets, KeysWindow, LoadingWindow, SnapCurrent

LEMMA RenderStep ==
  ASSUME RingInv, NEW f \in Renders \cup {NoSet}, Render(f)
  PROVE  RingInv'
  <1>1. /\ now \in Nat /\ tick \in Nat /\ fails \in Nat /\ Interval \in Nat
        /\ \A id \in Ids : since[id] \in Nat
        /\ file' = f
        /\ since' = [id \in Ids |-> IF InFile(id) /\ (f = NoSet \/ ~Has(f, id))
                                    THEN now ELSE since[id]]
    BY KeyRingAssumption DEF RingInv, TypeOK, Render, InFile
  <1>2. TypeOK'
    BY <1>1 DEF RingInv, TypeOK, Render, Sets, procVars, callVars
  <1>3. OnTime' /\ GoodSets' /\ SnapCurrent'
    BY DEF RingInv, OnTime, GoodSets, SnapCurrent, Render, procVars, callVars, Good
  <1>4. \A id \in Ids : ~InFile(id)' =>
          since'[id] = IF InFile(id) THEN now ELSE since[id]
    BY <1>1 DEF InFile
  <1>5. KeysWindow'
    <2> SUFFICES ASSUME NEW id \in Ids, stage # "off", Has(keys, id), ~InFile(id)'
                 PROVE  tick <= since'[id] + Interval * (1 + fails)
      BY DEF KeysWindow, Render, procVars, Has
    <2>1. CASE InFile(id)
      <3>1. tick <= now + Interval /\ since'[id] = now
        BY <2>1, <1>4 DEF RingInv, OnTime
      <3>2. Interval <= Interval * (1 + fails) /\ Interval * (1 + fails) \in Nat
        BY <1>1, OneMoreInterval
      <3> QED BY <3>1, <3>2, <1>1
    <2>2. CASE ~InFile(id)
      BY <2>2, <1>4 DEF RingInv, KeysWindow
    <2> QED BY <2>1, <2>2
  <1>6. LoadingWindow'
    <2> SUFFICES ASSUME NEW id \in Ids, pcRefresh = "read", loading # NoSet, Has(loading, id),
                        ~InFile(id)'
                 PROVE  tick <= since'[id]
      BY DEF LoadingWindow, Render, procVars, Has
    <2>1. CASE InFile(id)
      BY <2>1, <1>1, <1>4 DEF RingInv, OnTime
    <2>2. CASE ~InFile(id)
      BY <2>2, <1>4 DEF RingInv, LoadingWindow
    <2> QED BY <2>1, <2>2
  <1> QED BY <1>2, <1>3, <1>5, <1>6 DEF RingInv

LEMMA AdvanceStep == RingInv /\ Advance => RingInv'
  <1> SUFFICES ASSUME RingInv, Advance PROVE RingInv'
    OBVIOUS
  <1>1. now \in Nat /\ tick \in Nat /\ Interval \in Nat /\ now' = now + 1 /\ now' \in 0..MaxTime
    BY KeyRingAssumption DEF RingInv, TypeOK, Advance
  <1>2. TypeOK'
    BY <1>1 DEF RingInv, TypeOK, Advance, procVars, callVars
  <1>3. OnTime'
    BY <1>1 DEF RingInv, TypeOK, OnTime, Advance, procVars
  <1>4. GoodSets' /\ KeysWindow' /\ LoadingWindow'
    BY DEF RingInv, GoodSets, KeysWindow, LoadingWindow, InFile, Has, Good, Advance, procVars
  <1>5. SnapCurrent'
    BY DEF SnapCurrent, Advance, callVars
  <1> QED BY <1>2, <1>3, <1>4, <1>5 DEF RingInv

LEMMA LoadStep == RingInv /\ Load => RingInv'
  <1> SUFFICES ASSUME RingInv, Load PROVE RingInv'
    OBVIOUS
  <1>1. now \in Nat /\ Interval \in Nat /\ tick' = now + Interval /\ file \in Sets /\ pcRefresh = "idle"
    BY KeyRingAssumption DEF RingInv, TypeOK, OnTime, Load
  <1>2. keys' = file /\ Good(file) /\ file # NoSet
    BY <1>1, LoadFileGood DEF Load
  <1>3. TypeOK'
    BY <1>1, <1>2 DEF RingInv, TypeOK, Load, callVars
  <1>4. OnTime' /\ LoadingWindow'
    BY <1>1 DEF RingInv, OnTime, LoadingWindow, Load
  <1>5. GoodSets'
    BY <1>2 DEF RingInv, GoodSets, Load, Good
  <1>6. KeysWindow'
    BY <1>2 DEF KeysWindow, InFile, Has, Load
  <1>7. SnapCurrent'
    BY DEF RingInv, SnapCurrent, Load, callVars
  <1> QED BY <1>3, <1>4, <1>5, <1>6, <1>7 DEF RingInv

LEMMA BindStep == RingInv /\ Bind => RingInv'
  <1> SUFFICES ASSUME RingInv, Bind PROVE RingInv'
    OBVIOUS
  <1>1. TypeOK'
    BY DEF RingInv, TypeOK, Bind, callVars
  <1>2. OnTime' /\ GoodSets' /\ SnapCurrent'
    BY DEF RingInv, OnTime, GoodSets, Good, SnapCurrent, Bind, callVars
  <1>3. KeysWindow' /\ LoadingWindow'
    BY DEF RingInv, KeysWindow, LoadingWindow, InFile, Has, Bind
  <1> QED BY <1>1, <1>2, <1>3 DEF RingInv

LEMMA ExitStep == RingInv /\ Exit => RingInv'
  <1> SUFFICES ASSUME RingInv, Exit PROVE RingInv'
    OBVIOUS
  <1>1. TypeOK'
    BY DEF RingInv, TypeOK, Exit, Sets
  <1> QED BY <1>1 DEF RingInv, OnTime, GoodSets, KeysWindow, LoadingWindow, SnapCurrent, Exit

LEMMA TickStep == RingInv /\ Tick => RingInv'
  <1> SUFFICES ASSUME RingInv, Tick PROVE RingInv'
    OBVIOUS
  <1>1. /\ loading' \in Sets
        /\ loading' # NoSet => loading' = file /\ Good(file)
    BY LoadFileGood DEF RingInv, TypeOK, Tick
  <1>2. TypeOK'
    BY <1>1 DEF RingInv, TypeOK, Tick, callVars
  <1>3. OnTime' /\ SnapCurrent'
    BY DEF RingInv, OnTime, SnapCurrent, Tick, callVars
  <1>4. GoodSets'
    BY <1>1 DEF RingInv, GoodSets, Good, Tick
  <1>5. KeysWindow'
    BY DEF RingInv, KeysWindow, InFile, Has, Tick
  <1>6. LoadingWindow'
    BY <1>1 DEF LoadingWindow, InFile, Has, Good, Tick
  <1> QED BY <1>2, <1>3, <1>4, <1>5, <1>6 DEF RingInv

LEMMA RefreshStep == RingInv /\ Refresh => RingInv'
  <1> SUFFICES ASSUME RingInv, Refresh PROVE RingInv'
    OBVIOUS
  <1>1. /\ now \in Nat /\ tick \in Nat /\ fails \in Nat /\ Interval \in Nat
        /\ \A id \in Ids : since[id] \in Nat
        /\ stage # "off" /\ now = tick /\ tick' = tick + Interval
        /\ loading' = NoSet /\ pcRefresh' = "idle"
        /\ UNCHANGED <<now, file, since, stage, callVars>>
    BY KeyRingAssumption DEF RingInv, TypeOK, OnTime, Refresh
  <1>2. keys' = IF loading = NoSet THEN keys ELSE loading
    BY DEF Refresh, Stored
  <1>3. fails' = IF loading = NoSet THEN fails + 1 ELSE 0
    BY DEF Refresh
  <1>4. TypeOK'
    BY <1>1, <1>2, <1>3 DEF RingInv, TypeOK, callVars, Sets
  <1>5. OnTime' /\ LoadingWindow'
    BY <1>1 DEF OnTime, LoadingWindow
  <1>6. GoodSets'
    BY <1>1, <1>2 DEF RingInv, GoodSets, Good
  <1>7. SnapCurrent'
    BY <1>1 DEF RingInv, SnapCurrent, callVars
  <1>8. KeysWindow'
    <2> SUFFICES ASSUME NEW id \in Ids, Has(keys', id), ~InFile(id)
                 PROVE  tick + Interval <= since[id] + Interval * (1 + fails')
      BY <1>1 DEF KeysWindow, InFile, Has
    <2>1. CASE loading = NoSet
      <3>1. tick <= since[id] + Interval * (1 + fails)
        BY <2>1, <1>1, <1>2 DEF RingInv, KeysWindow
      <3>2. /\ Interval * (1 + fails') = Interval * (1 + fails) + Interval
            /\ Interval * (1 + fails) \in Nat
        BY <2>1, <1>1, <1>3, OneMoreInterval
      <3> QED BY <3>1, <3>2, <1>1
    <2>2. CASE loading # NoSet
      <3>1. tick <= since[id]
        BY <2>2, <1>2 DEF RingInv, LoadingWindow, Refresh
      <3>2. Interval * (1 + fails') = Interval
        BY <2>2, <1>1, <1>3, OneMoreInterval
      <3> QED BY <3>1, <3>2, <1>1
    <2> QED BY <2>1, <2>2
  <1> QED BY <1>4, <1>5, <1>6, <1>7, <1>8 DEF RingInv

\* A request changes nothing but its own snapshot.
LEMMA CallStep ==
  ASSUME RingInv, NEW c \in Callers, Resolve(c) \/ \E id \in Ids : Provide(c, id)
  PROVE  RingInv'
  <1>1. UNCHANGED <<now, file, since, procVars>>
    BY DEF Resolve, Provide
  <1>2. TypeOK'
    <2>1. CASE Resolve(c)
      BY <2>1, <1>1 DEF RingInv, TypeOK, Resolve, procVars, Sets
    <2>2. ASSUME NEW id \in Ids, Provide(c, id) PROVE TypeOK'
      BY <2>2, <1>1 DEF RingInv, TypeOK, Provide, procVars
    <2> QED BY <2>1, <2>2
  <1>3. OnTime' /\ GoodSets' /\ KeysWindow' /\ LoadingWindow'
    BY <1>1 DEF RingInv, OnTime, GoodSets, Good, KeysWindow, LoadingWindow, InFile, Has, procVars
  <1>4. SnapCurrent'
    BY <1>1 DEF RingInv, TypeOK, SnapCurrent, Resolve, Provide, procVars
  <1> QED BY <1>2, <1>3, <1>4 DEF RingInv

LEMMA NextKeeps == RingInv /\ [Next]_vars => RingInv'
  <1> SUFFICES ASSUME RingInv, [Next]_vars PROVE RingInv'
    OBVIOUS
  <1>1. CASE UNCHANGED vars
    BY <1>1 DEF vars, RingInv, TypeOK, OnTime, GoodSets, Good, KeysWindow, LoadingWindow,
                SnapCurrent, InFile, Has
  <1>2. CASE \E f \in Renders \cup {NoSet} : Render(f)
    BY <1>2, RenderStep
  <1>3. CASE Advance \/ Load \/ Bind \/ Exit \/ Tick \/ Refresh
    BY <1>3, AdvanceStep, LoadStep, BindStep, ExitStep, TickStep, RefreshStep
  <1>4. CASE \E c \in Callers : Resolve(c) \/ \E id \in Ids : Provide(c, id)
    BY <1>4, CallStep
  <1> QED BY <1>1, <1>2, <1>3, <1>4 DEF Next

-------------------------------------------------------------------------------
(* The theorems *)

\* Every reachable state satisfies the inductive invariant.
THEOREM RingInvariant == Spec => []RingInv
  BY InitInv, NextKeeps, PTL DEF Spec

\* Load before bind and fail-safe refresh: a process that serves has a set, with keys
\* in it, all of its deployment, whatever Control leaves in the file.
THEOREM ServesLastGoodSetHolds == Spec => []ServesLastGoodSet
  <1>1. RingInv => ServesLastGoodSet
    BY DEF RingInv, GoodSets, Good, ServesLastGoodSet
  <1> QED BY <1>1, RingInvariant, PTL

\* A revoked key leaves the live set within one interval plus one per refresh failed
\* since the last success, for every interval.
THEOREM RevocationWindowHolds == Spec => []RevocationWindow
  <1>1. RingInv => RevocationWindow
    <2> SUFFICES ASSUME RingInv, NEW id \in Ids, stage # "off", Revoked(id), Has(keys, id)
                 PROVE  now - since[id] <= Interval * (1 + fails)
      BY DEF RevocationWindow
    <2>1. tick <= since[id] + Interval * (1 + fails) /\ now <= tick
      BY DEF RingInv, KeysWindow, OnTime, Revoked, InFile
    <2>2. now \in Nat /\ tick \in Nat /\ since[id] \in Nat /\ Interval * (1 + fails) \in Nat
      BY KeyRingAssumption, OneMoreInterval DEF RingInv, TypeOK
    <2> QED BY <2>1, <2>2
  <1> QED BY <1>1, RingInvariant, PTL

\* A resolution that races a refresh admits a key only if the live set vouches for it,
\* or the set that a refresh of this very moment replaced did.
THEOREM AdmittedIsCurrentHolds == Spec => AdmittedIsCurrent
  <1> DEFINE Admits ==
        \A c \in Callers :
          pc[c] = "resolving" /\ pc'[c] = "idle" /\ result'[c] # NoId
            => \/ Vouches(keys, bearer[c])
               \/ now = tick - Interval /\ Vouches(snap[c], bearer[c])
  <1>1. RingInv /\ [Next]_vars => [Admits]_vars
    <2> SUFFICES ASSUME RingInv, Next, NEW c \in Callers,
                        pc[c] = "resolving", pc'[c] = "idle", result'[c] # NoId
                 PROVE  \/ Vouches(keys, bearer[c])
                        \/ now = tick - Interval /\ Vouches(snap[c], bearer[c])
      OBVIOUS
    <2>1. Resolve(c)
      <3>1. ~Exit
        BY DEF Exit
      <3>2. pc' # pc
        OBVIOUS
      <3>3. PICK d \in Callers : Resolve(d) \/ \E id \in Ids : Provide(d, id)
        BY <3>1, <3>2 DEF Next, Render, Advance, Load, Bind, Tick, Refresh, callVars
      <3>4. d = c
        BY <3>3 DEF Resolve, Provide, RingInv, TypeOK
      <3> QED BY <3>3, <3>4 DEF Provide
    <2>2. Resolves(snap[c], bearer[c], now)
      BY <2>1 DEF Resolve, RingInv, TypeOK
    <2>3. \A rec \in snap[c] : rec.expires \in Nat
      <3>1. snap[c] \in Renders
        BY <2>1, <2>2 DEF Resolve, RingInv, TypeOK, Sets
      <3> QED BY <3>1, KeyRingAssumption
    <2>4. Vouches(snap[c], bearer[c])
      BY <2>2, <2>3 DEF Resolves, Vouches, RingInv, TypeOK
    <2>5. snap[c] = keys \/ now = tick - Interval
      BY DEF RingInv, SnapCurrent
    <2> QED BY <2>4, <2>5
  <1> QED BY <1>1, RingInvariant, PTL DEF Spec, AdmittedIsCurrent
===============================================================================
