------------------------------ MODULE SessionLine ------------------------------
(***************************************************************************)
(* What the serializer promises (NFR-IC-05), with no gates, tickets or     *)
(* condition variables: one line of callers per session, served strictly   *)
(* in arrival order, one at a time; a caller is refused exactly when the   *)
(* line is at its bound.                                                   *)
(***************************************************************************)
EXTENDS Integers, Sequences

CONSTANTS
    Callers,    \* who may stand in a line
    Sessions,   \* one line each
    MaxDepth    \* bound on a line, <= 0 for none

VARIABLES
    line,       \* session -> its callers, the one being served first
    status      \* caller -> away, refused, queued or running

vars == <<line, status>>

Init ==
    /\ line = [s \in Sessions |-> <<>>]
    /\ status = [c \in Callers |-> "away"]

AtBound(s) == MaxDepth > 0 /\ Len(line[s]) >= MaxDepth

Join(c, s) ==
    /\ status[c] = "away"
    /\ ~AtBound(s)
    /\ line' = [line EXCEPT ![s] = Append(@, c)]
    /\ status' = [status EXCEPT ![c] = IF line[s] = <<>> THEN "running" ELSE "queued"]

Refuse(c, s) ==
    /\ status[c] = "away"
    /\ AtBound(s)
    /\ status' = [status EXCEPT ![c] = "refused"]
    /\ UNCHANGED line

Enter(c, s) ==
    /\ status[c] = "queued"
    /\ line[s] # <<>> /\ Head(line[s]) = c
    /\ status' = [status EXCEPT ![c] = "running"]
    /\ UNCHANGED line

Leave(c, s) ==
    /\ status[c] = "running"
    /\ line[s] # <<>> /\ Head(line[s]) = c
    /\ line' = [line EXCEPT ![s] = Tail(@)]
    /\ status' = [status EXCEPT ![c] = "away"]

Return(c) ==
    /\ status[c] = "refused"
    /\ status' = [status EXCEPT ![c] = "away"]
    /\ UNCHANGED line

Next ==
    \E c \in Callers :
        \/ Return(c)
        \/ \E s \in Sessions : Join(c, s) \/ Refuse(c, s) \/ Enter(c, s) \/ Leave(c, s)

Spec == Init /\ [][Next]_vars
===============================================================================
