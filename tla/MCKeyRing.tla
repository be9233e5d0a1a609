------------------------------ MODULE MCKeyRing ------------------------------
(***************************************************************************)
(* TLC instances of KeyRing.                                               *)
(***************************************************************************)
EXTENDS KeyRing

CONSTANTS k1, k2

Rec(id, expires) == [id |-> id, deployment |-> Deployment, expires |-> expires]

\* A record that never expires expires past MaxTime.
\* Both keys; either of them revoked; one that expires; a set with a foreign record;
\* what is left when the last key is revoked.
MCRenders ==
    { {Rec(k1, MaxTime + 1), Rec(k2, MaxTime + 1)},
      {Rec(k1, MaxTime + 1)},
      {Rec(k1, 2), Rec(k2, MaxTime + 1)},
      {Rec(k1, MaxTime), [Rec(k2, MaxTime + 1) EXCEPT !.deployment = Foreign]},
      {} }
===============================================================================
