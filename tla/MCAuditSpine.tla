----------------------------- MODULE MCAuditSpine -----------------------------
(***************************************************************************)
(* TLC instances of AuditSpine.                                            *)
(***************************************************************************)
EXTENDS AuditSpine, TLC

Symmetry == Permutations(Emitters)
===============================================================================
