---------------------------- MODULE MCUsartRing ----------------------------
(***************************************************************************)
(* Model checking of UsartRing.                                            *)
(***************************************************************************)
EXTENDS UsartRing

\* The inductive invariant of the proofs, checked before it is proved.
IInv == TypeOK /\ NoLostWakeup /\ SendIntact
=============================================================================
