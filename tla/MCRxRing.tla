------------------------------ MODULE MCRxRing ------------------------------
(***************************************************************************)
(* Model checking of RxRing: a ring of a few frames in a chip memory only  *)
(* a little larger.                                                        *)
(***************************************************************************)
EXTENDS RxRing, TLC

\* The contents of frames only have to differ.
PacketSymmetry == Permutations(Packet)
=============================================================================
