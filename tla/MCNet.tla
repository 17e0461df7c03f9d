------------------------------- MODULE MCNet -------------------------------
(***************************************************************************)
(* Model checking of Net: frames of two lengths, resets at any moment.    *)
(***************************************************************************)
EXTENDS Net
=============================================================================
