----------------------------- MODULE MCMainLoop -----------------------------
(***************************************************************************)
(* Model checking of MainLoop with bytes of four values.                   *)
(***************************************************************************)
EXTENDS MainLoop
=============================================================================
