--------------------------- MODULE MCPortService ---------------------------
(***************************************************************************)
(* Model checking of PortService: more ports than slots, so that the table *)
(* fills up, and two callbacks, so that an overwritten one shows.          *)
(***************************************************************************)
EXTENDS PortService

\* One port more than slots.
MCPort == {7, 53, 68, 80}
=============================================================================
