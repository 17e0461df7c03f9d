------------------------------- MODULE MCArp -------------------------------
(***************************************************************************)
(* Model checking of Arp: more hosts than the cache holds.                 *)
(***************************************************************************)
EXTENDS Arp, TLC

CONSTANTS h1, h2, h3, m1, m2, m3, m4

\* Hardware addresses only have to differ.
ThreeHosts == h1 :> m1 @@ h2 :> m2 @@ h3 :> m3
=============================================================================
