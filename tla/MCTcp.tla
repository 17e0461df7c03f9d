------------------------------- MODULE MCTcp -------------------------------
(***************************************************************************)
(* Model checking of Tcp: numbers of two bytes of four values.             *)
(***************************************************************************)
EXTENDS Tcp, TLC

CONSTANTS root, status, c1, c2

\* The numbers carry and wrap on the way.
FirstNumbers == {<<3, 2>>}
MainPages == << <<root, c1>>, <<status, c2>> >>
PathBytes == root :> 1 @@ status :> 2
CallbackBytes == c1 :> 1 @@ c2 :> 3 @@ Null :> 0
=============================================================================
