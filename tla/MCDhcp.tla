------------------------------- MODULE MCDhcp -------------------------------
(***************************************************************************)
(* Model checking of Dhcp.                                                 *)
(***************************************************************************)
EXTENDS Dhcp, TLC

CONSTANTS s1, s2, a1, a2

OneServer == {s1}
TwoServers == {s1, s2}
OnePool == s1 :> a1
TwoPools == s1 :> a1 @@ s2 :> a2

\* A server that broadcasts all its replies; one that broadcasts its offer and
\* the answer to a request, and sends that to a renewal to the client's address.
AllOfSecond == {s2} \X BOOLEAN
InitialOfFirst == {<<s1, FALSE>>}

\* Every message but the request of an offered address and its answer.
ButRequest == {<<"DISCOVER", FALSE>>, <<"OFFER", FALSE>>, <<"REQUEST", TRUE>>, <<"ACK", TRUE>>}
OnlyRequest == {<<"REQUEST", FALSE>>}
=============================================================================
