----------------------------- MODULE HostTable -----------------------------
(***************************************************************************)
(* What an ARP cache of bounded size promises: it knows the hosts, pairs   *)
(* of an address and a hardware address, that it has learned last, each    *)
(* once, and forgets the one learned first when it needs the room.  A host *)
(* with another hardware address is another pair: the table may learn it   *)
(* as well.                                                                *)
(***************************************************************************)
EXTENDS Naturals, Sequences

CONSTANTS
    Host,       \* pairs of an address and a hardware address
    Capacity    \* hosts the table can hold

VARIABLE known  \* the hosts known, the one learned first at the head

Init == known = << >>

Knows(h) == \E i \in 1 .. Len(known) : known[i] = h

Learn(h) == /\ ~Knows(h)
            /\ known' = Append(IF Len(known) = Capacity THEN Tail(known) ELSE known, h)

Next == \E h \in Host : Learn(h)

Spec == Init /\ [][Next]_known
=============================================================================
