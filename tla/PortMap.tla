------------------------------ MODULE PortMap ------------------------------
(***************************************************************************)
(* What a table of port services promises: a bounded map from ports to     *)
(* callbacks.  Registering replaces the callback of a port it knows, adds  *)
(* a new port while there is room and is dropped otherwise; looking up a   *)
(* port answers with its callback, and port 0 never has one.               *)
(***************************************************************************)
EXTENDS Naturals, FiniteSets

CONSTANTS
    Port,       \* ports that may be registered
    Callback,   \* the service functions
    Null,       \* no function
    Capacity    \* ports the map can hold

VARIABLES
    map,        \* the registered ports with their callbacks
    call        \* the last call: its operation, port, and the callback
                \* it was given or has answered

vars == <<map, call>>

Init == /\ map = [p \in {} |-> Null]
        /\ call = [op |-> "none", port |-> 0, callback |-> Null]

Room(p) == p \in DOMAIN map \/ Cardinality(DOMAIN map) < Capacity

Register(p, c) ==
    /\ call' = [op |-> "register", port |-> p, callback |-> c]
    /\ map' = IF Room(p)
              THEN [q \in DOMAIN map \cup {p} |-> IF q = p THEN c ELSE map[q]]
              ELSE map

Unregister(p) ==
    /\ call' = [op |-> "unregister", port |-> p, callback |-> Null]
    /\ map' = [q \in DOMAIN map \ {p} |-> map[q]]

Lookup(p) ==
    /\ call' = [op |-> "lookup", port |-> p,
                callback |-> IF p \in DOMAIN map THEN map[p] ELSE Null]
    /\ UNCHANGED map

Next == \/ \E p \in Port, c \in Callback : Register(p, c)
        \/ \E p \in Port : Unregister(p)
        \/ \E p \in Port \cup {0} : Lookup(p)

Spec == Init /\ [][Next]_vars
=============================================================================
