---------------------------- MODULE PortService ----------------------------
(***************************************************************************)
(* The table of port services (utils/port_service.c) as its two users see  *)
(* it.  net/udp.c:28 and net/tcp.c:132 both define an external array named *)
(* port_services, of the same size and without initialiser.  The compilers *)
(* the Makefile is written for make that a common symbol, which the linker *)
(* merges: UDP and TCP work on one table.  (A compiler that defaults to    *)
(* -fno-common rejects the program.)                                       *)
(***************************************************************************)
EXTENDS Integers, FiniteSets

CONSTANTS
    Port,       \* the ports applications register, never 0
    Callback,   \* the service functions
    Null,       \* the null pointer
    Size        \* NET_UDP_SERVICES_LIST_SIZE and NET_TCP_SERVICES_LIST_SIZE

ASSUME PortAssumption == Port \subseteq Nat \ {0}
ASSUME NullAssumption == Null \notin Callback
ASSUME SizeAssumption == Size \in 1 .. 255

VARIABLES
    port_services,  \* the merged array
    boot,           \* the server initialisations network_init still has to do
    call            \* history: the last call and its argument or answer

vars == <<port_services, boot, call>>

Slots == 0 .. Size - 1
Empty == [port |-> 0, callback |-> Null]

\* The first slot that holds port p, as the loops over the list find it.
IsFirst(list, p, i) == /\ i \in Slots
                       /\ list[i].port = p
                       /\ \A j \in Slots : j < i => list[j].port # p

Holds(list, p) == \E i \in Slots : list[i].port = p
First(list, p) == CHOOSE i \in Slots : IsFirst(list, p, i)

port_service_init == [i \in Slots |-> Empty]

port_service_set_NoSearch(list, p, c) ==
    IF Holds(list, 0)
    THEN [list EXCEPT ![First(list, 0)] = [port |-> p, callback |-> c]]
    ELSE list

\* A known port gets the new callback, a new one takes the first empty slot;
\* with no slot left the call has no effect.
port_service_set(list, p, c) ==
    CASE Holds(list, p) ->
           [list EXCEPT ![First(list, p)].callback = c]
      [] ~Holds(list, p) /\ Holds(list, 0) ->
           [list EXCEPT ![First(list, 0)] = [port |-> p, callback |-> c]]
      [] OTHER -> list

port_service_remove_KeepsCallback(list, p) ==
    IF Holds(list, p) THEN [list EXCEPT ![First(list, p)].port = 0] ELSE list

port_service_remove(list, p) ==
    IF Holds(list, p) THEN [list EXCEPT ![First(list, p)] = Empty] ELSE list

port_service_get_Port(list, p) ==
    IF Holds(list, p) THEN list[First(list, p)].port ELSE Null

port_service_get(list, p) ==
    IF Holds(list, p) THEN list[First(list, p)].callback ELSE Null

Call(op, p, c) == [op |-> op, port |-> p, callback |-> c]

Init == /\ port_services = [i \in Slots |-> Empty]
        /\ boot = <<"udp", "tcp">>
        /\ call = Call("none", 0, Null)

-----------------------------------------------------------------------------
(* network_init prepares the servers before any application runs.          *)

udp_server_init == /\ boot = <<"udp", "tcp">>
                   /\ boot' = <<"tcp">>
                   /\ port_services' = port_service_init
                   /\ UNCHANGED call

tcp_server_init == /\ boot = <<"tcp">>
                   /\ boot' = << >>
                   /\ port_services' = port_service_init
                   /\ UNCHANGED call

Running == boot = << >>

udp_port_register(p, c) ==
    /\ Running
    /\ port_services' = port_service_set(port_services, p, c)
    /\ call' = Call("register", p, c)
    /\ UNCHANGED boot

udp_port_unregister(p) ==
    /\ Running
    /\ port_services' = port_service_remove(port_services, p)
    /\ call' = Call("unregister", p, Null)
    /\ UNCHANGED boot

tcp_port_register(p, c) ==
    /\ Running
    /\ port_services' = port_service_set(port_services, p, c)
    /\ call' = Call("register", p, c)
    /\ UNCHANGED boot

tcp_port_unregister(p) ==
    /\ Running
    /\ port_services' = port_service_remove(port_services, p)
    /\ call' = Call("unregister", p, Null)
    /\ UNCHANGED boot

\* What a packet for port p finds: udp_receive, or tcp_receive for a segment
\* with data.
Receive(p) == /\ Running
              /\ call' = Call("lookup", p, port_service_get(port_services, p))
              /\ UNCHANGED <<port_services, boot>>

udp_receive(p) == Receive(p)

tcp_receive(p) == Receive(p)

Next == \/ udp_server_init
        \/ tcp_server_init
        \/ \E p \in Port, c \in Callback : udp_port_register(p, c)
        \/ \E p \in Port, c \in Callback : tcp_port_register(p, c)
        \/ \E p \in Port : udp_port_unregister(p)
        \/ \E p \in Port : tcp_port_unregister(p)
        \/ \E p \in Port \cup {0} : udp_receive(p)
        \/ \E p \in Port \cup {0} : tcp_receive(p)

Spec == Init /\ [][Next]_vars

-----------------------------------------------------------------------------

Entry == [port : Port \cup {0}, callback : Callback \cup {Null}]

\* Every variable stays in its type.
TypeOK == /\ port_services \in [Slots -> Entry]
          /\ boot \in {<<"udp", "tcp">>, <<"tcp">>, << >>}
          /\ call.port \in Port \cup {0}
          /\ call.callback \in Callback \cup {Null}

\* After any series of registrations and removals no port occupies two slots,
\* so that removing a port removes its service, and a slot has a callback
\* exactly when it has a port: a packet for port 0 finds nothing
\* (port_service.c:35-58,66-69).
TableSound ==
    /\ \A i, j \in Slots : port_services[i].port = port_services[j].port
                           => i = j \/ port_services[i].port = 0
    /\ \A i \in Slots : port_services[i].port = 0
                        <=> port_services[i].callback = Null

\* The table is a bounded map from ports to callbacks (port_service.h:69-103).
Registered == {port_services[i].port : i \in Slots} \ {0}

Map == INSTANCE PortMap WITH
         map <- [p \in Registered |-> port_service_get(port_services, p)],
         Capacity <- Size

ImplementsMap == Map!Spec
=============================================================================
