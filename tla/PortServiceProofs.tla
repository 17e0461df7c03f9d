------------------------- MODULE PortServiceProofs -------------------------
(***************************************************************************)
(* Proofs about PortService, for any number of slots, ports and callbacks. *)
(***************************************************************************)
EXTENDS PortService, WellFoundedInduction, FiniteSetTheorems, TLAPS

IsTable(list) == list \in [Slots -> Entry]

\* No port has two slots, and a slot has a callback exactly when it has a port.
Sound(list) ==
    /\ \A i, j \in Slots : list[i].port = list[j].port => i = j \/ list[i].port = 0
    /\ \A i \in Slots : list[i].port = 0 <=> list[i].callback = Null

\* A non-empty set of natural numbers has a least element: what a loop over the
\* slots stops at.
LEMMA Least ==
    ASSUME NEW S, S \subseteq Nat, S # {}
    PROVE  \E i \in S : \A j \in S : ~ (j < i)
<1> DEFINE R == {r \in Nat \X Nat : r[1] < r[2]}
<1>1. IsWellFoundedOn(R, Nat)
  BY NatLessThanWellFounded, Zenon DEF OpToRel
<1>2. \A i, j \in Nat : j < i => <<j, i>> \in R
  OBVIOUS
<1>3. PICK i \in S : \A j \in S : ~ (<<j, i>> \in R)
  <2> HIDE DEF R
  <2> QED
    BY <1>1, WFMin
<1> QED
  BY <1>2, <1>3

\* The loops over the list find a slot, when there is one.
LEMMA FirstFound ==
    ASSUME NEW list, NEW p, Holds(list, p)
    PROVE  First(list, p) \in Slots /\ list[First(list, p)].port = p
<1> DEFINE S == {i \in Slots : list[i].port = p}
<1>1. S \subseteq Nat /\ S # {}
  BY SizeAssumption DEF Holds, Slots
<1>2. PICK i \in S : \A j \in S : ~ (j < i)
  <2> HIDE DEF S
  <2> QED
    BY <1>1, Least
<1>3. IsFirst(list, p, i)
  BY <1>2 DEF IsFirst
<1> QED
  BY <1>3 DEF First, IsFirst

\* ... and in a sound table it is the only one.
LEMMA OnlyOne ==
    ASSUME NEW list, IsTable(list), Sound(list), NEW i \in Slots, list[i].port # 0
    PROVE  Holds(list, list[i].port) /\ First(list, list[i].port) = i
<1>1. Holds(list, list[i].port)
  BY DEF Holds
<1> QED
  BY <1>1, FirstFound DEF Sound

\* port_service_set keeps a table sound.
LEMMA SetSound ==
    ASSUME NEW list, IsTable(list), Sound(list), NEW p \in Port, NEW c \in Callback
    PROVE  IsTable(port_service_set(list, p, c)) /\ Sound(port_service_set(list, p, c))
<1> p \in Nat /\ p # 0 /\ c # Null
  BY PortAssumption, NullAssumption
<1>1. CASE Holds(list, p)
  <2> DEFINE f == First(list, p)
             new == [list EXCEPT ![f].callback = c]
  <2>1. f \in Slots /\ list[f].port = p
    BY <1>1, FirstFound
  <2> HIDE DEF f
  <2>2. IsTable(new)
    BY <2>1 DEF IsTable, Entry
  <2>3. \A i \in Slots : /\ new[i].port = list[i].port
                         /\ new[i].callback = IF i = f THEN c ELSE list[i].callback
    BY <2>1 DEF IsTable, Entry
  <2>4. Sound(new)
    BY <2>1, <2>3 DEF Sound
  <2> QED
    BY <1>1, <2>2, <2>4 DEF port_service_set, f
<1>2. CASE ~Holds(list, p) /\ Holds(list, 0)
  <2> DEFINE f == First(list, 0)
             new == [list EXCEPT ![f] = [port |-> p, callback |-> c]]
  <2>1. f \in Slots /\ list[f].port = 0
    BY <1>2, FirstFound
  <2> HIDE DEF f
  <2>2. IsTable(new)
    BY <2>1 DEF IsTable, Entry
  <2>3. \A i \in Slots : /\ new[i].port = IF i = f THEN p ELSE list[i].port
                         /\ new[i].callback = IF i = f THEN c ELSE list[i].callback
    BY <2>1 DEF IsTable, Entry
  <2>4. Sound(new)
    BY <1>2, <2>1, <2>3 DEF Sound, Holds
  <2> QED
    BY <1>2, <2>2, <2>4 DEF port_service_set, f
<1>3. CASE ~Holds(list, p) /\ ~Holds(list, 0)
  BY <1>3 DEF port_service_set
<1> QED
  BY <1>1, <1>2, <1>3

\* ... and port_service_remove does.
LEMMA RemoveSound ==
    ASSUME NEW list, IsTable(list), Sound(list), NEW p \in Port
    PROVE  IsTable(port_service_remove(list, p)) /\ Sound(port_service_remove(list, p))
<1>1. CASE Holds(list, p)
  <2> DEFINE f == First(list, p)
             new == [list EXCEPT ![f] = Empty]
  <2>1. f \in Slots
    BY <1>1, FirstFound
  <2> HIDE DEF f
  <2>2. IsTable(new)
    BY <2>1 DEF IsTable, Entry, Empty
  <2>3. \A i \in Slots :
           /\ new[i].port = IF i = f THEN 0 ELSE list[i].port
           /\ new[i].callback = IF i = f THEN Null ELSE list[i].callback
    BY <2>1 DEF IsTable, Entry, Empty
  <2>4. Sound(new)
    BY <2>3 DEF Sound
  <2> QED
    BY <1>1, <2>2, <2>4 DEF port_service_remove, f
<1>2. CASE ~Holds(list, p)
  BY <1>2 DEF port_service_remove
<1> QED
  BY <1>1, <1>2

\* What a lookup returns is a callback of the table or the null pointer.
LEMMA GetType ==
    ASSUME NEW list, IsTable(list), NEW p
    PROVE  port_service_get(list, p) \in Callback \cup {Null}
BY FirstFound DEF IsTable, Entry, port_service_get

\* An initialised table.
LEMMA InitialTable == IsTable(port_service_init) /\ Sound(port_service_init)
BY DEF IsTable, Sound, port_service_init, Entry, Empty

-----------------------------------------------------------------------------
(* The invariant.  Until network_init has prepared both servers the table  *)
(* is as it was.                                                           *)

IInv == /\ TypeOK
        /\ Sound(port_services)
        /\ ~Running => port_services = port_service_init

\* The invariant holds at the start, with an empty table.
LEMMA InitIInv == Init => IInv
<1> SUFFICES ASSUME Init
             PROVE  IInv
  OBVIOUS
<1>1. port_services = port_service_init
  BY DEF Init, port_service_init
<1>2. TypeOK
  BY <1>1, InitialTable DEF Init, TypeOK, IsTable, Call
<1> QED
  BY <1>1, <1>2, InitialTable DEF IInv

\* Every call of either transport keeps it.
LEMMA StepIInv == IInv /\ [Next]_vars => IInv'
<1> SUFFICES ASSUME IInv, [Next]_vars
             PROVE  IInv'
  OBVIOUS
<1>0. IsTable(port_services) /\ Sound(port_services) /\ TypeOK
  BY DEF IInv, TypeOK, IsTable
<1>1. CASE udp_server_init
  BY <1>0, <1>1, InitialTable DEF udp_server_init, IInv, TypeOK, IsTable
<1>2. CASE tcp_server_init
  BY <1>0, <1>2, InitialTable DEF tcp_server_init, IInv, TypeOK, IsTable, Running
<1>3. ASSUME NEW p \in Port, NEW c \in Callback,
             udp_port_register(p, c) \/ tcp_port_register(p, c)
      PROVE  IInv'
  <2>1. IsTable(port_services') /\ Sound(port_services')
    BY <1>0, <1>3, SetSound DEF udp_port_register, tcp_port_register
  <2>2. call'.port = p /\ call'.callback = c
    BY <1>3 DEF udp_port_register, tcp_port_register, Call
  <2>3. Running /\ boot' = boot
    BY <1>3 DEF udp_port_register, tcp_port_register
  <2> QED
    BY <1>0, <2>1, <2>2, <2>3 DEF IInv, TypeOK, IsTable, Running
<1>4. ASSUME NEW p \in Port, udp_port_unregister(p) \/ tcp_port_unregister(p)
      PROVE  IInv'
  <2>1. IsTable(port_services') /\ Sound(port_services')
    BY <1>0, <1>4, RemoveSound DEF udp_port_unregister, tcp_port_unregister
  <2>2. call'.port = p /\ call'.callback = Null
    BY <1>4 DEF udp_port_unregister, tcp_port_unregister, Call
  <2>3. Running /\ boot' = boot
    BY <1>4 DEF udp_port_unregister, tcp_port_unregister
  <2> QED
    BY <1>0, <2>1, <2>2, <2>3 DEF IInv, TypeOK, IsTable, Running
<1>5. ASSUME NEW p \in Port \cup {0}, udp_receive(p) \/ tcp_receive(p)
      PROVE  IInv'
  <2>1. call' = Call("lookup", p, port_service_get(port_services, p))
    BY <1>5 DEF udp_receive, tcp_receive, Receive
  <2>2. call'.port = p /\ call'.callback \in Callback \cup {Null}
    BY <1>0, <2>1, GetType DEF Call
  <2>3. UNCHANGED <<port_services, boot>>
    BY <1>5 DEF udp_receive, tcp_receive, Receive
  <2> QED
    BY <1>0, <2>2, <2>3 DEF IInv, TypeOK, Running
<1>6. CASE UNCHANGED vars
  BY <1>6 DEF vars, IInv, TypeOK, Running
<1> QED
  BY <1>1, <1>2, <1>3, <1>4, <1>5, <1>6 DEF Next

\* Every variable of the table and its users stays in its type.
THEOREM TypeCorrect == Spec => []TypeOK
<1>1. IInv => TypeOK
  BY DEF IInv
<1> QED
  BY <1>1, InitIInv, StepIInv, PTL DEF Spec

\* No series of registrations and removals, by UDP and TCP in any order, puts a
\* port in two slots or leaves a callback without a port (port_service.c:27-73).
THEOREM TableStaysSound == Spec => []TableSound
<1>1. IInv => TableSound
  BY DEF IInv, Sound, TableSound
<1> QED
  BY <1>1, InitIInv, StepIInv, PTL DEF Spec

-----------------------------------------------------------------------------
(* The table is the map of PortMap.  The two definitions give the mapping  *)
(* for any table, so that the lemmas serve a state and its successor.      *)

Ports(list) == {list[i].port : i \in Slots} \ {0}

MapOf(list) == [p \in Ports(list) |-> port_service_get(list, p)]

\* The mapping of ImplementsMap is MapOf, before and after a step.
LEMMA MapIsMapOf ==
    /\ [p \in Registered |-> port_service_get(port_services, p)] = MapOf(port_services)
    /\ [p \in Registered |-> port_service_get(port_services, p)]' = MapOf(port_services')
BY DEF Registered, MapOf, Ports, port_service_get, First, IsFirst, Holds

\* A lookup in the table is one in the map.
LEMMA GetIsLookup ==
    ASSUME NEW list, IsTable(list), Sound(list), NEW p \in Port \cup {0}
    PROVE  port_service_get(list, p) = IF p \in Ports(list) THEN MapOf(list)[p] ELSE Null
<1>1. CASE p \in Ports(list)
  BY <1>1 DEF MapOf
<1>2. CASE p \notin Ports(list) /\ p # 0
  BY <1>2 DEF Ports, Holds, port_service_get
<1>3. CASE p = 0
  BY <1>3, FirstFound DEF Sound, port_service_get, Ports
<1> QED
  BY <1>1, <1>2, <1>3

\* What a slot holds is what a lookup of its port finds.
LEMMA GetSlot ==
    ASSUME NEW list, IsTable(list), Sound(list), NEW i \in Slots, list[i].port # 0
    PROVE  port_service_get(list, list[i].port) = list[i].callback
BY OnlyOne DEF port_service_get

\* Two sound tables with the same pairs of port and callback are the same map.
LEMMA SameMap ==
    ASSUME NEW list, IsTable(list), Sound(list), NEW map, NEW P,
           map = [p \in P |-> map[p]], P = Ports(list),
           \A i \in Slots : list[i].port # 0 => map[list[i].port] = list[i].callback
    PROVE  MapOf(list) = map
<1>1. ASSUME NEW p \in P
      PROVE  port_service_get(list, p) = map[p]
  <2>1. PICK i \in Slots : list[i].port = p /\ p # 0
    BY DEF Ports
  <2> QED
    BY <2>1, GetSlot
<1> QED
  BY <1>1 DEF MapOf

\* There are Size slots.
LEMMA SlotCount == IsFiniteSet(Slots) /\ Cardinality(Slots) = Size
BY FS_Interval, SizeAssumption DEF Slots

\* A table with an empty slot holds fewer ports than there are slots ...
LEMMA RoomLeft ==
    ASSUME NEW list, IsTable(list), Holds(list, 0)
    PROVE  Cardinality(Ports(list)) < Size
<1>1. PICK e \in Slots : list[e].port = 0
  BY DEF Holds
<1> DEFINE used == Slots \ {e}
           port == [i \in used |-> list[i].port]
<1>2. IsFiniteSet(used) /\ Cardinality(used) = Size - 1
  BY <1>1, SlotCount, FS_RemoveElement
<1>3. Ports(list) \subseteq {port[i] : i \in used}
  BY <1>1 DEF Ports
<1>4. IsFiniteSet({port[i] : i \in used}) /\ Cardinality({port[i] : i \in used}) <= Size - 1
  <2> DEFINE T == {port[i] : i \in used}
  <2>1. port \in Surjection(used, T)
    BY DEF Surjection
  <2> HIDE DEF port, T, used
  <2>2. IsFiniteSet(T) /\ Cardinality(T) <= Cardinality(used)
    BY <1>2, <2>1, FS_Surjection
  <2> QED
    BY <1>2, <2>2 DEF T
<1>5. Cardinality(Ports(list)) <= Size - 1
  <2> DEFINE T == {port[i] : i \in used}
  <2> HIDE DEF T
  <2>1. Ports(list) \subseteq T /\ IsFiniteSet(T) /\ Cardinality(T) <= Size - 1
    BY <1>3, <1>4 DEF T
  <2>2. IsFiniteSet(Ports(list)) /\ Cardinality(Ports(list)) <= Cardinality(T)
    BY <2>1, FS_Subset
  <2>3. Cardinality(Ports(list)) \in Nat /\ Cardinality(T) \in Nat
    BY <2>1, <2>2, FS_CardinalityType
  <2> QED
    BY <2>1, <2>2, <2>3, SizeAssumption
<1>6. Cardinality(Ports(list)) \in Nat
  <2>1. IsFiniteSet(Ports(list))
    BY <1>3, <1>4, FS_Subset
  <2> QED
    BY <2>1, FS_CardinalityType
<1> QED
  BY <1>5, <1>6, SizeAssumption

\* ... a full one, each port in one slot, holds as many as there are slots.
LEMMA NoRoomLeft ==
    ASSUME NEW list, IsTable(list), Sound(list), ~Holds(list, 0)
    PROVE  Cardinality(Ports(list)) = Size
<1> DEFINE port == [i \in Slots |-> list[i].port]
<1>1. \A i \in Slots : list[i].port # 0
  BY DEF Holds
<1>2. port \in Surjection(Slots, Ports(list))
  BY <1>1 DEF Surjection, Ports
<1>3. port \in Injection(Slots, Ports(list))
  BY <1>1 DEF Injection, IsInjective, Ports, Sound
<1> HIDE DEF port
<1> QED
  BY <1>2, <1>3, SlotCount, FS_Surjection

\* Registering a port that is known or for which there is an empty slot.
LEMMA SetIsRegister ==
    ASSUME NEW list, IsTable(list), Sound(list), NEW p \in Port, NEW c \in Callback,
           Holds(list, p) \/ Holds(list, 0)
    PROVE  MapOf(port_service_set(list, p, c))
             = [q \in Ports(list) \cup {p} |-> IF q = p THEN c ELSE MapOf(list)[q]]
<1> DEFINE new == port_service_set(list, p, c)
           map == [q \in Ports(list) \cup {p} |-> IF q = p THEN c ELSE MapOf(list)[q]]
           f == IF Holds(list, p) THEN First(list, p) ELSE First(list, 0)
<1> p # 0
  BY PortAssumption
<1>1. f \in Slots /\ list[f].port \in {0, p}
  BY FirstFound
<1>2. /\ new[f].port = p
      /\ new[f].callback = c
      /\ \A i \in Slots \ {f} : new[i] = list[i]
  <2>1. CASE Holds(list, p)
    BY <1>1, <2>1, FirstFound DEF port_service_set, IsTable, Entry
  <2>2. CASE ~Holds(list, p) /\ Holds(list, 0)
    BY <1>1, <2>2 DEF port_service_set, IsTable, Entry
  <2> QED
    BY <2>1, <2>2
<1>3. IsTable(new) /\ Sound(new)
  BY SetSound
<1> HIDE DEF new, f
<1>4. Ports(new) = Ports(list) \cup {p}
  BY <1>1, <1>2 DEF Ports
<1>5. \A i \in Slots : new[i].port # 0 => map[new[i].port] = new[i].callback
  <2> SUFFICES ASSUME NEW i \in Slots, new[i].port # 0
               PROVE  map[new[i].port] = new[i].callback
    OBVIOUS
  <2>1. CASE i = f
    BY <1>2, <2>1
  <2>2. CASE i # f
    <3>1. new[i] = list[i] /\ new[i].port # p
      BY <1>1, <1>2, <1>3, <2>2 DEF Sound
    <3>2. new[i].port \in Ports(list)
      BY <3>1 DEF Ports
    <3>3. MapOf(list)[new[i].port] = list[i].callback
      BY <3>1, <3>2, GetSlot DEF MapOf
    <3> QED
      BY <3>1, <3>2, <3>3
  <2> QED
    BY <2>1, <2>2
<1>6. MapOf(new) = map
  <2> DEFINE P == Ports(list) \cup {p}
  <2>1. map = [q \in P |-> map[q]]
    OBVIOUS
  <2> HIDE DEF map, P
  <2>2. P = Ports(new)
    BY <1>4 DEF P
  <2> QED
    BY <1>3, <1>5, <2>1, <2>2, SameMap
<1> QED
  BY <1>6 DEF new

\* Removing a port, known or not.
LEMMA RemoveIsUnregister ==
    ASSUME NEW list, IsTable(list), Sound(list), NEW p \in Port
    PROVE  MapOf(port_service_remove(list, p)) = [q \in Ports(list) \ {p} |-> MapOf(list)[q]]
<1> DEFINE new == port_service_remove(list, p)
           map == [q \in Ports(list) \ {p} |-> MapOf(list)[q]]
<1> p # 0
  BY PortAssumption
<1>1. IsTable(new) /\ Sound(new)
  BY RemoveSound
<1>2. \A i \in Slots : \/ list[i].port = p /\ new[i].port = 0
                       \/ list[i].port # p /\ new[i] = list[i]
  <2>1. CASE Holds(list, p)
    <3>1. First(list, p) \in Slots /\ list[First(list, p)].port = p
      BY <2>1, FirstFound
    <3>2. \A i \in Slots : list[i].port = p => i = First(list, p)
      BY <3>1 DEF Sound
    <3> QED
      BY <2>1, <3>1, <3>2 DEF port_service_remove, IsTable, Entry, Empty
  <2>2. CASE ~Holds(list, p)
    BY <2>2 DEF port_service_remove, Holds
  <2> QED
    BY <2>1, <2>2
<1> HIDE DEF new
<1>3. Ports(new) = Ports(list) \ {p}
  BY <1>2 DEF Ports
<1>4. \A i \in Slots : new[i].port # 0 => map[new[i].port] = new[i].callback
  <2> SUFFICES ASSUME NEW i \in Slots, new[i].port # 0
               PROVE  map[new[i].port] = new[i].callback
    OBVIOUS
  <2>1. new[i] = list[i] /\ new[i].port \in Ports(list) \ {p}
    BY <1>2 DEF Ports
  <2>2. MapOf(list)[new[i].port] = list[i].callback
    BY <2>1, GetSlot DEF MapOf
  <2> QED
    BY <2>1, <2>2
<1>5. MapOf(new) = map
  <2> DEFINE P == Ports(list) \ {p}
  <2>1. map = [q \in P |-> map[q]]
    OBVIOUS
  <2> HIDE DEF map, P
  <2>2. P = Ports(new)
    BY <1>3 DEF P
  <2> QED
    BY <1>1, <1>4, <2>1, <2>2, SameMap
<1> QED
  BY <1>5 DEF new

\* The instance of PortMap counts as this module does.
LEMMA SameCardinality == \A S : Map!Cardinality(S) = Cardinality(S)
BY DEF Map!Cardinality, Cardinality

\* A registration is one of the map, which is dropped when there is no room.
LEMMA RegisterStep ==
    ASSUME NEW p \in Port, NEW c \in Callback, IInv,
           port_services' = port_service_set(port_services, p, c),
           call' = Call("register", p, c)
    PROVE  Map!Register(p, c)
<1> DEFINE list == port_services
<1>0. IsTable(list) /\ Sound(list) /\ p # 0
  BY PortAssumption DEF IInv, TypeOK, IsTable
<1>1. p \in Ports(list) <=> Holds(list, p)
  BY <1>0 DEF Ports, Holds
<1>2. CASE Holds(list, p) \/ Holds(list, 0)
  <2>1. p \in Ports(list) \/ Cardinality(Ports(list)) < Size
    BY <1>0, <1>1, <1>2, RoomLeft
  <2>2. MapOf(list') = [q \in Ports(list) \cup {p} |-> IF q = p THEN c ELSE MapOf(list)[q]]
    BY <1>0, <1>2, SetIsRegister
  <2> QED
    BY <2>1, <2>2, MapIsMapOf, SameCardinality DEF Map!Register, Map!Room, MapOf, Call
<1>3. CASE ~Holds(list, p) /\ ~Holds(list, 0)
  <2>1. p \notin Ports(list) /\ ~ (Cardinality(Ports(list)) < Size)
    BY <1>0, <1>1, <1>3, NoRoomLeft, SizeAssumption
  <2>2. MapOf(list') = MapOf(list)
    BY <1>3 DEF port_service_set
  <2> QED
    BY <2>1, <2>2, MapIsMapOf, SameCardinality DEF Map!Register, Map!Room, MapOf, Call
<1> QED
  BY <1>2, <1>3

\* A removal is one of the map.
LEMMA UnregisterStep ==
    ASSUME NEW p \in Port, IInv,
           port_services' = port_service_remove(port_services, p),
           call' = Call("unregister", p, Null)
    PROVE  Map!Unregister(p)
<1>1. IsTable(port_services) /\ Sound(port_services)
  BY DEF IInv, TypeOK, IsTable
<1>2. MapOf(port_services') = [q \in Ports(port_services) \ {p} |-> MapOf(port_services)[q]]
  BY <1>1, RemoveIsUnregister
<1> QED
  BY <1>2, MapIsMapOf DEF Map!Unregister, MapOf, Call

\* What a packet finds is what a lookup in the map answers.
LEMMA LookupStep ==
    ASSUME NEW p \in Port \cup {0}, IInv, Receive(p)
    PROVE  Map!Lookup(p)
<1>1. IsTable(port_services) /\ Sound(port_services)
  BY DEF IInv, TypeOK, IsTable
<1>2. port_services' = port_services /\ call' = Call("lookup", p, port_service_get(port_services, p))
  BY DEF Receive
<1>3. port_service_get(port_services, p)
        = IF p \in Ports(port_services) THEN MapOf(port_services)[p] ELSE Null
  BY <1>1, GetIsLookup
<1> QED
  BY <1>2, <1>3, MapIsMapOf DEF Map!Lookup, MapOf, Call

\* Every step is one of the map or leaves it alone: so does the initialisation.
LEMMA StepMap == IInv /\ [Next]_vars => [Map!Next]_(Map!vars)
<1> SUFFICES ASSUME IInv, [Next]_vars
             PROVE  Map!Next \/ UNCHANGED Map!vars
  BY DEF Map!vars
<1>1. CASE udp_server_init \/ tcp_server_init
  <2>1. port_services' = port_services /\ call' = call
    BY <1>1 DEF udp_server_init, tcp_server_init, IInv, Running
  <2> QED
    BY <2>1, MapIsMapOf DEF Map!vars
<1>2. ASSUME NEW p \in Port, NEW c \in Callback,
             udp_port_register(p, c) \/ tcp_port_register(p, c)
      PROVE  Map!Next
  BY <1>2, RegisterStep DEF udp_port_register, tcp_port_register, Map!Next
<1>3. ASSUME NEW p \in Port, udp_port_unregister(p) \/ tcp_port_unregister(p)
      PROVE  Map!Next
  BY <1>3, UnregisterStep DEF udp_port_unregister, tcp_port_unregister, Map!Next
<1>4. ASSUME NEW p \in Port \cup {0}, udp_receive(p) \/ tcp_receive(p)
      PROVE  Map!Next
  BY <1>4, LookupStep DEF udp_receive, tcp_receive, Map!Next
<1>5. CASE UNCHANGED vars
  BY <1>5, MapIsMapOf DEF vars, Map!vars
<1> QED
  BY <1>1, <1>2, <1>3, <1>4, <1>5 DEF Next

\* The map is empty at the start.
LEMMA InitMap == Init => Map!Init
BY MapIsMapOf DEF Init, Map!Init, MapOf, Ports, Empty, Call

\* For any number of slots, ports and callbacks the table of port_service.c is
\* a bounded map, whatever UDP and TCP register and remove.
THEOREM TableImplementsMap == Spec => ImplementsMap
<1>1. Init => Map!Init
  BY InitMap
<1>2. IInv /\ [Next]_vars => [Map!Next]_(Map!vars)
  BY StepMap
<1> QED
  BY <1>1, <1>2, InitIInv, StepIInv, PTL DEF Spec, ImplementsMap, Map!Spec
=============================================================================
