----------------------------- MODULE DhcpProofs -----------------------------
(***************************************************************************)
(* Proofs about Dhcp: what the exchange guarantees as long as the device   *)
(* is not power cycled, for any servers, pools, losses, duplicates, link   *)
(* failures and clocks.                                                    *)
(***************************************************************************)
EXTENDS Dhcp, TLAPS

\* What the messages in flight say about the state of the client and of the
\* servers.
NetSound == \A m \in net :
    /\ m.to = Client => m.sid \in Servers /\ m.ip = Pool[m.sid]
    /\ m.renew => running
    /\ m.type \in {"REQUEST", "ACK"} => my_ip # NoAddr
    /\ m.type \in {"REQUEST", "ACK"} /\ m.renew => m.ip = my_ip
    /\ m.type = "ACK" => m.sid \in granted

BoundSound == running => my_ip # NoAddr /\ granted # {}

NoReboot == budget \in Budgets /\ budget.reboots = 0

IInv == /\ NoReboot
        /\ server_identifier \in Servers \cup {NoServer}
        /\ OfferConsistent
        /\ NetSound
        /\ BoundSound

\* The part of the state the invariant is about.
relevant == <<running, my_ip, server_identifier, granted>>

\* The invariant holds at the start: nothing is in flight and no address known.
LEMMA InitIInv == Reboots = 0 /\ Init => IInv
BY BoundAssumption
DEF Init, ClientInit, IInv, NoReboot, Budgets, OfferConsistent, NetSound, BoundSound

\* Receiving a message leaves no new one in flight and no power cycle either.
LEMMA ReceiveShrinks ==
    ASSUME NEW m \in net, NEW rest \in Left(m), Receive(m, rest), NoReboot
    PROVE  rest \subseteq net /\ NoReboot'
<1>1. CASE UNCHANGED budget
  BY <1>1 DEF Receive, Left, NoReboot
<1>2. CASE budget.dups > 0 /\ budget' = [budget EXCEPT !.dups = @ - 1]
  <2>1. budget' \in Budgets
    BY <1>2 DEF NoReboot, Budgets
  <2>2. budget'.reboots = budget.reboots
    BY <1>2 DEF NoReboot, Budgets
  <2> QED
    BY <2>1, <2>2 DEF Receive, Left, NoReboot
<1> QED
  BY <1>1, <1>2 DEF Receive

\* Spending the budget of losses or of link failures allows no power cycle.
LEMMA SpendSound ==
    ASSUME NoReboot,
           \/ budget' = budget
           \/ budget.flaps > 0 /\ budget' = [budget EXCEPT !.flaps = @ - 1]
           \/ budget.losses > 0 /\ budget' = [budget EXCEPT !.losses = @ - 1]
    PROVE  NoReboot'
BY DEF NoReboot, Budgets

\* Consuming or losing messages preserves the invariant.
LEMMA ShrinkIInv ==
    ASSUME IInv, net' \subseteq net, UNCHANGED relevant, NoReboot'
    PROVE  IInv'
BY DEF IInv, OfferConsistent, NetSound, BoundSound, relevant

\* The address a server keeps is never 0.0.0.0.
LEMMA PoolIsAddr == \A s \in Servers : Pool[s] \in Addr /\ Pool[s] # NoAddr
BY AddrAssumption

\* An action that adds messages, every one of which is sound, and changes
\* nothing else the invariant is about.
LEMMA GrowIInv ==
    ASSUME IInv, UNCHANGED relevant, NoReboot', NEW new,
           net' \subseteq net \cup new,
           \A m \in new :
              /\ m.to = Client => m.sid \in Servers /\ m.ip = Pool[m.sid]
              /\ m.renew => running
              /\ m.type \in {"REQUEST", "ACK"} => my_ip # NoAddr
              /\ m.type \in {"REQUEST", "ACK"} /\ m.renew => m.ip = my_ip
              /\ m.type = "ACK" => m.sid \in granted
    PROVE  IInv'
BY DEF IInv, OfferConsistent, NetSound, BoundSound, relevant

\* A reply comes from the server that was asked, with its address.
LEMMA ReplyShape ==
    ASSUME NEW m, NEW type
    PROVE  LET r == Reply(m, type)
           IN  /\ r.to = Client /\ r.type = type /\ r.renew = m.renew
               /\ r.sid = m.to /\ r.ip = Pool[m.to]
BY DEF Reply, Message

\* Every step without a power cycle keeps it.
LEMMA StepIInv == IInv /\ [Next]_vars => IInv'
<1> SUFFICES ASSUME IInv, [Next]_vars
             PROVE  IInv'
  OBVIOUS
<1>0. NoReboot
  BY DEF IInv
<1>1. CASE SendDiscover
  <2> DEFINE new == ToServers("DISCOVER", Xid0, FALSE, NoAddr, NoServer)
  <2>1. UNCHANGED relevant /\ budget' = budget /\ net' = net \cup new
    BY <1>1 DEF SendDiscover, send_discover, relevant, server
  <2>2. \A m \in new : m.to # Client /\ m.type = "DISCOVER" /\ m.renew = FALSE
    BY ServerAssumption DEF ToServers, Message
  <2> HIDE DEF new
  <2> QED
    BY <1>0, <2>1, <2>2, GrowIInv DEF NoReboot
<1>2. CASE ResendDiscover
  <2> DEFINE new == ToServers("DISCOVER", NextXid, FALSE, NoAddr, NoServer)
  <2>1. UNCHANGED relevant /\ budget' = budget /\ net' = net \cup new
    BY <1>2 DEF ResendDiscover, send_discover, relevant, server
  <2>2. \A m \in new : m.to # Client /\ m.type = "DISCOVER" /\ m.renew = FALSE
    BY ServerAssumption DEF ToServers, Message
  <2> HIDE DEF new
  <2> QED
    BY <1>0, <2>1, <2>2, GrowIInv DEF NoReboot
<1>3. CASE AcquireIdle \/ RenewIdle \/ RenewTraffic \/ Tick \/ LinkUp \/ LinkDown
  <2>1. net' = net /\ UNCHANGED relevant
    BY <1>3
    DEF AcquireIdle, RenewIdle, RenewTraffic, Tick, LinkUp, LinkDown, relevant, client, server
  <2>2. \/ budget' = budget
        \/ budget.flaps > 0 /\ budget' = [budget EXCEPT !.flaps = @ - 1]
    BY <1>3 DEF AcquireIdle, RenewIdle, RenewTraffic, Tick, LinkUp, LinkDown
  <2>3. NoReboot'
    BY <1>0, <2>2, SpendSound
  <2> QED
    BY <2>1, <2>3, ShrinkIInv
<1>4. CASE SendRenew
  <2> DEFINE new == ToServers("REQUEST", NextXid, TRUE, my_ip, NoServer)
  <2>1. running /\ UNCHANGED relevant /\ budget' = budget /\ net' = net \cup new
    BY <1>4 DEF SendRenew, send_renew, relevant, server
  <2>2. \A m \in new : m.to # Client /\ m.type = "REQUEST" /\ m.renew = TRUE /\ m.ip = my_ip
    BY ServerAssumption DEF ToServers, Message
  <2>3. my_ip # NoAddr
    BY <2>1 DEF IInv, BoundSound
  <2> HIDE DEF new
  <2> QED
    BY <1>0, <2>1, <2>2, <2>3, GrowIInv DEF NoReboot
<1>5. CASE PowerCycle
  BY <1>0, <1>5 DEF PowerCycle, NoReboot
<1>6. ASSUME NEW m \in net, AcquireOffer(m)
      PROVE  IInv'
  <2>1. PICK rest \in Left(m) :
           /\ Receive(m, rest)
           /\ net' = rest \cup ToServers("REQUEST", transaction_id, FALSE, m.ip, m.sid)
    BY <1>6 DEF AcquireOffer, parse_ip_address, parse_options, send_request
  <2>2. /\ ~running /\ running' = running /\ my_ip' = m.ip
        /\ server_identifier' = m.sid /\ granted' = granted
    BY <1>6 DEF AcquireOffer, parse_ip_address, parse_options, send_request, server
  <2>3. rest \subseteq net /\ NoReboot'
    BY <1>0, <2>1, ReceiveShrinks
  <2>4. m.sid \in Servers /\ m.ip = Pool[m.sid]
    BY <1>6 DEF AcquireOffer, parse_ip_address, parse_options, send_request, ForMe, IInv, NetSound
  <2>5. m.ip # NoAddr
    BY <2>4, PoolIsAddr
  <2> DEFINE new == ToServers("REQUEST", transaction_id, FALSE, m.ip, m.sid)
  <2>6. \A n \in new : n.to # Client /\ n.type = "REQUEST" /\ n.renew = FALSE
    BY ServerAssumption DEF ToServers, Message
  <2>7. net' \subseteq net \cup new
    BY <2>1, <2>3
  <2> HIDE DEF new
  \* No renewal is in flight before the address is acquired.
  <2>8. NetSound'
    BY <2>2, <2>5, <2>6, <2>7 DEF IInv, NetSound
  <2> QED
    BY <2>2, <2>3, <2>4, <2>8, ServerAssumption DEF IInv, OfferConsistent, BoundSound
<1>7. ASSUME NEW m \in net, AcquireAck(m)
      PROVE  IInv'
  <2>1. PICK rest \in Left(m) : Receive(m, rest) /\ net' = rest
    BY <1>7 DEF AcquireAck
  <2>2. net' \subseteq net /\ NoReboot'
    BY <1>0, <2>1, ReceiveShrinks
  <2>3. /\ my_ip' = my_ip /\ server_identifier' = server_identifier
        /\ granted' = granted /\ running'
    BY <1>7 DEF AcquireAck, server
  <2>4. my_ip # NoAddr /\ granted # {}
    BY <1>7 DEF AcquireAck, IInv, NetSound
  <2> QED
    BY <2>2, <2>3, <2>4 DEF IInv, OfferConsistent, NetSound, BoundSound
<1>8. ASSUME NEW m \in net, AcquireOther(m) \/ RenewOther(m)
      PROVE  IInv'
  <2>1. PICK rest \in Left(m) : Receive(m, rest) /\ net' = rest
    BY <1>8 DEF AcquireOther, RenewOther
  <2>2. UNCHANGED relevant
    BY <1>8 DEF AcquireOther, RenewOther, relevant, client, server
  <2> QED
    BY <1>0, <2>1, <2>2, ReceiveShrinks, ShrinkIInv
<1>9. ASSUME NEW m \in net, RenewAck(m)
      PROVE  IInv'
  <2>1. PICK rest \in Left(m) : Receive(m, rest) /\ net' = rest
    BY <1>9 DEF RenewAck, parse_options
  <2>2. net' \subseteq net /\ NoReboot'
    BY <1>0, <2>1, ReceiveShrinks
  <2>3. /\ running' = running /\ my_ip' = my_ip /\ granted' = granted
        /\ server_identifier' = m.sid
    BY <1>9 DEF RenewAck, parse_options, server
  \* The server that answers a renewal holds the address it asks for.
  <2>4. m.sid \in Servers /\ my_ip = Pool[m.sid]
    BY <1>9 DEF RenewAck, parse_options, ForMe, IInv, NetSound
  <2>5. OfferConsistent'
    BY <2>3, <2>4, ServerAssumption DEF OfferConsistent
  <2> QED
    BY <2>2, <2>3, <2>4, <2>5 DEF IInv, NetSound, BoundSound
<1>10. ASSUME NEW m \in net, ServerOffer(m) \/ ServerNak(m)
       PROVE  IInv'
  <2>1. PICK r \in {Reply(m, "OFFER"), Reply(m, "NAK")} : net' = (net \ {m}) \cup {r}
    BY <1>10 DEF ServerOffer, ServerNak
  <2>2. UNCHANGED relevant /\ budget' = budget /\ m.to \in Servers
    BY <1>10 DEF ServerOffer, ServerNak, relevant, client, server
  <2>3. /\ r.to = Client /\ r.type \in {"OFFER", "NAK"} /\ r.renew = m.renew
        /\ r.sid = m.to /\ r.ip = Pool[m.to]
    BY <2>1, ReplyShape
  <2>4. m.renew => running
    BY DEF IInv, NetSound
  <2> DEFINE new == {r}
  <2>5. net' \subseteq net \cup new
    BY <2>1
  <2>6. \A n \in new :
           /\ n.to = Client => n.sid \in Servers /\ n.ip = Pool[n.sid]
           /\ n.renew => running
           /\ n.type \in {"REQUEST", "ACK"} => my_ip # NoAddr
           /\ n.type \in {"REQUEST", "ACK"} /\ n.renew => n.ip = my_ip
           /\ n.type = "ACK" => n.sid \in granted
    BY <2>2, <2>3, <2>4
  <2>7. NoReboot'
    BY <1>0, <2>2 DEF NoReboot
  <2> HIDE DEF new
  <2> QED
    BY ONLY IInv, <2>2, <2>5, <2>6, <2>7, GrowIInv
<1>11. ASSUME NEW m \in net, ServerAck(m)
       PROVE  IInv'
  <2> DEFINE r == Reply(m, "ACK")
  <2>1. /\ net' = (net \ {m}) \cup {r} /\ granted' = granted \cup {m.to}
        /\ running' = running /\ my_ip' = my_ip
        /\ server_identifier' = server_identifier /\ budget' = budget
        /\ m.to \in Servers /\ m.type = "REQUEST" /\ m.ip = Pool[m.to]
    BY <1>11 DEF ServerAck, client
  <2>2. /\ r.to = Client /\ r.type = "ACK" /\ r.renew = m.renew
        /\ r.sid = m.to /\ r.ip = Pool[m.to]
    BY ReplyShape
  <2> HIDE DEF r
  <2>3. /\ m.renew => running
        /\ my_ip # NoAddr
        /\ m.renew => m.ip = my_ip
    BY <2>1 DEF IInv, NetSound
  <2>4. NetSound'
    BY <2>1, <2>2, <2>3 DEF IInv, NetSound
  <2> QED
    BY <2>1, <2>4 DEF IInv, NoReboot, OfferConsistent, BoundSound
<1>12. ASSUME NEW m \in net, ServerIgnore(m) \/ Lose(m) \/ Filtered(m)
       PROVE  IInv'
  <2>1. net' \subseteq net /\ UNCHANGED relevant
    BY <1>12 DEF ServerIgnore, Lose, Filtered, relevant, client, server
  <2>2. \/ budget' = budget
        \/ budget.losses > 0 /\ budget' = [budget EXCEPT !.losses = @ - 1]
    BY <1>12 DEF ServerIgnore, Lose, Filtered
  <2>3. NoReboot'
    BY <1>0, <2>2, SpendSound
  <2> QED
    BY <2>1, <2>3, ShrinkIInv
<1>13. CASE UNCHANGED vars
  <2>1. net' = net /\ UNCHANGED relevant /\ budget' = budget
    BY <1>13 DEF vars, relevant, client, server
  <2> QED
    BY <1>0, <2>1, ShrinkIInv DEF NoReboot
<1> QED
  BY <1>1, <1>2, <1>3, <1>4, <1>5, <1>6, <1>7, <1>8, <1>9, <1>10, <1>11, <1>12, <1>13
  DEF Next, PollEmpty, PollPacket, Serve

\* Without a power cycle the address in use and the server the next request
\* names always belong together, however the replies of several servers
\* interleave (dhcp.c:139-143,418,529,591).
THEOREM OfferStaysConsistent ==
    ASSUME Reboots = 0
    PROVE  Spec => []OfferConsistent
<1>1. Init => IInv
  BY InitIInv
<1>2. IInv /\ [Next]_vars => IInv'
  BY StepIInv
<1>3. IInv => OfferConsistent
  BY DEF IInv
<1> QED
  BY <1>1, <1>2, <1>3, PTL DEF Spec

\* Without a power cycle dhcp_request_ip returns 1 only once there is an
\* address (dhcp.h:73), whatever is lost, delayed or duplicated.
THEOREM BoundWithAddress ==
    ASSUME Reboots = 0
    PROVE  Spec => []AddressOnBound
<1>1. Init => IInv
  BY InitIInv
<1>2. IInv /\ [Next]_vars => IInv'
  BY StepIInv
<1>3. IInv => AddressOnBound
  BY DEF IInv, BoundSound, AddressOnBound
<1> QED
  BY <1>1, <1>2, <1>3, PTL DEF Spec

-----------------------------------------------------------------------------
(* Type correctness.                                                       *)

\* A transaction id is a byte.
LEMMA NextXidType == transaction_id \in 0 .. XidMod - 1 => NextXid \in 0 .. XidMod - 1
BY ByteAssumption DEF NextXid

\* A lease in units of lease_time.
LEMMA UnitsAreNat == \A secs \in Nat : secs \div LeaseUnit \in Nat
<1>1. LeaseUnit \in Nat \ {0}
  BY LeaseAssumption
<1>2. \A a \in Nat, b \in Nat \ {0} : a \div b \in Nat
  OBVIOUS
<1> QED
  BY <1>1, <1>2

\* The conversion of any lease fits lease_time (dhcp.c:503-521).
LEMMA LeaseTimeType ==
    ASSUME NEW secs \in Leases \cup {0}
    PROVE  LeaseTime(secs) \in 0 .. LeaseCap \cup {LeaseInf}
<1>1. secs \div LeaseUnit \in Nat
  <2>1. secs \in Nat
    BY LeaseAssumption
  <2> QED
    BY <2>1, UnitsAreNat
<1> DEFINE units == secs \div LeaseUnit
<1>2. LeaseTime(secs) = CASE secs = Forever                     -> LeaseInf
                          [] secs # Forever /\ units > LeaseCap -> LeaseCap
                          [] secs # Forever /\ units < MinLease -> MinLease
                          [] OTHER                              -> units
  BY DEF LeaseTime
<1> HIDE DEF units
<1>3. units \in Nat
  BY <1>1 DEF units
<1> QED
  BY <1>2, <1>3, LeaseAssumption

\* The countdown leaves a lease_time, finite or infinite.
LEMMA LeaseNowType ==
    lease_time \in 0 .. LeaseCap \cup {LeaseInf} => LeaseNow \in 0 .. LeaseCap \cup {LeaseInf}
BY LeaseAssumption DEF LeaseNow

\* dhcp_seconds is reset or kept.
LEMMA CountdownType ==
    dhcp_seconds \in 0 .. SecMod - 1 /\ Countdown => dhcp_seconds' \in 0 .. SecMod - 1
BY ByteAssumption DEF Countdown

\* Receiving leaves messages in flight and a budget.
LEMMA ReceiveType ==
    ASSUME NEW m \in net, NEW rest \in Left(m), Receive(m, rest),
           net \subseteq Messages, budget \in Budgets
    PROVE  rest \subseteq Messages /\ budget' \in Budgets
BY DEF Receive, Left, Budgets

\* What the client sends are messages.
LEMMA ToServersType ==
    ASSUME NEW type \in {"DISCOVER", "REQUEST"}, NEW xid \in 0 .. XidMod - 1,
           NEW renew \in BOOLEAN, NEW ip \in Addr \cup {NoAddr},
           NEW sid \in Servers \cup {NoServer}
    PROVE  ToServers(type, xid, renew, ip, sid) \subseteq Messages
BY DEF ToServers, Message, Messages

\* What a server answers is a message.
LEMMA ReplyType ==
    ASSUME NEW m \in Messages, m.to \in Servers, lease \in [Servers -> Leases],
           NEW type \in {"OFFER", "ACK", "NAK"}
    PROVE  Reply(m, type) \in Messages
BY AddrAssumption DEF Reply, Message, Messages

\* Types hold at the start.
LEMMA InitTypeOK == Init => TypeOK
<1> SUFFICES ASSUME Init
             PROVE  TypeOK
  OBVIOUS
<1>1. /\ dhcp_seconds \in 0 .. SecMod - 1 /\ transaction_id \in 0 .. XidMod - 1
      /\ lease_time \in 0 .. LeaseCap
  BY ByteAssumption, LeaseAssumption DEF Init, ClientInit
<1>2. budget \in Budgets
  BY BoundAssumption DEF Init, Budgets
<1>3. leaseLeft \in [Servers -> Nat]
  BY DEF Init
<1> QED
  BY <1>1, <1>2, <1>3 DEF Init, ClientInit, TypeOK

\* Every step keeps them, a power cycle included.
LEMMA StepTypeOK == TypeOK /\ [Next]_vars => TypeOK'
<1> SUFFICES ASSUME TypeOK, [Next]_vars
             PROVE  TypeOK'
  OBVIOUS
<1> USE DEF TypeOK
<1>0. Xid0 \in 0 .. XidMod - 1 /\ StartDelay \in 0 .. SecMod - 1
  BY ByteAssumption
<1>1. CASE SendDiscover
  <2>1. ToServers("DISCOVER", Xid0, FALSE, NoAddr, NoServer) \subseteq Messages
    BY <1>0, ToServersType
  <2> QED
    BY <1>0, <1>1, <2>1 DEF SendDiscover, send_discover, server
<1>2. CASE ResendDiscover
  <2>1. ToServers("DISCOVER", NextXid, FALSE, NoAddr, NoServer) \subseteq Messages
    BY NextXidType, ToServersType
  <2> QED
    BY <1>0, <1>2, <2>1, NextXidType DEF ResendDiscover, send_discover, server
<1>3. CASE AcquireIdle
  BY <1>3 DEF AcquireIdle, client, server
<1>4. CASE SendRenew
  <2>1. ToServers("REQUEST", NextXid, TRUE, my_ip, NoServer) \subseteq Messages
    BY NextXidType, ToServersType
  <2>2. RetryLease \in 0 .. LeaseCap
    BY LeaseAssumption
  <2> QED
    BY <1>4, <2>1, <2>2, NextXidType, CountdownType DEF SendRenew, send_renew, server
<1>5. CASE RenewIdle
  BY <1>5, LeaseNowType, CountdownType DEF RenewIdle, server
<1>6. CASE RenewTraffic
  BY <1>6, LeaseNowType, CountdownType DEF RenewTraffic, server
<1>7. CASE Tick
  <2>1. dhcp_seconds' \in 0 .. SecMod - 1
    BY <1>7, ByteAssumption DEF Tick
  <2>2. leaseLeft' \in [Servers -> Nat]
    <3>1. \A s \in Servers :
             (IF leaseLeft[s] \in {0, Forever} THEN leaseLeft[s] ELSE leaseLeft[s] - 1) \in Nat
      OBVIOUS
    <3> QED
      BY <1>7, <3>1 DEF Tick
  <2> QED
    BY <1>7, <2>1, <2>2 DEF Tick
<1>8. CASE PowerCycle
  <2>1. budget' \in Budgets
    BY <1>8 DEF PowerCycle, Budgets
  <2>2. 0 \in 0 .. SecMod - 1 /\ 0 \in 0 .. XidMod - 1 /\ 0 \in 0 .. LeaseCap
    BY ByteAssumption, LeaseAssumption
  <2> QED
    BY <1>8, <2>1, <2>2 DEF PowerCycle, server
<1>9. CASE LinkUp
  BY <1>9 DEF LinkUp, client, server
<1>10. CASE LinkDown
  <2>1. budget' \in Budgets
    BY <1>10 DEF LinkDown, Budgets
  <2> QED
    BY <1>10, <2>1 DEF LinkDown, client, server
<1>11. ASSUME NEW m \in net, AcquireOffer(m)
       PROVE  TypeOK'
  <2>1. PICK rest \in Left(m) :
           /\ Receive(m, rest)
           /\ net' = rest \cup ToServers("REQUEST", transaction_id, FALSE, m.ip, m.sid)
    BY <1>11 DEF AcquireOffer, parse_ip_address, parse_options, send_request
  <2>2. /\ m.ip \in Addr \cup {NoAddr} /\ m.sid \in Servers \cup {NoServer}
        /\ m.secs \in Leases \cup {0}
    BY DEF Messages
  <2>3. ToServers("REQUEST", transaction_id, FALSE, m.ip, m.sid) \subseteq Messages
    BY <2>2, ToServersType
  <2>4. net' \subseteq Messages /\ budget' \in Budgets
    BY <2>1, <2>3, ReceiveType
  <2>5. LeaseTime(m.secs) \in 0 .. LeaseCap \cup {LeaseInf}
    BY <2>2, LeaseTimeType
  <2> QED
    BY <1>11, <2>2, <2>4, <2>5 DEF AcquireOffer, parse_ip_address, parse_options, send_request, server
<1>12. ASSUME NEW m \in net, AcquireAck(m)
       PROVE  TypeOK'
  <2>1. net' \subseteq Messages /\ budget' \in Budgets
    BY <1>12, ReceiveType DEF AcquireAck
  <2> QED
    BY <1>12, <2>1 DEF AcquireAck, server
<1>13. ASSUME NEW m \in net, AcquireOther(m)
       PROVE  TypeOK'
  <2>1. net' \subseteq Messages /\ budget' \in Budgets
    BY <1>13, ReceiveType DEF AcquireOther
  <2> QED
    BY <1>13, <2>1 DEF AcquireOther, client, server
<1>14. ASSUME NEW m \in net, RenewAck(m)
       PROVE  TypeOK'
  <2>1. net' \subseteq Messages /\ budget' \in Budgets
    BY <1>14, ReceiveType DEF RenewAck, parse_options
  <2>2. m.sid \in Servers \cup {NoServer} /\ m.secs \in Leases \cup {0}
    BY DEF Messages
  <2>3. LeaseTime(m.secs) \in 0 .. LeaseCap \cup {LeaseInf}
    BY <2>2, LeaseTimeType
  <2> QED
    BY <1>14, <2>1, <2>2, <2>3, CountdownType DEF RenewAck, parse_options, server
<1>15. ASSUME NEW m \in net, RenewOther(m)
       PROVE  TypeOK'
  <2>1. net' \subseteq Messages /\ budget' \in Budgets
    BY <1>15, ReceiveType DEF RenewOther
  <2> QED
    BY <1>15, <2>1, LeaseNowType, CountdownType DEF RenewOther, server
<1>16. ASSUME NEW m \in net, ServerOffer(m) \/ ServerNak(m)
       PROVE  TypeOK'
  <2>1. Reply(m, "OFFER") \in Messages /\ Reply(m, "NAK") \in Messages
    BY <1>16, ReplyType DEF ServerOffer, ServerNak
  <2> QED
    BY <1>16, <2>1 DEF ServerOffer, ServerNak, client, server
<1>17. ASSUME NEW m \in net, ServerAck(m)
       PROVE  TypeOK'
  <2>1. Reply(m, "ACK") \in Messages
    BY <1>17, ReplyType DEF ServerAck
  <2>2. granted' \subseteq Servers /\ leaseLeft' \in [Servers -> Nat]
    BY <1>17, LeaseAssumption DEF ServerAck
  <2> QED
    BY <1>17, <2>1, <2>2 DEF ServerAck, client
<1>18. ASSUME NEW m \in net, ServerIgnore(m) \/ Filtered(m)
       PROVE  TypeOK'
  BY <1>18 DEF ServerIgnore, Filtered, client, server
<1>19. ASSUME NEW m \in net, Lose(m)
       PROVE  TypeOK'
  <2>1. budget' \in Budgets
    BY <1>19 DEF Lose, Budgets
  <2> QED
    BY <1>19, <2>1 DEF Lose, client, server
<1>20. CASE UNCHANGED vars
  BY <1>20 DEF vars, client, server
<1> QED
  BY <1>1, <1>2, <1>3, <1>4, <1>5, <1>6, <1>7, <1>8, <1>9, <1>10, <1>11, <1>12, <1>13,
     <1>14, <1>15, <1>16, <1>17, <1>18, <1>19, <1>20
  DEF Next, PollEmpty, PollPacket, Serve

\* The client's bytes stay bytes and lease_time is 0xFFFF or at most 0xFFFD,
\* for every lease a server offers: the countdown never runs below zero into
\* the value that means infinite (dhcp.c:496-520,552-554).
THEOREM TypeCorrect == Spec => []TypeOK
<1>1. Init => TypeOK
  BY InitTypeOK
<1>2. TypeOK /\ [Next]_vars => TypeOK'
  BY StepTypeOK
<1> QED
  BY <1>1, <1>2, PTL DEF Spec

-----------------------------------------------------------------------------
(* The broadcast filter.                                                   *)

\* Before the first discover nothing is in flight that could be taken for the
\* answer to it: an offer taken then would leave the filter closed.
Quiet == ~discover_sent => net = {} /\ ~running

FilterInv == NoReboot /\ FilterFollowsPhase /\ Quiet

\* What the filter and the phase depend on.
phase == <<running, discover_sent, bcen>>

\* Nothing is sent and the filter is closed at the start.
LEMMA InitFilter == Reboots = 0 /\ Init => FilterInv
BY BoundAssumption
DEF Init, ClientInit, FilterInv, NoReboot, Budgets, FilterFollowsPhase, Quiet

\* A step that leaves the phase alone and puts nothing into a network without
\* messages.
LEMMA SamePhase ==
    ASSUME FilterInv, NoReboot', UNCHANGED phase, net = {} => net' = {}
    PROVE  FilterInv'
BY DEF FilterInv, FilterFollowsPhase, Quiet, phase

\* A message that is received has been sent, so the discover has been, too.
LEMMA HeardAfterDiscover ==
    ASSUME FilterInv, NEW m \in net
    PROVE  discover_sent
BY DEF FilterInv, Quiet

\* Every step without a power cycle keeps it.
LEMMA StepFilter == FilterInv /\ [Next]_vars => FilterInv'
<1> SUFFICES ASSUME FilterInv, [Next]_vars
             PROVE  FilterInv'
  OBVIOUS
<1>0. NoReboot
  BY DEF FilterInv
<1>1. CASE SendDiscover \/ ResendDiscover
  <2>1. ~running /\ running' = running /\ discover_sent' /\ bcen' /\ budget' = budget
    BY <1>1 DEF SendDiscover, ResendDiscover, ResendDue
  <2> QED
    BY <1>0, <2>1 DEF FilterInv, NoReboot, FilterFollowsPhase, Quiet
<1>2. CASE AcquireIdle \/ RenewIdle \/ RenewTraffic \/ Tick \/ LinkUp \/ LinkDown
  <2>1. net' = net /\ UNCHANGED phase
    BY <1>2
    DEF AcquireIdle, RenewIdle, RenewTraffic, Tick, LinkUp, LinkDown, phase, client
  <2>2. \/ budget' = budget
        \/ budget.flaps > 0 /\ budget' = [budget EXCEPT !.flaps = @ - 1]
    BY <1>2 DEF AcquireIdle, RenewIdle, RenewTraffic, Tick, LinkUp, LinkDown
  <2> QED
    BY <1>0, <2>1, <2>2, SpendSound, SamePhase
\* Renewals are sent by a client that runs: the discover has been sent.
<1>3. CASE SendRenew
  <2>1. running /\ UNCHANGED phase /\ budget' = budget
    BY <1>3 DEF SendRenew, phase
  <2> QED
    BY <1>0, <2>1 DEF FilterInv, NoReboot, FilterFollowsPhase, Quiet, phase
<1>4. CASE PowerCycle
  BY <1>0, <1>4 DEF PowerCycle, NoReboot
<1>5. ASSUME NEW m \in net, PollPacket(m)
      PROVE  FilterInv'
  <2>1. PICK rest \in Left(m) : Receive(m, rest)
    BY <1>5 DEF PollPacket, AcquireOffer, AcquireAck, AcquireOther, RenewAck, RenewOther
  <2>2. NoReboot' /\ discover_sent
    BY <1>0, <2>1, ReceiveShrinks, HeardAfterDiscover
  <2>3. discover_sent'
    BY <1>5, <2>2
    DEF PollPacket, AcquireOffer, AcquireAck, AcquireOther, RenewAck, RenewOther, client
  <2>4. \/ running' /\ ~bcen'
        \/ running' = running /\ bcen' = bcen
    BY <1>5
    DEF PollPacket, AcquireOffer, AcquireAck, AcquireOther, RenewAck, RenewOther, client
  <2> QED
    BY <2>2, <2>3, <2>4 DEF FilterInv, FilterFollowsPhase, Quiet
<1>6. ASSUME NEW m \in net, Serve(m) \/ Lose(m) \/ Filtered(m)
      PROVE  FilterInv'
  <2>1. UNCHANGED phase /\ net # {}
    BY <1>6
    DEF Serve, ServerOffer, ServerAck, ServerNak, ServerIgnore, Lose, Filtered, phase, client
  <2>2. \/ budget' = budget
        \/ budget.losses > 0 /\ budget' = [budget EXCEPT !.losses = @ - 1]
    BY <1>6
    DEF Serve, ServerOffer, ServerAck, ServerNak, ServerIgnore, Lose, Filtered
  <2> QED
    BY <1>0, <2>1, <2>2, SpendSound, SamePhase
<1>7. CASE UNCHANGED vars
  <2>1. net' = net /\ UNCHANGED phase /\ budget' = budget
    BY <1>7 DEF vars, phase, client
  <2> QED
    BY <1>0, <2>1, SamePhase DEF NoReboot
<1> QED
  BY <1>1, <1>2, <1>3, <1>4, <1>5, <1>6, <1>7 DEF Next, PollEmpty

\* Without a power cycle the chip accepts broadcast frames exactly from the
\* first discover until the address is acquired (dhcp.c:98,111,155), whatever
\* offers and answers come late, twice or not at all.
THEOREM FilterStaysInPhase ==
    ASSUME Reboots = 0
    PROVE  Spec => []FilterFollowsPhase
<1>1. Init => FilterInv
  BY InitFilter
<1>2. FilterInv /\ [Next]_vars => FilterInv'
  BY StepFilter
<1>3. FilterInv => FilterFollowsPhase
  BY DEF FilterInv
<1> QED
  BY <1>1, <1>2, <1>3, PTL DEF Spec

-----------------------------------------------------------------------------
(* The lease.                                                              *)

\* The seconds that make a minute of the countdown.
Period == MinuteAfter + 1

\* The seconds until a renewal is sent at the latest, with u units left and d
\* seconds of the current one gone.
ToRenewal(u, d) == IF u < RenewBelow THEN 0
                   ELSE (u - RenewBelow + 1) * Period - d

\* The same for a renewal after one that has no answer.
Retry == (RetryLease - RenewBelow + 1) * Period

\* A lease is long enough for a renewal, also when every loss meets one.
LongEnough(secs) ==
    (LeaseTime(secs) - RenewBelow + 1) * Period + Losses * Retry < secs

\* Only messages are lost, and no more than the bound says.
OnlyLosses == /\ budget \in Budgets
              /\ budget.losses <= Losses
              /\ budget.flaps = 0 /\ budget.reboots = 0

\* Before there is a lease an exchange is over in the second it begins in, and
\* the units are those of the offer.
Acquiring(s) == ~running =>
    /\ net # {} => dhcp_seconds = StartDelay /\ ~due
    /\ my_ip # NoAddr => lease_time = LeaseTime(lease[s])

\* Requests go to the server; what comes from it tells its lease, and an
\* acknowledgement is not older than the second in which the lease began.
FreshNet(s) == \A m \in net :
    /\ m.type = "REQUEST" => m.to = s
    /\ m.to = Client => m.secs = lease[s]
    /\ m.type = "ACK" => leaseLeft[s] = lease[s]

\* The server holds the lease until a renewal is due and for all retries that
\* losses may still cost, or a renewal is on its way and it holds it for those.
Held(s) ==
    LET wait == ToRenewal(lease_time, dhcp_seconds)
        retries == budget.losses * Retry
    IN  \/ leaseLeft[s] = Forever
        \/ leaseLeft[s] > wait + retries
        \/ /\ \E m \in net : m.type = "REQUEST" /\ m.renew
           /\ wait <= Retry
           /\ leaseLeft[s] > retries

\* The countdown of a lease: no more units than the lease has, a minute counted
\* when it is over, and a renewal sent in the second it is due in.
Counting(s) ==
    /\ dhcp_seconds <= Period
    /\ ~due => dhcp_seconds <= MinuteAfter /\ lease_time >= RenewBelow
    /\ lease_time <= LeaseTime(lease[s])
    /\ lease_time = LeaseInf => lease[s] = Forever /\ leaseLeft[s] = Forever

LeaseInv(s) == /\ OnlyLosses
               /\ Acquiring(s)
               /\ FreshNet(s)
               /\ running => link /\ Counting(s) /\ Held(s)

\* One server that does not refuse, a second that is long enough for what is
\* sent in it, and leases that are long enough.
Setting(s) == /\ Servers = {s} /\ ~Naks /\ Prompt
              /\ \A secs \in Leases \ {Forever} : LongEnough(secs)

\* What is assumed of the clocks.
LEMMA ClockType ==
    /\ Period \in Nat /\ Period >= 1 /\ Period = MinuteAfter + 1
    /\ MinuteAfter \in Nat /\ StartDelay \in Nat /\ StartDelay <= MinuteAfter
    /\ MinuteAfter <= SecMod - 2 /\ SecMod \in Nat
    /\ RenewBelow \in Nat /\ RenewBelow >= 2
    /\ RetryLease \in Nat /\ RetryLease >= RenewBelow
    /\ MinLease \in Nat /\ MinLease >= RetryLease
    /\ LeaseCap \in Nat /\ LeaseCap >= MinLease
    /\ LeaseInf \in Nat /\ LeaseInf > LeaseCap
    /\ Forever \in Nat /\ Forever >= 1
    /\ Losses \in Nat
BY LeaseAssumption, ByteAssumption, BoundAssumption DEF Period

\* A number of minutes of at least one.
LEMMA MinutesAre ==
    ASSUME NEW k \in Nat, NEW n \in Nat, k >= 1, k <= n
    PROVE  /\ k * Period \in Nat /\ k * Period >= Period /\ k * Period <= n * Period
           /\ (k - 1) * Period = k * Period - Period
<1>1. Period \in Nat
  BY ClockType
<1> HIDE DEF Period
<1>2. k * Period \in Nat /\ n * Period \in Nat /\ (n - k) * Period \in Nat
  BY <1>1
<1>3. (n - k) * Period = n * Period - k * Period
  BY <1>1
<1>4. (k - 1) * Period \in Nat /\ (k - 1) * Period = k * Period - Period
  BY <1>1
<1> QED
  BY <1>1, <1>2, <1>3, <1>4

\* The time to a renewal: none when it is due; a second less each second, not
\* more after a minute is counted, and no more than the minutes of a longer lease.
LEMMA ToRenewalIs ==
    ASSUME NEW u \in Nat, NEW d \in Nat, d <= Period
    PROVE  /\ ToRenewal(u, d) \in Nat
           /\ u < RenewBelow => ToRenewal(u, d) = 0
           /\ u >= RenewBelow /\ d < Period => ToRenewal(u, d + 1) = ToRenewal(u, d) - 1
           /\ u >= RenewBelow /\ d = Period => ToRenewal(u - 1, 0) <= ToRenewal(u, d)
<1>1. CASE u < RenewBelow
  BY <1>1, ClockType DEF ToRenewal
<1>2. CASE u >= RenewBelow
  <2> DEFINE k == u - RenewBelow + 1
  <2>1. k \in Nat /\ k >= 1
    BY <1>2, ClockType
  <2>2. ToRenewal(u, d) = k * Period - d /\ ToRenewal(u, d + 1) = k * Period - (d + 1)
    <3>1. ~(u < RenewBelow)
      BY <1>2, ClockType
    <3> QED
      BY <3>1 DEF ToRenewal
  <2>3. ToRenewal(u - 1, 0) = IF u = RenewBelow THEN 0 ELSE (k - 1) * Period - 0
    <3>1. u - 1 < RenewBelow <=> u = RenewBelow
      BY <1>2, ClockType
    <3>2. (u - 1) - RenewBelow + 1 = k - 1
      BY <1>2, ClockType
    <3> QED
      BY <3>1, <3>2 DEF ToRenewal
  <2> HIDE DEF k
  <2>4. k * Period \in Nat /\ k * Period >= Period /\ (k - 1) * Period = k * Period - Period
    BY <2>1, MinutesAre
  <2> QED
    BY <1>2, <2>2, <2>3, <2>4, ClockType
<1> QED
  BY <1>1, <1>2, ClockType

\* Of two leases the longer one is renewed later.
LEMMA ToRenewalFits ==
    ASSUME NEW u \in Nat, NEW d \in Nat, d <= Period,
           NEW v \in Nat, u <= v, v >= RenewBelow
    PROVE  ToRenewal(u, d) <= (v - RenewBelow + 1) * Period
<1> DEFINE k == u - RenewBelow + 1
           n == v - RenewBelow + 1
<1>1. n \in Nat /\ n >= 1
  BY ClockType
<1>2. n * Period \in Nat
  BY <1>1, ClockType
<1>3. CASE u < RenewBelow
  <2>1. ToRenewal(u, d) = 0
    BY <1>3 DEF ToRenewal
  <2> HIDE DEF n
  <2> QED
    BY <1>2, <2>1 DEF n
<1>4. CASE u >= RenewBelow
  <2>1. k \in Nat /\ k >= 1 /\ k <= n
    BY <1>4, ClockType
  <2>2. ToRenewal(u, d) = k * Period - d
    BY <1>4, ClockType DEF ToRenewal
  <2> HIDE DEF k, n
  <2>3. k * Period \in Nat /\ k * Period <= n * Period
    BY <1>1, <2>1, MinutesAre
  <2>4. ToRenewal(u, d) <= n * Period
    BY <1>2, <2>2, <2>3
  <2> QED
    BY <2>4 DEF n
<1> QED
  BY <1>3, <1>4, ClockType

\* What the retries of some losses cost.
LEMMA RetriesAre ==
    ASSUME NEW l \in Nat, l <= Losses
    PROVE  /\ Retry \in Nat /\ l * Retry \in Nat /\ l * Retry <= Losses * Retry
           /\ Losses * Retry \in Nat
           /\ (l - 1) * Retry = l * Retry - Retry
<1>1. Retry \in Nat
  <2>1. RetryLease - RenewBelow + 1 \in Nat /\ Period \in Nat
    BY ClockType
  <2> HIDE DEF Period
  <2> QED
    BY <2>1 DEF Retry
<1> HIDE DEF Retry
<1>2. l * Retry \in Nat /\ Losses * Retry \in Nat /\ (Losses - l) * Retry \in Nat
  BY <1>1, ClockType
<1>3. (Losses - l) * Retry = Losses * Retry - l * Retry
  BY <1>1, ClockType
<1>4. (l - 1) * Retry = l * Retry - Retry
  BY <1>1
<1> QED
  BY <1>1, <1>2, <1>3, <1>4

\* A lease in units: at least as many as to be retried, and infinite only when
\* the lease is.
LEMMA LeaseTimeIs ==
    ASSUME NEW secs \in Leases
    PROVE  /\ LeaseTime(secs) \in Nat /\ LeaseTime(secs) >= RetryLease
           /\ LeaseTime(secs) <= LeaseInf
           /\ LeaseTime(secs) = LeaseInf => secs = Forever
<1> DEFINE units == secs \div LeaseUnit
<1>1. LeaseTime(secs) = CASE secs = Forever                     -> LeaseInf
                          [] secs # Forever /\ units > LeaseCap -> LeaseCap
                          [] secs # Forever /\ units < MinLease -> MinLease
                          [] OTHER                              -> units
  BY DEF LeaseTime
<1>2. units \in Nat
  <2>1. secs \in Nat
    BY LeaseAssumption
  <2> QED
    BY <2>1, UnitsAreNat
<1> HIDE DEF units
<1> QED
  BY <1>1, <1>2, ClockType

\* A lease that begins lasts for all its minutes and the retries.
LEMMA FullLease ==
    ASSUME NEW secs \in Leases, secs # Forever => LongEnough(secs),
           NEW u \in Nat, u <= LeaseTime(secs), NEW d \in Nat, d <= Period,
           NEW l \in Nat, l <= Losses
    PROVE  secs = Forever \/ secs > ToRenewal(u, d) + l * Retry
<1> SUFFICES ASSUME secs # Forever
             PROVE  secs > ToRenewal(u, d) + l * Retry
  OBVIOUS
<1> DEFINE full == (LeaseTime(secs) - RenewBelow + 1) * Period
<1>1. LeaseTime(secs) \in Nat /\ LeaseTime(secs) >= RenewBelow
  BY LeaseTimeIs, ClockType
<1>2. ToRenewal(u, d) <= full /\ ToRenewal(u, d) \in Nat
  BY <1>1, ToRenewalFits, ToRenewalIs
<1>3. full + Losses * Retry < secs
  BY DEF LongEnough
<1>4. full \in Int /\ secs \in Nat
  <2>1. LeaseTime(secs) - RenewBelow + 1 \in Int /\ Period \in Int
    BY <1>1, ClockType
  <2> HIDE DEF Period
  <2> QED
    BY <2>1, LeaseAssumption
<1>5. l * Retry \in Nat /\ l * Retry <= Losses * Retry /\ Losses * Retry \in Nat
  BY RetriesAre
<1> HIDE DEF full
<1> QED
  BY <1>2, <1>3, <1>4, <1>5

\* What the environment may still do becomes less, and nothing but losses.
\* Without a power cycle or a failure of the link the client keeps running and
\* the link stays up; the server keeps the lease time it is set to.
LEMMA StepOnlyLosses ==
    ASSUME OnlyLosses, [Next]_vars
    PROVE  /\ OnlyLosses'
           /\ lease' = lease
           /\ running => running'
           /\ link => link'
<1> DEFINE Spent == \/ budget' = budget
                    \/ budget.dups > 0 /\ budget' = [budget EXCEPT !.dups = @ - 1]
                    \/ budget.losses > 0 /\ budget' = [budget EXCEPT !.losses = @ - 1]
           Kept == lease' = lease /\ (running => running') /\ (link => link')
<1>1. ASSUME PollEmpty \/ RenewTraffic \/ Tick \/ LinkUp \/ UNCHANGED vars
      PROVE  Spent /\ Kept
  <2>1. Spent
    BY <1>1 DEF PollEmpty, SendDiscover, ResendDiscover, AcquireIdle, SendRenew, RenewIdle,
                RenewTraffic, Tick, LinkUp, vars
  <2>2. Kept
    BY <1>1 DEF PollEmpty, SendDiscover, ResendDiscover, AcquireIdle, SendRenew, RenewIdle,
                RenewTraffic, Tick, LinkUp, vars, client, server
  <2> QED
    BY <2>1, <2>2
<1>2. ~PowerCycle /\ ~LinkDown
  BY DEF OnlyLosses, PowerCycle, LinkDown
<1>3. ASSUME NEW m \in net, PollPacket(m)
      PROVE  Spent /\ Kept
  <2>1. \E rest \in Left(m) : Receive(m, rest)
    BY <1>3 DEF PollPacket, AcquireOffer, AcquireAck, AcquireOther, RenewAck, RenewOther
  <2>2. Spent
    BY <2>1 DEF Receive
  <2>3. Kept
    BY <1>3 DEF PollPacket, AcquireOffer, AcquireAck, AcquireOther, RenewAck, RenewOther,
                client, server
  <2> QED
    BY <2>2, <2>3
<1>4. ASSUME NEW m \in net, Serve(m) \/ Lose(m) \/ Filtered(m)
      PROVE  Spent /\ Kept
  <2>1. Spent
    BY <1>4 DEF Serve, ServerOffer, ServerAck, ServerNak, ServerIgnore, Lose, Filtered
  <2>2. Kept
    BY <1>4 DEF Serve, ServerOffer, ServerAck, ServerNak, ServerIgnore, Lose, Filtered,
                client, server
  <2> QED
    BY <2>1, <2>2
<1> HIDE DEF Spent, Kept
<1>5. Spent /\ Kept
  BY <1>1, <1>2, <1>3, <1>4 DEF Next
<1> USE DEF Spent, Kept
<1>6. Losses \in Nat
  BY ClockType
<1>7. Spent => OnlyLosses'
  BY <1>6 DEF OnlyLosses, Budgets
<1> QED
  BY <1>5, <1>7

\* Messages that are consumed or lost leave the others as they are.
LEMMA ShrinkFresh ==
    ASSUME NEW s, FreshNet(s), net' \subseteq net, lease' = lease, leaseLeft' = leaseLeft
    PROVE  FreshNet(s)'
BY DEF FreshNet

\* What the client sends goes to the server.
LEMMA SentToServer ==
    ASSUME NEW s, Servers = {s}, NEW type \in {"DISCOVER", "REQUEST"},
           NEW xid, NEW renew \in BOOLEAN, NEW ip, NEW sid,
           NEW new, new = ToServers(type, xid, renew, ip, sid)
    PROVE  \A m \in new :
              /\ m.to = s /\ m.to # Client /\ m.type = type /\ m.renew = renew
BY ServerAssumption DEF ToServers, Message

\* What the server answers tells its lease.
LEMMA ReplyTells ==
    ASSUME NEW m, NEW type
    PROVE  /\ Reply(m, type).to = Client /\ Reply(m, type).type = type
           /\ Reply(m, type).secs = lease[m.to] /\ Reply(m, type).renew = m.renew
BY DEF Reply, Message

\* No second begins with a message in flight.
LEMMA TickAlone ==
    ASSUME Prompt, Tick
    PROVE  ~due /\ net = {} /\ net' = {}
BY DEF Tick

\* Every step keeps the messages fresh.
LEMMA StepFresh ==
    ASSUME NEW s, Setting(s), TypeOK, OnlyLosses, FreshNet(s), [Next]_vars
    PROVE  FreshNet(s)'
<1>0. lease' = lease /\ Servers = {s} /\ Prompt /\ lease \in [Servers -> Leases]
  BY StepOnlyLosses DEF Setting, TypeOK
<1>1. CASE Tick
  BY <1>0, <1>1, TickAlone DEF FreshNet
<1>2. ASSUME SendDiscover \/ ResendDiscover \/ SendRenew
      PROVE  FreshNet(s)'
  <2>1. PICK type \in {"DISCOVER", "REQUEST"}, xid \in {Xid0, NextXid}, renew \in BOOLEAN,
             ip \in {my_ip, NoAddr} : net' = net \cup ToServers(type, xid, renew, ip, NoServer)
    BY <1>2 DEF SendDiscover, ResendDiscover, SendRenew, send_discover, send_renew
  <2>2. leaseLeft' = leaseLeft
    BY <1>2 DEF SendDiscover, ResendDiscover, SendRenew, server
  <2>3. PICK new : new = ToServers(type, xid, renew, ip, NoServer)
    OBVIOUS
  <2>4. \A m \in new : m.to = s /\ m.to # Client /\ m.type # "ACK"
    BY <1>0, <2>3, SentToServer
  <2> QED
    BY <1>0, <2>1, <2>2, <2>3, <2>4 DEF FreshNet
<1>3. CASE AcquireIdle \/ RenewIdle \/ RenewTraffic \/ LinkUp \/ LinkDown \/ PowerCycle
           \/ UNCHANGED vars
  <2>1. net' = net /\ leaseLeft' = leaseLeft
    BY <1>3 DEF AcquireIdle, RenewIdle, RenewTraffic, LinkUp, LinkDown, PowerCycle, vars, server
  <2> QED
    BY <1>0, <2>1, ShrinkFresh
<1>4. ASSUME NEW m \in net, AcquireOffer(m)
      PROVE  FreshNet(s)'
  <2>1. PICK new : new = ToServers("REQUEST", transaction_id, FALSE, m.ip, m.sid)
    OBVIOUS
  <2>2. net' \subseteq net \cup new /\ leaseLeft' = leaseLeft
    BY <1>4, <2>1 DEF AcquireOffer, send_request, Left, server
  <2>3. \A n \in new : n.to = s /\ n.to # Client /\ n.type # "ACK"
    BY <1>0, <2>1, ServerAssumption DEF ToServers, Message
  <2> QED
    BY <1>0, <2>2, <2>3 DEF FreshNet
<1>5. ASSUME NEW m \in net, AcquireAck(m) \/ AcquireOther(m) \/ RenewAck(m) \/ RenewOther(m)
                            \/ ServerIgnore(m) \/ Lose(m) \/ Filtered(m)
      PROVE  FreshNet(s)'
  <2>1. net' \subseteq net /\ leaseLeft' = leaseLeft
    BY <1>5 DEF AcquireAck, AcquireOther, RenewAck, RenewOther, ServerIgnore, Lose,
                Filtered, Left, server
  <2> QED
    BY <1>0, <2>1, ShrinkFresh
<1>6. ASSUME NEW m \in net, ServerOffer(m) \/ ServerNak(m)
      PROVE  FreshNet(s)'
  <2>1. PICK type \in {"OFFER", "NAK"} : net' = (net \ {m}) \cup {Reply(m, type)}
    BY <1>6 DEF ServerOffer, ServerNak
  <2>2. leaseLeft' = leaseLeft /\ m.to = s
    BY <1>0, <1>6 DEF ServerOffer, ServerNak, server
  <2>3. PICK r : r = Reply(m, type)
    OBVIOUS
  <2>4. r.to = Client /\ r.type # "ACK" /\ r.type # "REQUEST" /\ r.secs = lease[s]
    BY <2>2, <2>3, ReplyTells
  <2>5. net' \subseteq net \cup {r}
    BY <2>1, <2>3
  <2> QED
    BY <1>0, <2>2, <2>4, <2>5 DEF FreshNet
<1>7. ASSUME NEW m \in net, ServerAck(m)
      PROVE  FreshNet(s)'
  <2>1. /\ net' = (net \ {m}) \cup {Reply(m, "ACK")} /\ m.to = s
        /\ leaseLeft' = [leaseLeft EXCEPT ![s] = lease[s]]
    BY <1>0, <1>7 DEF ServerAck
  <2>2. PICK r : r = Reply(m, "ACK")
    OBVIOUS
  <2>3. r.to = Client /\ r.type = "ACK" /\ r.secs = lease[s]
    BY <2>1, <2>2, ReplyTells
  <2>4. leaseLeft'[s] = lease'[s]
    BY <1>0, <2>1 DEF TypeOK
  <2> QED
    BY <1>0, <2>1, <2>2, <2>3, <2>4 DEF FreshNet
<1> QED
  BY <1>1, <1>2, <1>3, <1>4, <1>5, <1>6, <1>7 DEF Next, PollEmpty, PollPacket, Serve

\* Every step keeps the exchange in its second: what is in flight has been sent
\* in it, and the client sends only when it has found no packet.
LEMMA StepAcquiring ==
    ASSUME NEW s, Setting(s), OnlyLosses, FreshNet(s), Acquiring(s), [Next]_vars
    PROVE  Acquiring(s)'
<1>0. lease' = lease /\ (running => running') /\ Prompt
  BY StepOnlyLosses DEF Setting
<1>1. CASE running
  BY <1>0, <1>1 DEF Acquiring
<1>2. CASE ~running
  <2>0. /\ net # {} => dhcp_seconds = StartDelay /\ ~due
        /\ my_ip # NoAddr => lease_time = LeaseTime(lease[s])
    BY <1>2 DEF Acquiring
  <2>1. CASE SendDiscover \/ ResendDiscover
    <3>1. /\ dhcp_seconds' = StartDelay /\ ~due'
          /\ my_ip' = my_ip /\ lease_time' = lease_time
      BY <2>1 DEF SendDiscover, ResendDiscover
    <3> QED
      BY <1>0, <2>0, <3>1 DEF Acquiring
  <2>2. CASE AcquireIdle
    <3>1. /\ due /\ net' = net
          /\ my_ip' = my_ip /\ lease_time' = lease_time
      BY <2>2 DEF AcquireIdle, client
    <3> QED
      BY <1>0, <2>0, <3>1 DEF Acquiring
  <2>3. CASE Tick
    <3>1. net' = {} /\ my_ip' = my_ip /\ lease_time' = lease_time
      BY <1>0, <2>3, TickAlone DEF Tick
    <3> QED
      BY <1>0, <2>0, <3>1 DEF Acquiring
  <2>4. ASSUME NEW m \in net, AcquireOffer(m)
        PROVE  Acquiring(s)'
    <3>1. lease_time' = LeaseTime(m.secs) /\ m.to = Client /\ UNCHANGED <<dhcp_seconds, due>>
      BY <2>4 DEF AcquireOffer, ForMe, parse_options
    <3>2. m.secs = lease[s]
      BY <3>1 DEF FreshNet
    <3> QED
      BY <1>0, <2>0, <3>1, <3>2 DEF Acquiring
  <2>5. ASSUME NEW m \in net, AcquireAck(m)
        PROVE  Acquiring(s)'
    BY <2>5 DEF AcquireAck, Acquiring
  <2>6. ASSUME NEW m \in net, AcquireOther(m) \/ Serve(m) \/ Lose(m) \/ Filtered(m)
        PROVE  Acquiring(s)'
    <3>1. UNCHANGED <<dhcp_seconds, due, my_ip, lease_time>>
      BY <2>6 DEF AcquireOther, Serve, ServerOffer, ServerAck, ServerNak, ServerIgnore,
                  Lose, Filtered, client
    <3> QED
      BY <1>0, <2>0, <3>1 DEF Acquiring
  <2>7. CASE LinkUp \/ LinkDown \/ UNCHANGED vars
    <3>1. UNCHANGED <<dhcp_seconds, due, my_ip, lease_time, net>>
      BY <2>7 DEF LinkUp, LinkDown, vars, client
    <3> QED
      BY <1>0, <2>0, <3>1 DEF Acquiring
  <2>8. ~PowerCycle
    BY DEF OnlyLosses, PowerCycle
  <2>9. ~SendRenew /\ ~RenewIdle /\ ~RenewTraffic
    BY <1>2 DEF SendRenew, RenewIdle, RenewTraffic
  <2>10. \A m \in net : ~RenewAck(m) /\ ~RenewOther(m)
    BY <1>2 DEF RenewAck, RenewOther
  <2> QED
    BY <2>1, <2>2, <2>3, <2>4, <2>5, <2>6, <2>7, <2>8, <2>9, <2>10
    DEF Next, PollEmpty, PollPacket
<1> QED
  BY <1>1, <1>2

\* The state of a client that runs.
Running(s) == running => link /\ Counting(s) /\ Held(s)

\* The types that the arithmetic of the lease needs.
LEMMA LeaseTypes ==
    ASSUME NEW s, Setting(s), TypeOK, OnlyLosses
    PROVE  /\ lease_time \in Nat /\ dhcp_seconds \in Nat
           /\ leaseLeft[s] \in Nat /\ lease[s] \in Leases /\ lease[s] \in Nat
           /\ leaseLeft \in [{s} -> Nat]
           /\ budget.losses \in Nat /\ budget.losses <= Losses
           /\ LeaseTime(lease[s]) \in Nat /\ LeaseTime(lease[s]) >= RetryLease
           /\ lease[s] # Forever => LongEnough(lease[s])
<1>1. lease[s] \in Leases
  BY DEF Setting, TypeOK
<1>2. LeaseTime(lease[s]) \in Nat /\ LeaseTime(lease[s]) >= RetryLease
  BY <1>1, LeaseTimeIs
<1>3. lease[s] \in Nat /\ (lease[s] # Forever => LongEnough(lease[s]))
  BY <1>1, LeaseAssumption DEF Setting
<1>4. leaseLeft \in [{s} -> Nat] /\ leaseLeft[s] \in Nat
  BY DEF Setting, TypeOK
<1>5. lease_time \in Nat
  BY ClockType DEF TypeOK
<1>6. dhcp_seconds \in Nat
  BY DEF TypeOK
<1>7. budget.losses \in Nat /\ budget.losses <= Losses
  BY DEF OnlyLosses, Budgets
<1> QED
  BY <1>1, <1>2, <1>3, <1>4, <1>5, <1>6, <1>7

\* The countdown of a poll: a minute that is over is counted, and the renewal
\* comes no later for it.
LEMMA CountdownIs ==
    ASSUME NEW s, Setting(s), TypeOK, OnlyLosses, Counting(s), Countdown
    PROVE  /\ dhcp_seconds' \in Nat /\ dhcp_seconds' <= MinuteAfter
           /\ LeaseNow \in Nat /\ LeaseNow <= lease_time
           /\ LeaseNow = LeaseInf => lease_time = LeaseInf
           /\ ~due => dhcp_seconds' = dhcp_seconds /\ LeaseNow = lease_time
           /\ lease_time # LeaseInf =>
                ToRenewal(LeaseNow, dhcp_seconds') <= ToRenewal(lease_time, dhcp_seconds)
<1>1. /\ lease_time \in Nat /\ dhcp_seconds \in Nat /\ dhcp_seconds <= Period
      /\ lease_time \in 0 .. LeaseCap \cup {LeaseInf}
  BY LeaseTypes DEF Counting, TypeOK
<1>2. dhcp_seconds' = IF dhcp_seconds > MinuteAfter THEN 0 ELSE dhcp_seconds
  BY DEF Countdown, Minute
<1>3. LeaseNow = IF dhcp_seconds > MinuteAfter /\ lease_time < LeaseInf /\ lease_time > 1
                 THEN lease_time - 1 ELSE lease_time
  BY DEF LeaseNow, Minute
<1>4. /\ dhcp_seconds' \in Nat /\ dhcp_seconds' <= MinuteAfter
      /\ LeaseNow \in Nat /\ LeaseNow <= lease_time
      /\ LeaseNow = LeaseInf => lease_time = LeaseInf
  BY <1>1, <1>2, <1>3, ClockType
<1>5. ~due => dhcp_seconds' = dhcp_seconds /\ LeaseNow = lease_time
  BY <1>1, <1>2, <1>3, ClockType DEF Counting
<1>6. ASSUME lease_time # LeaseInf
      PROVE  ToRenewal(LeaseNow, dhcp_seconds') <= ToRenewal(lease_time, dhcp_seconds)
  <2>1. ToRenewal(lease_time, dhcp_seconds) \in Nat
    BY <1>1, ToRenewalIs
  <2>2. CASE dhcp_seconds <= MinuteAfter
    <3>1. dhcp_seconds' = dhcp_seconds /\ LeaseNow = lease_time
      BY <1>1, <1>2, <1>3, <2>2, ClockType
    <3> QED
      BY <2>1, <3>1
  <2>3. CASE dhcp_seconds > MinuteAfter /\ lease_time < RenewBelow
    <3>1. LeaseNow < RenewBelow
      BY <1>1, <1>4, <2>3, ClockType
    <3>2. ToRenewal(LeaseNow, dhcp_seconds') = 0
      BY <3>1 DEF ToRenewal
    <3> QED
      BY <2>1, <3>2
  <2>4. CASE dhcp_seconds > MinuteAfter /\ lease_time >= RenewBelow
    <3>1. dhcp_seconds = Period /\ dhcp_seconds' = 0 /\ LeaseNow = lease_time - 1
      BY <1>1, <1>2, <1>3, <1>6, <2>4, ClockType
    <3>2. ToRenewal(lease_time - 1, 0) <= ToRenewal(lease_time, dhcp_seconds)
      BY <1>1, <2>4, <3>1, ToRenewalIs
    <3> QED
      BY <3>1, <3>2
  <2> QED
    BY <1>1, <2>2, <2>3, <2>4, ClockType
<1> QED
  BY <1>4, <1>5, <1>6

\* A client that takes the acknowledgement of the exchange starts with a whole
\* lease.
LEMMA AckRunning ==
    ASSUME NEW s, Setting(s), TypeOK, IInv, LeaseInv(s), NEW m \in net, AcquireAck(m)
    PROVE  Running(s)'
<1>1. /\ ~running /\ link /\ link' = link /\ m.type = "ACK"
      /\ UNCHANGED <<dhcp_seconds, lease_time, due, lease, leaseLeft>>
      /\ \E rest \in Left(m) : Receive(m, rest)
  BY DEF AcquireAck, server
<1>2. budget'.losses = budget.losses
  BY <1>1 DEF Receive, LeaseInv, OnlyLosses, Budgets
<1>3. dhcp_seconds = StartDelay /\ ~due /\ leaseLeft[s] = lease[s]
  BY <1>1 DEF LeaseInv, Acquiring, FreshNet
<1>4. my_ip # NoAddr
  BY <1>1 DEF IInv, NetSound
<1>5. lease_time = LeaseTime(lease[s])
  BY <1>1, <1>4 DEF LeaseInv, Acquiring
<1>6. /\ lease[s] \in Leases /\ LeaseTime(lease[s]) \in Nat /\ LeaseTime(lease[s]) >= RetryLease
      /\ lease[s] # Forever => LongEnough(lease[s])
      /\ budget.losses \in Nat /\ budget.losses <= Losses
  BY LeaseTypes DEF LeaseInv
<1>7. LeaseTime(lease[s]) = LeaseInf => lease[s] = Forever
  BY <1>6, LeaseTimeIs
<1>8. Counting(s)'
  BY <1>1, <1>3, <1>5, <1>6, <1>7, ClockType DEF Counting
<1>9. lease[s] = Forever \/ lease[s] > ToRenewal(lease_time, dhcp_seconds) + budget.losses * Retry
  BY <1>3, <1>5, <1>6, FullLease, ClockType
<1>10. Held(s)'
  BY <1>1, <1>2, <1>3, <1>9 DEF Held
<1> QED
  BY <1>1, <1>8, <1>10 DEF Running

\* A poll that counts down and sends nothing keeps what is held.
LEMMA IdleHeld ==
    ASSUME NEW s, Setting(s), TypeOK, OnlyLosses, Counting(s), Held(s), Countdown,
           lease_time' = LeaseNow, budget'.losses = budget.losses,
           UNCHANGED <<lease, leaseLeft>>,
           \A m \in net : m.type = "REQUEST" => m \in net'
    PROVE  Held(s)'
<1> DEFINE wait == ToRenewal(lease_time, dhcp_seconds)
           next == ToRenewal(lease_time', dhcp_seconds')
           retries == budget.losses * Retry
<1>1. CASE leaseLeft[s] = Forever
  BY <1>1 DEF Held
<1>2. CASE leaseLeft[s] # Forever
  <2>1. lease_time # LeaseInf
    BY <1>2 DEF Counting
  <2>2. next <= wait /\ next \in Nat
    <3>1. /\ lease_time' \in Nat /\ dhcp_seconds' \in Nat /\ dhcp_seconds' <= Period
          /\ ToRenewal(LeaseNow, dhcp_seconds') <= ToRenewal(lease_time, dhcp_seconds)
      BY <2>1, CountdownIs, ClockType
    <3> QED
      BY <3>1, ToRenewalIs
  <2>3. wait \in Nat /\ retries \in Nat /\ leaseLeft[s] \in Nat /\ Retry \in Nat
    BY LeaseTypes, ToRenewalIs, RetriesAre DEF Counting
  <2>4. \/ leaseLeft[s] > wait + retries
        \/ /\ \E m \in net : m.type = "REQUEST" /\ m.renew
           /\ wait <= Retry
           /\ leaseLeft[s] > retries
    BY <1>2 DEF Held
  <2>5. budget'.losses * Retry = retries /\ leaseLeft'[s] = leaseLeft[s]
    OBVIOUS
  <2> HIDE DEF wait, next, retries
  <2>6. CASE leaseLeft[s] > wait + retries
    <3>1. leaseLeft'[s] > next + retries
      BY <2>2, <2>3, <2>5, <2>6
    <3> QED
      BY <2>5, <3>1 DEF Held, next
  <2>7. CASE /\ \E m \in net : m.type = "REQUEST" /\ m.renew
             /\ wait <= Retry
             /\ leaseLeft[s] > retries
    <3>1. /\ \E m \in net' : m.type = "REQUEST" /\ m.renew
          /\ next <= Retry
          /\ leaseLeft'[s] > retries
      BY <2>2, <2>3, <2>5, <2>7
    <3> QED
      BY <2>5, <3>1 DEF Held, next
  <2> QED
    BY <2>4, <2>6, <2>7
<1> QED
  BY <1>1, <1>2

\* Polls of a client that runs, without an acknowledgement for it.
LEMMA IdleRunning ==
    ASSUME NEW s, Setting(s), TypeOK, LeaseInv(s), running,
           \/ RenewIdle \/ RenewTraffic
           \/ \E m \in net : RenewOther(m)
    PROVE  Running(s)'
<1>1. /\ link /\ Counting(s) /\ Held(s) /\ OnlyLosses /\ FreshNet(s)
      /\ link' = link /\ Countdown /\ lease_time' = LeaseNow /\ UNCHANGED <<lease, leaseLeft>>
  BY DEF LeaseInv, RenewIdle, RenewTraffic, RenewOther, server
<1>2. budget'.losses = budget.losses
  BY <1>1 DEF RenewIdle, RenewTraffic, RenewOther, Receive, OnlyLosses, Budgets
<1>3. \A n \in net : n.type = "REQUEST" => n \in net'
  <2>1. \A n \in net : n.type = "REQUEST" => n.to # Client
    BY <1>1, ServerAssumption DEF FreshNet, Setting
  <2> QED
    BY <2>1 DEF RenewIdle, RenewTraffic, RenewOther, Left
<1>4. Held(s)'
  BY <1>1, <1>2, <1>3, IdleHeld
<1>5. /\ dhcp_seconds' \in Nat /\ dhcp_seconds' <= MinuteAfter
      /\ LeaseNow \in Nat /\ LeaseNow <= lease_time
      /\ LeaseNow = LeaseInf => lease_time = LeaseInf
      /\ ~due => dhcp_seconds' = dhcp_seconds /\ LeaseNow = lease_time
  BY <1>1, CountdownIs
<1>6. /\ LeaseTime(lease[s]) \in Nat /\ lease_time \in Nat
  BY <1>1, LeaseTypes
\* Only a poll that finds nothing due ends the search for something to send.
<1>7. ~due' => ~due \/ LeaseNow >= RenewBelow
  <2>1. due' = due \/ ~RenewDue
    BY <1>1 DEF RenewIdle, RenewTraffic, RenewOther
  <2>2. ~RenewDue => LeaseNow >= RenewBelow
    BY <1>5, ClockType DEF RenewDue
  <2> QED
    BY <2>1, <2>2
<1>8. Counting(s)'
  BY <1>1, <1>5, <1>6, <1>7, ClockType DEF Counting
<1> QED
  BY <1>1, <1>4, <1>8 DEF Running

\* A renewal is sent while the server holds the lease for the retries it may
\* take.
LEMMA SendRunning ==
    ASSUME NEW s, Setting(s), TypeOK, LeaseInv(s), SendRenew
    PROVE  Running(s)'
<1>1. /\ running /\ link /\ Counting(s) /\ Held(s) /\ OnlyLosses
      /\ Countdown /\ lease_time' = RetryLease /\ ~due' /\ link' = link
      /\ UNCHANGED <<lease, leaseLeft, budget>>
      /\ net' = net \cup ToServers("REQUEST", NextXid, TRUE, my_ip, NoServer)
  BY DEF SendRenew, send_renew, LeaseInv, server
<1>2. /\ lease_time \in Nat /\ dhcp_seconds \in Nat /\ dhcp_seconds <= Period
      /\ leaseLeft[s] \in Nat /\ budget.losses \in Nat /\ budget.losses <= Losses
      /\ LeaseTime(lease[s]) \in Nat /\ LeaseTime(lease[s]) >= RetryLease
  BY <1>1, LeaseTypes DEF Counting
<1>3. dhcp_seconds' \in Nat /\ dhcp_seconds' <= MinuteAfter
  BY <1>1, CountdownIs
<1>4. Counting(s)'
  BY <1>1, <1>2, <1>3, ClockType DEF Counting
<1>5. ToRenewal(lease_time, dhcp_seconds) \in Nat /\ budget.losses * Retry \in Nat
      /\ Retry \in Nat
  BY <1>2, ToRenewalIs, RetriesAre
<1>6. leaseLeft[s] = Forever \/ leaseLeft[s] > budget.losses * Retry
  BY <1>1, <1>2, <1>5 DEF Held
<1>7. ToRenewal(lease_time', dhcp_seconds') <= Retry
  <2>1. ToRenewal(RetryLease, dhcp_seconds') <= (RetryLease - RenewBelow + 1) * Period
    BY <1>3, ToRenewalFits, ClockType
  <2> QED
    BY <1>1, <2>1 DEF Retry
<1>8. \E m \in net' : m.type = "REQUEST" /\ m.renew
  <2>1. PICK m : m = Message(s, "REQUEST", NextXid, TRUE, my_ip, NoServer, 0)
    OBVIOUS
  <2>2. m \in net'
    BY <1>1, <2>1 DEF ToServers, Setting
  <2>3. m.type = "REQUEST" /\ m.renew = TRUE
    BY <2>1 DEF Message
  <2> QED
    BY <2>2, <2>3
<1>9. Held(s)'
  BY <1>1, <1>6, <1>7, <1>8 DEF Held
<1> QED
  BY <1>1, <1>4, <1>9 DEF Running

\* With an acknowledgement, or at the server, a lease begins: it is held for
\* all its minutes, however many of them the client counts.
LEMMA WholeHeld ==
    ASSUME NEW s, Setting(s), TypeOK, OnlyLosses, lease' = lease,
           leaseLeft'[s] = lease[s], budget'.losses = budget.losses,
           lease_time' \in Nat, lease_time' <= LeaseTime(lease[s]),
           dhcp_seconds' \in Nat, dhcp_seconds' <= Period
    PROVE  Held(s)'
<1>1. /\ lease[s] \in Leases /\ (lease[s] # Forever => LongEnough(lease[s]))
      /\ budget.losses \in Nat /\ budget.losses <= Losses
  BY LeaseTypes
<1>2. lease[s] = Forever \/ lease[s] > ToRenewal(lease_time', dhcp_seconds') + budget.losses * Retry
  BY <1>1, FullLease
<1> QED
  BY <1>2 DEF Held

\* The acknowledgement of a renewal.
LEMMA RenewAckRunning ==
    ASSUME NEW s, Setting(s), TypeOK, LeaseInv(s), NEW m \in net, RenewAck(m)
    PROVE  Running(s)'
<1>1. /\ running /\ link /\ Counting(s) /\ OnlyLosses /\ FreshNet(s)
      /\ Countdown /\ lease_time' = LeaseTime(m.secs) /\ link' = link
      /\ m.to = Client /\ m.type = "ACK"
      /\ UNCHANGED <<lease, leaseLeft, due>>
  BY DEF RenewAck, ForMe, parse_options, LeaseInv, server
<1>2. budget'.losses = budget.losses
  BY <1>1 DEF RenewAck, Receive, OnlyLosses, Budgets
<1>3. m.secs = lease[s] /\ leaseLeft[s] = lease[s]
  BY <1>1 DEF FreshNet
<1>4. /\ lease[s] \in Leases
      /\ LeaseTime(lease[s]) \in Nat /\ LeaseTime(lease[s]) >= RetryLease
      /\ LeaseTime(lease[s]) = LeaseInf => lease[s] = Forever
  BY <1>1, LeaseTypes, LeaseTimeIs
<1>5. dhcp_seconds' \in Nat /\ dhcp_seconds' <= MinuteAfter
  BY <1>1, CountdownIs
<1>6. Counting(s)'
  BY <1>1, <1>3, <1>4, <1>5, ClockType DEF Counting
<1>7. Held(s)'
  BY <1>1, <1>2, <1>3, <1>4, <1>5, WholeHeld, ClockType
<1> QED
  BY <1>1, <1>6, <1>7 DEF Running

\* The server begins a lease, the first one or a new one.
LEMMA GrantRunning ==
    ASSUME NEW s, Setting(s), TypeOK, LeaseInv(s), running, NEW m \in net, ServerAck(m)
    PROVE  Running(s)'
<1>1. /\ link /\ Counting(s) /\ OnlyLosses
      /\ UNCHANGED <<lease_time, dhcp_seconds, link, due, lease, budget>>
      /\ leaseLeft' = [leaseLeft EXCEPT ![s] = lease[s]]
  BY DEF ServerAck, LeaseInv, Setting, client
<1>2. lease_time \in Nat /\ dhcp_seconds \in Nat /\ leaseLeft \in [{s} -> Nat]
  BY <1>1, LeaseTypes
<1>3. leaseLeft'[s] = lease[s]
  BY <1>1, <1>2
<1>4. Counting(s)'
  BY <1>1, <1>3 DEF Counting
<1>5. Held(s)'
  <2>1. lease_time <= LeaseTime(lease[s]) /\ dhcp_seconds <= Period
    BY <1>1 DEF Counting
  <2> QED
    BY <1>1, <1>2, <1>3, <2>1, WholeHeld
<1> QED
  BY <1>1, <1>4, <1>5 DEF Running

\* A second passes only when nothing is due and nothing is in flight: the server
\* holds the lease a second less, and the renewal is a second nearer.
LEMMA TickRunning ==
    ASSUME NEW s, Setting(s), TypeOK, LeaseInv(s), running, Tick
    PROVE  Running(s)'
<1>1. /\ link /\ Counting(s) /\ Held(s) /\ OnlyLosses /\ ~due /\ net = {}
      /\ UNCHANGED <<lease_time, link, lease, budget>> /\ due'
      /\ dhcp_seconds' = (dhcp_seconds + 1) % SecMod
      /\ leaseLeft' = [t \in Servers |-> IF leaseLeft[t] \in {0, Forever}
                                         THEN leaseLeft[t] ELSE leaseLeft[t] - 1]
  BY DEF Tick, LeaseInv, Setting
<1>2. /\ lease_time \in Nat /\ dhcp_seconds \in Nat
      /\ leaseLeft[s] \in Nat /\ budget.losses \in Nat /\ budget.losses <= Losses
  BY <1>1, LeaseTypes
<1>3. dhcp_seconds <= MinuteAfter /\ lease_time >= RenewBelow
  BY <1>1 DEF Counting
<1>4. dhcp_seconds' = dhcp_seconds + 1 /\ dhcp_seconds + 1 <= Period
  <2>1. dhcp_seconds + 1 \in 0 .. SecMod - 1 /\ SecMod \in Nat \ {0}
    BY <1>2, <1>3, ClockType
  <2> QED
    BY <1>1, <1>2, <1>3, <2>1, ClockType
<1>5. leaseLeft'[s] = IF leaseLeft[s] \in {0, Forever} THEN leaseLeft[s] ELSE leaseLeft[s] - 1
  BY <1>1 DEF Setting
<1>6. Counting(s)'
  BY <1>1, <1>4, <1>5 DEF Counting
<1>7. /\ ToRenewal(lease_time, dhcp_seconds) \in Nat
      /\ ToRenewal(lease_time, dhcp_seconds + 1) \in Nat
      /\ ToRenewal(lease_time, dhcp_seconds + 1) = ToRenewal(lease_time, dhcp_seconds) - 1
      /\ budget.losses * Retry \in Nat
  <2>1. budget.losses * Retry \in Nat
    BY <1>2, RetriesAre
  <2>2. dhcp_seconds <= Period /\ dhcp_seconds < Period /\ dhcp_seconds + 1 \in Nat
    BY <1>2, <1>3, ClockType
  <2>3. /\ ToRenewal(lease_time, dhcp_seconds) \in Nat
        /\ ToRenewal(lease_time, dhcp_seconds + 1) = ToRenewal(lease_time, dhcp_seconds) - 1
    BY <1>2, <1>3, <2>2, ToRenewalIs
  <2>4. ToRenewal(lease_time, dhcp_seconds + 1) \in Nat
    BY <1>2, <1>4, <2>2, ToRenewalIs
  <2> QED
    BY <2>1, <2>3, <2>4
<1>8. \/ leaseLeft[s] = Forever
      \/ leaseLeft[s] > ToRenewal(lease_time, dhcp_seconds) + budget.losses * Retry
  BY <1>1 DEF Held
<1>9. \/ leaseLeft'[s] = Forever
      \/ leaseLeft'[s] > ToRenewal(lease_time, dhcp_seconds + 1) + budget.losses * Retry
  BY <1>2, <1>5, <1>7, <1>8
<1>10. Held(s)'
  BY <1>1, <1>4, <1>9 DEF Held
<1> QED
  BY <1>1, <1>6, <1>10 DEF Running

\* A message is lost: it may be the renewal, and then one retry is used up.
LEMMA LoseRunning ==
    ASSUME NEW s, Setting(s), TypeOK, LeaseInv(s), running, NEW m \in net, Lose(m)
    PROVE  Running(s)'
<1>1. /\ link /\ Counting(s) /\ Held(s) /\ OnlyLosses
      /\ UNCHANGED <<lease_time, dhcp_seconds, link, due, lease, leaseLeft>>
      /\ net' = net \ {m}
      /\ budget.losses > 0 /\ budget' = [budget EXCEPT !.losses = @ - 1]
  BY DEF Lose, LeaseInv, client, server
<1>2. Counting(s)'
  BY <1>1 DEF Counting
<1>3. /\ lease_time \in Nat /\ dhcp_seconds \in Nat /\ dhcp_seconds <= Period
      /\ leaseLeft[s] \in Nat /\ budget.losses \in Nat /\ budget.losses <= Losses
  BY <1>1, LeaseTypes DEF Counting
<1>4. budget'.losses = budget.losses - 1
  BY <1>1 DEF OnlyLosses, Budgets
<1> DEFINE wait == ToRenewal(lease_time, dhcp_seconds)
           retries == budget.losses * Retry
           left == (budget.losses - 1) * Retry
<1>5. /\ wait \in Nat /\ retries \in Nat /\ Retry \in Nat
      /\ left = retries - Retry
  BY <1>3, ToRenewalIs, RetriesAre
<1>6. \/ leaseLeft[s] = Forever
      \/ leaseLeft[s] > wait + retries
      \/ wait <= Retry /\ leaseLeft[s] > retries
  BY <1>1 DEF Held
<1> HIDE DEF wait, retries, left
<1>7. leaseLeft[s] = Forever \/ leaseLeft[s] > wait + left
  BY <1>3, <1>5, <1>6
<1>8. Held(s)'
  BY <1>1, <1>4, <1>7 DEF Held, wait, left
<1> QED
  BY <1>1, <1>2, <1>8 DEF Running

\* The server holds the lease as long as the client runs.
LEMMA HeldNow ==
    ASSUME NEW s, Setting(s), TypeOK, LeaseInv(s), running
    PROVE  leaseLeft[s] > 0
<1>1. OnlyLosses /\ Counting(s) /\ Held(s)
  BY DEF LeaseInv
<1>2. /\ lease_time \in Nat /\ dhcp_seconds \in Nat /\ dhcp_seconds <= Period
      /\ leaseLeft[s] \in Nat /\ budget.losses \in Nat /\ budget.losses <= Losses
  BY <1>1, LeaseTypes DEF Counting
<1>3. /\ ToRenewal(lease_time, dhcp_seconds) \in Nat /\ budget.losses * Retry \in Nat
  BY <1>2, ToRenewalIs, RetriesAre
<1> QED
  BY <1>1, <1>2, <1>3, ClockType DEF Held

\* With one server the address in use is the one that it has granted.
LEMMA OneGrant ==
    ASSUME NEW s, Servers = {s}, TypeOK, IInv, running
    PROVE  s \in granted /\ server_identifier = s /\ my_ip = Pool[s]
<1>1. s \in granted /\ my_ip # NoAddr
  BY DEF TypeOK, IInv, BoundSound
<1> QED
  BY <1>1 DEF IInv, OfferConsistent

\* Other steps of the server and of the network: a renewal that asks for the
\* address the server has granted is not ignored.
LEMMA NetRunning ==
    ASSUME NEW s, Setting(s), TypeOK, IInv, LeaseInv(s), running, NEW m \in net,
           ServerOffer(m) \/ ServerIgnore(m) \/ Filtered(m)
    PROVE  Running(s)'
<1>1. /\ link /\ Counting(s) /\ Held(s) /\ OnlyLosses /\ FreshNet(s)
      /\ UNCHANGED <<lease_time, dhcp_seconds, link, due, lease, leaseLeft, budget>>
  BY DEF ServerOffer, ServerIgnore, Filtered, LeaseInv, client, server
<1>2. ~(m.type = "REQUEST" /\ m.renew)
  <2>1. CASE ServerOffer(m)
    BY <2>1 DEF ServerOffer
  <2>2. CASE Filtered(m)
    BY <1>1, <2>2, ServerAssumption DEF Filtered, FreshNet, Setting
  <2>3. CASE ServerIgnore(m)
    <3> SUFFICES ASSUME m.type = "REQUEST", m.renew
                 PROVE  FALSE
      OBVIOUS
    <3>1. m.to = s /\ m.ip = my_ip
      BY <1>1 DEF FreshNet, IInv, NetSound
    <3>2. s \in granted /\ my_ip = Pool[s] /\ leaseLeft[s] > 0
      BY OneGrant, HeldNow DEF Setting
    <3> QED
      BY <2>3, <3>1, <3>2 DEF ServerIgnore, ForServer
  <2> QED
    BY <2>1, <2>2, <2>3
<1>3. \A n \in net : n.type = "REQUEST" /\ n.renew => n \in net'
  BY <1>2 DEF ServerOffer, ServerIgnore, Filtered
<1>4. Counting(s)'
  BY <1>1 DEF Counting
<1>5. Held(s)'
  BY <1>1, <1>3 DEF Held
<1> QED
  BY <1>1, <1>4, <1>5 DEF Running

\* Nothing happens that the lease depends on.
LEMMA SameRunning ==
    ASSUME NEW s, LeaseInv(s), running, LinkUp \/ UNCHANGED vars
    PROVE  Running(s)'
<1>1. /\ UNCHANGED <<lease_time, dhcp_seconds, due, lease, leaseLeft, budget, net>>
      /\ link' = link /\ link /\ Counting(s) /\ Held(s)
  BY DEF LinkUp, vars, client, server, LeaseInv
<1>2. Counting(s)' /\ Held(s)'
  BY <1>1 DEF Counting, Held
<1> QED
  BY <1>1, <1>2 DEF Running

\* Every step keeps the lease.
LEMMA StepRunning ==
    ASSUME NEW s, Setting(s), TypeOK, IInv, LeaseInv(s), [Next]_vars
    PROVE  Running(s)'
<1>1. ASSUME NEW m \in net, AcquireAck(m)
      PROVE  Running(s)'
  BY <1>1, AckRunning
<1>2. CASE ~running /\ \A m \in net : ~AcquireAck(m)
  <2>1. ~running'
    BY <1>2 DEF Next, PollEmpty, PollPacket, Serve, SendDiscover, ResendDiscover,
       AcquireIdle, SendRenew, RenewIdle, RenewTraffic, Tick, PowerCycle, LinkUp, LinkDown,
       AcquireOffer, AcquireOther, RenewAck, RenewOther, ServerOffer, ServerAck, ServerNak,
       ServerIgnore, Lose, Filtered, vars, client
  <2> QED
    BY <2>1 DEF Running
<1>3. CASE running
  <2>1. CASE PollEmpty \/ RenewTraffic
    <3>1. SendRenew \/ RenewIdle \/ RenewTraffic
      BY <1>3, <2>1 DEF PollEmpty, SendDiscover, ResendDiscover, AcquireIdle
    <3> QED
      BY <1>3, <3>1, SendRunning, IdleRunning
  <2>2. CASE Tick
    BY <1>3, <2>2, TickRunning
  <2>3. ~PowerCycle /\ ~LinkDown
    BY DEF LeaseInv, OnlyLosses, PowerCycle, LinkDown
  <2>4. CASE LinkUp \/ UNCHANGED vars
    BY <1>3, <2>4, SameRunning
  <2>5. ASSUME NEW m \in net, PollPacket(m)
        PROVE  Running(s)'
    <3>1. RenewAck(m) \/ RenewOther(m)
      BY <1>3, <2>5 DEF PollPacket, AcquireOffer, AcquireAck, AcquireOther
    <3> QED
      BY <1>3, <3>1, RenewAckRunning, IdleRunning
  <2>6. ASSUME NEW m \in net, Serve(m) \/ Lose(m) \/ Filtered(m)
        PROVE  Running(s)'
    <3>1. \/ ServerAck(m) \/ Lose(m)
          \/ ServerOffer(m) \/ ServerIgnore(m) \/ Filtered(m)
      BY <2>6 DEF Serve, ServerNak, Setting
    <3> QED
      BY <1>3, <3>1, GrantRunning, LoseRunning, NetRunning
  <2> QED
    BY <2>1, <2>2, <2>3, <2>4, <2>5, <2>6 DEF Next
<1> QED
  BY <1>1, <1>2, <1>3

\* The lease at the start: there is none.
LEMMA InitLease ==
    ASSUME Reboots = 0, Flaps = 0, NEW s, Init
    PROVE  LeaseInv(s)
BY ClockType, BoundAssumption
DEF Init, ClientInit, LeaseInv, OnlyLosses, Budgets, Acquiring, FreshNet

\* One server that refuses nothing, no power cycle and no failure of the link,
\* a poll and a whole exchange in every second: then the server holds the lease
\* of a client that runs at all times, if every lease is longer than the client
\* counts down before it renews it, and longer by as many retries as messages
\* may be lost (dhcp.c:548-573).
THEOREM LeaseStaysHeld ==
    ASSUME Reboots = 0, Flaps = 0, ~Naks, Prompt, NEW s, Servers = {s},
           \A secs \in Leases \ {Forever} :
               (LeaseTime(secs) - RenewBelow + 1) * (MinuteAfter + 1)
                 + Losses * ((RetryLease - RenewBelow + 1) * (MinuteAfter + 1)) < secs
    PROVE  Spec => []LeaseHeld
<1>1. Setting(s)
  BY DEF Setting, LongEnough, Retry, Period
<1>2. Init => TypeOK /\ IInv /\ LeaseInv(s)
  BY InitTypeOK, InitIInv, InitLease
<1>3. TypeOK /\ IInv /\ LeaseInv(s) /\ [Next]_vars => (TypeOK /\ IInv /\ LeaseInv(s))'
  <2> SUFFICES ASSUME TypeOK, IInv, LeaseInv(s), [Next]_vars
               PROVE  TypeOK' /\ IInv' /\ LeaseInv(s)'
    OBVIOUS
  <2>1. TypeOK' /\ IInv'
    BY StepTypeOK, StepIInv
  <2>2. OnlyLosses /\ FreshNet(s) /\ Acquiring(s)
    BY DEF LeaseInv
  <2>3. OnlyLosses' /\ FreshNet(s)' /\ Acquiring(s)' /\ Running(s)'
    BY <1>1, <2>2, StepOnlyLosses, StepFresh, StepAcquiring, StepRunning
  <2> QED
    BY <2>1, <2>3 DEF LeaseInv, Running
<1>4. TypeOK /\ IInv /\ LeaseInv(s) => LeaseHeld
  <2> SUFFICES ASSUME TypeOK, IInv, LeaseInv(s), running
               PROVE  leaseLeft[server_identifier] > 0
    BY DEF LeaseHeld
  <2> QED
    BY <1>1, OneGrant, HeldNow
<1> QED
  BY <1>2, <1>3, <1>4, PTL DEF Spec
=============================================================================
