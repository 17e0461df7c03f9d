-------------------------------- MODULE Dhcp --------------------------------
(***************************************************************************)
(* The DHCP client (net/dhcp.c) with the two loops that drive it           *)
(* (net/network.c:492-495 until an address is acquired, network_backbone   *)
(* afterwards), the one-second interrupt (utils/counter.c), and, external, *)
(* the servers and a network that may lose, delay, reorder and duplicate.  *)
(*                                                                         *)
(* One action is one poll: network_receive followed by dhcp_request_ip or  *)
(* dhcp_renew.  The interrupt only increments dhcp_seconds; an increment   *)
(* that falls between a test of dhcp_seconds and the assignment after it   *)
(* is overwritten, which is the same as a tick just before the poll.       *)
(***************************************************************************)
EXTENDS Integers, FiniteSets

CONSTANTS
    Servers,        \* the DHCP servers of the network
    Addr, NoAddr,   \* addresses; NoAddr is 0.0.0.0
    NoServer,       \* server_identifier before any offer
    Pool,           \* the address each server keeps for this client
    Broadcast,      \* the replies that are broadcast: pairs of a server and
                    \* whether the reply is of a renewal
    Leases,         \* lease times, in seconds, a server may be set to
    Forever,        \* the lease time 0xFFFFFFFF
    Client,         \* this device, as a destination
    Xid0,           \* my_mac[5], the first transaction id
    XidMod,         \* transaction_id is a byte: 256
    SecMod,         \* dhcp_seconds is a byte: 256
    StartDelay,     \* 3
    ResendAfter,    \* 33
    MinuteAfter,    \* 50
    LeaseUnit,      \* 64, seconds per unit of lease_time
    MinLease,       \* 5
    RenewBelow,     \* 3
    RetryLease,     \* 5
    LeaseCap,       \* 0xFFFD, the longest finite lease_time
    LeaseInf        \* 0xFFFF, the infinite lease_time

CONSTANTS           \* bounds of the environment
    Losses,         \* messages the network may lose
    LossKinds,      \* which: pairs of a type and whether it is of a renewal
    Dups,           \* messages it may deliver once more
    Reboots,        \* power cycles of the device
    Flaps,          \* times the link may go down
    Naks,           \* whether a server may refuse a request
    Prompt,         \* whether every second is long enough for the messages in
                    \* flight to arrive and for one poll without a packet
    MaxNet          \* messages in flight beyond which none is sent again

ASSUME AddrAssumption == NoAddr \notin Addr /\ Pool \in [Servers -> Addr]
ASSUME ServerAssumption == NoServer \notin Servers /\ Client \notin Servers
ASSUME LeaseAssumption ==
    /\ Leases \subseteq Nat \ {0}
    /\ {Forever, LeaseUnit, RetryLease, MinLease, LeaseCap, LeaseInf} \subseteq Nat \ {0}
    /\ RenewBelow \in 2 .. RetryLease /\ RetryLease <= MinLease
    /\ MinLease <= LeaseCap /\ LeaseCap < LeaseInf
ASSUME ByteAssumption ==
    /\ {XidMod, SecMod} \subseteq Nat \ {0}
    /\ Xid0 \in 0 .. XidMod - 1
    /\ {StartDelay, ResendAfter, MinuteAfter} \subseteq 0 .. SecMod - 2
    /\ StartDelay <= MinuteAfter
ASSUME BoundAssumption == {Losses, Dups, Reboots, Flaps} \subseteq Nat

VARIABLES
    running,        \* network_init has returned: the main loop polls dhcp_renew
    dhcp_seconds,
    discover_sent,
    transaction_id,
    lease_time,
    server_identifier,
    my_ip,
    bcen,           \* the chip accepts broadcast frames
    link,           \* what network_is_link_up answers
    net,            \* the messages in flight
    lease,          \* the lease time each server is set to
    granted,        \* history: servers that acknowledged their address
    leaseLeft,      \* seconds a server still holds its grant, 0 if none
    due,            \* no poll without a packet since the last tick
    budget          \* what the environment may still do

client == <<running, dhcp_seconds, discover_sent, transaction_id, lease_time,
            server_identifier, my_ip, bcen>>
server == <<lease, granted, leaseLeft>>
vars == <<client, link, net, server, due, budget>>

-----------------------------------------------------------------------------
(* Messages.  The transaction id has a marker byte, 1 for the initial      *)
(* exchange and 2 for a renewal (dhcp.c:307-313,617), here renew.          *)

Message(to, type, xid, renew, ip, sid, secs) ==
    [to |-> to, type |-> type, xid |-> xid, renew |-> renew,
     ip |-> ip, sid |-> sid, secs |-> secs]

\* A message of the client is broadcast: every server gets its copy.
ToServers(type, xid, renew, ip, sid) ==
    {Message(s, type, xid, renew, ip, sid, 0) : s \in Servers}

\* The three messages the client sends.
send_discover(xid) == ToServers("DISCOVER", xid, FALSE, NoAddr, NoServer)
send_request(ip, sid) == ToServers("REQUEST", transaction_id, FALSE, ip, sid)
send_renew(xid) == ToServers("REQUEST", xid, TRUE, my_ip, NoServer)

\* The reply copies the transaction id of the message it answers.
Reply(m, type) == Message(Client, type, m.xid, m.renew, Pool[m.to], m.to, lease[m.to])

\* m is received; what is left in flight may hold a duplicate of it.
Receive(m, rest) ==
    /\ m \in net
    /\ \/ rest = net \ {m} /\ UNCHANGED budget
       \/ /\ budget.dups > 0
          /\ rest = net
          /\ budget' = [budget EXCEPT !.dups = @ - 1]

Left(m) == {net, net \ {m}}

\* The receive filter of the chip.
Accepted(m) == <<m.sid, m.renew>> \in Broadcast => bcen

NextXid_NoWrap == transaction_id + 1

NextXid == (transaction_id + 1) % XidMod

ClientInit == /\ running = FALSE
              /\ dhcp_seconds = 0
              /\ discover_sent = FALSE
              /\ transaction_id = 0
              /\ lease_time = 0
              /\ server_identifier = NoServer
              /\ my_ip = NoAddr
              /\ bcen = FALSE

Init == /\ ClientInit
        /\ link \in BOOLEAN
        /\ net = {}
        /\ lease \in [Servers -> Leases]
        /\ granted = {}
        /\ leaseLeft = [s \in Servers |-> 0]
        /\ due = TRUE
        /\ budget = [losses |-> Losses, dups |-> Dups, reboots |-> Reboots, flaps |-> Flaps]

-----------------------------------------------------------------------------
(* dhcp_request_ip, polled until it returns 1.                             *)

DiscoverDue == dhcp_seconds >= StartDelay /\ ~discover_sent

ResendDue_NeverReached == /\ dhcp_seconds > SecMod
                          /\ discover_sent /\ my_ip = NoAddr

ResendDue == /\ dhcp_seconds >= StartDelay
             /\ discover_sent
             /\ my_ip = NoAddr
             /\ dhcp_seconds > ResendAfter

SendDiscover ==
    /\ ~running /\ link /\ DiscoverDue
    /\ discover_sent' = TRUE
    /\ dhcp_seconds' = StartDelay
    /\ transaction_id' = Xid0
    /\ bcen' = TRUE
    /\ net' = net \cup send_discover(Xid0)
    /\ due' = FALSE
    /\ UNCHANGED <<running, lease_time, server_identifier, my_ip, link, server, budget>>

ResendDiscover ==
    /\ ~running /\ link /\ ResendDue
    /\ Cardinality(net) < MaxNet
    /\ dhcp_seconds' = StartDelay
    /\ transaction_id' = NextXid
    /\ bcen' = TRUE
    /\ net' = net \cup send_discover(NextXid)
    /\ due' = FALSE
    /\ UNCHANGED <<running, discover_sent, lease_time, server_identifier, my_ip,
                   link, server, budget>>

\* No packet and nothing to send.
AcquireIdle ==
    /\ ~running
    /\ ~link \/ ~(DiscoverDue \/ ResendDue)
    /\ due
    /\ due' = FALSE
    /\ UNCHANGED <<client, link, net, server, budget>>

\* is_packet_for_me, for a reply of a server.
ForMe(m) == m.to = Client /\ m.xid = transaction_id

\* The conversion of parse_options from seconds to units of lease_time.
LeaseTime(secs) ==
    LET units == secs \div LeaseUnit
    IN  CASE secs = Forever                          -> LeaseInf
          [] secs # Forever /\ units > LeaseCap      -> LeaseCap
          [] secs # Forever /\ units < MinLease      -> MinLease
          [] OTHER                                   -> units

\* What the client takes from a message: the address, and the options.
parse_ip_address(m) == my_ip' = m.ip

parse_options(m) == lease_time' = LeaseTime(m.secs) /\ server_identifier' = m.sid

AcquireOffer_KeepsAddress(m) ==
    /\ ~running /\ link
    /\ ForMe(m) /\ Accepted(m) /\ ~m.renew /\ m.type = "OFFER"
    /\ discover_sent' = TRUE
    /\ my_ip' = IF my_ip = NoAddr THEN m.ip ELSE my_ip
    /\ parse_options(m)
    /\ \E rest \in Left(m) :
          /\ Receive(m, rest)
          /\ net' = rest \cup send_request(my_ip', m.sid)
    /\ UNCHANGED <<running, dhcp_seconds, transaction_id, bcen, link, server, due>>

\* An offer, the first as well as any later one, is taken and requested.
AcquireOffer(m) ==
    /\ ~running /\ link
    /\ ForMe(m) /\ Accepted(m) /\ ~m.renew /\ m.type = "OFFER"
    /\ discover_sent' = TRUE
    /\ parse_ip_address(m)
    /\ parse_options(m)
    /\ \E rest \in Left(m) :
          /\ Receive(m, rest)
          /\ net' = rest \cup send_request(m.ip, m.sid)
    /\ UNCHANGED <<running, dhcp_seconds, transaction_id, bcen, link, server, due>>

AcquireAck_AnyType(m) ==
    /\ ~running /\ link
    /\ ForMe(m) /\ Accepted(m) /\ ~m.renew /\ m.type \in {"OFFER", "ACK"}
    /\ running' = TRUE
    /\ discover_sent' = TRUE
    /\ bcen' = FALSE
    /\ \E rest \in Left(m) : Receive(m, rest) /\ net' = rest
    /\ UNCHANGED <<dhcp_seconds, transaction_id, lease_time, server_identifier, my_ip,
                   link, server, due>>

AcquireAck_KeepsFilter(m) ==
    /\ ~running /\ link
    /\ ForMe(m) /\ Accepted(m) /\ ~m.renew /\ m.type = "ACK"
    /\ running' = TRUE
    /\ discover_sent' = TRUE
    /\ bcen' = bcen
    /\ \E rest \in Left(m) : Receive(m, rest) /\ net' = rest
    /\ UNCHANGED <<dhcp_seconds, transaction_id, lease_time, server_identifier, my_ip,
                   link, server, due>>

\* An acknowledgement ends the acquisition; its address is not looked at.
AcquireAck(m) ==
    /\ ~running /\ link
    /\ ForMe(m) /\ Accepted(m) /\ ~m.renew /\ m.type = "ACK"
    /\ running' = TRUE
    /\ discover_sent' = TRUE
    /\ bcen' = FALSE
    /\ \E rest \in Left(m) : Receive(m, rest) /\ net' = rest
    /\ UNCHANGED <<dhcp_seconds, transaction_id, lease_time, server_identifier, my_ip,
                   link, server, due>>

\* Any other packet is consumed; with the link reported down, every packet is.
AcquireOther(m) ==
    /\ ~running
    /\ m.to = Client /\ Accepted(m)
    /\ ~link \/ ~ForMe(m) \/ m.renew \/ m.type \notin {"OFFER", "ACK"}
    /\ \E rest \in Left(m) : Receive(m, rest) /\ net' = rest
    /\ UNCHANGED <<client, link, server, due>>

-----------------------------------------------------------------------------
(* dhcp_renew, polled from network_backbone.  Every call begins with the   *)
(* countdown of the lease, once a "minute".                                *)

Minute_Late == dhcp_seconds > MinuteAfter + 10

Minute == dhcp_seconds > MinuteAfter

Countdown == dhcp_seconds' = IF Minute THEN 0 ELSE dhcp_seconds

LeaseNow == IF Minute /\ lease_time < LeaseInf /\ lease_time > 1
            THEN lease_time - 1
            ELSE lease_time

RenewDue == LeaseNow < RenewBelow

\* No packet, and the lease is about to end: ask, and ask again later if no
\* answer comes.
SendRenew ==
    /\ running /\ link /\ RenewDue
    /\ Cardinality(net) < MaxNet
    /\ Countdown
    /\ transaction_id' = NextXid
    /\ lease_time' = RetryLease
    /\ net' = net \cup send_renew(NextXid)
    /\ due' = FALSE
    /\ UNCHANGED <<running, discover_sent, server_identifier, my_ip, bcen,
                   link, server, budget>>

\* No packet and nothing to send, or no link to send it on.
RenewIdle ==
    /\ running
    /\ ~link \/ ~RenewDue
    /\ due \/ Minute
    /\ Countdown
    /\ lease_time' = LeaseNow
    /\ due' = FALSE
    /\ UNCHANGED <<running, discover_sent, transaction_id, server_identifier, my_ip, bcen,
                   link, net, server, budget>>

\* A packet that is not DHCP: nothing is sent while one is in the buffer.
RenewTraffic ==
    /\ running
    /\ Minute
    /\ Countdown
    /\ lease_time' = LeaseNow
    /\ UNCHANGED <<running, discover_sent, transaction_id, server_identifier, my_ip, bcen,
                   link, net, server, due, budget>>

RenewAck_Forgets(m) ==
    /\ running
    /\ ForMe(m) /\ Accepted(m) /\ m.renew /\ m.type = "ACK"
    /\ Countdown
    /\ lease_time' = LeaseNow
    /\ \E rest \in Left(m) : Receive(m, rest) /\ net' = rest
    /\ UNCHANGED <<running, discover_sent, transaction_id, server_identifier, my_ip, bcen,
                   link, server, due>>

\* The acknowledgement of a renewal brings a new lease.
RenewAck(m) ==
    /\ running
    /\ ForMe(m) /\ Accepted(m) /\ m.renew /\ m.type = "ACK"
    /\ Countdown
    /\ parse_options(m)
    /\ \E rest \in Left(m) : Receive(m, rest) /\ net' = rest
    /\ UNCHANGED <<running, discover_sent, transaction_id, my_ip, bcen, link, server, due>>

RenewOther(m) ==
    /\ running
    /\ m.to = Client /\ Accepted(m)
    /\ ~ForMe(m) \/ ~m.renew \/ m.type # "ACK"
    /\ Countdown
    /\ lease_time' = LeaseNow
    /\ \E rest \in Left(m) : Receive(m, rest) /\ net' = rest
    /\ UNCHANGED <<running, discover_sent, transaction_id, server_identifier, my_ip, bcen,
                   link, server, due>>

-----------------------------------------------------------------------------
(* The interrupt and a power cycle.                                        *)

Tick ==
    /\ Prompt => ~due /\ net = {}
    /\ dhcp_seconds' = (dhcp_seconds + 1) % SecMod
    /\ leaseLeft' = [s \in Servers |-> IF leaseLeft[s] \in {0, Forever}
                                       THEN leaseLeft[s] ELSE leaseLeft[s] - 1]
    /\ due' = TRUE
    /\ UNCHANGED <<running, discover_sent, transaction_id, lease_time, server_identifier,
                   my_ip, bcen, link, net, lease, granted, budget>>

\* Everything the client knows is in RAM; messages in flight stay there.
PowerCycle ==
    /\ budget.reboots > 0
    /\ budget' = [budget EXCEPT !.reboots = @ - 1]
    /\ running' = FALSE /\ dhcp_seconds' = 0 /\ discover_sent' = FALSE
    /\ transaction_id' = 0 /\ lease_time' = 0 /\ server_identifier' = NoServer
    /\ my_ip' = NoAddr /\ bcen' = FALSE
    /\ due' = TRUE
    /\ UNCHANGED <<link, net, server>>

-----------------------------------------------------------------------------
(* The servers (external).                                                 *)

ServerOffer(m) ==
    /\ m \in net /\ m.to \in Servers /\ m.type = "DISCOVER"
    /\ net' = (net \ {m}) \cup {Reply(m, "OFFER")}
    /\ UNCHANGED <<client, link, server, due, budget>>

\* The request of an offered address names the server, a renewal does not.
ForServer(m) ==
    IF m.renew THEN m.to \in granted /\ leaseLeft[m.to] > 0 ELSE m.sid = m.to

ServerAck(m) ==
    /\ m \in net /\ m.to \in Servers /\ m.type = "REQUEST"
    /\ ForServer(m) /\ m.ip = Pool[m.to]
    /\ net' = (net \ {m}) \cup {Reply(m, "ACK")}
    /\ granted' = granted \cup {m.to}
    /\ leaseLeft' = [leaseLeft EXCEPT ![m.to] = lease[m.to]]
    /\ UNCHANGED <<client, link, lease, due, budget>>

ServerNak(m) ==
    /\ Naks
    /\ m \in net /\ m.to \in Servers /\ m.type = "REQUEST"
    /\ ForServer(m)
    /\ net' = (net \ {m}) \cup {Reply(m, "NAK")}
    /\ UNCHANGED <<client, link, server, due, budget>>

\* A request for another server, or for an address it does not hold for us.
ServerIgnore(m) ==
    /\ m \in net /\ m.to \in Servers /\ m.type = "REQUEST"
    /\ ~ForServer(m) \/ m.ip # Pool[m.to]
    /\ net' = net \ {m}
    /\ UNCHANGED <<client, link, server, due, budget>>

-----------------------------------------------------------------------------
(* The network (external).                                                 *)

Lose(m) ==
    /\ m \in net /\ <<m.type, m.renew>> \in LossKinds
    /\ budget.losses > 0
    /\ budget' = [budget EXCEPT !.losses = @ - 1]
    /\ net' = net \ {m}
    /\ UNCHANGED <<client, link, server, due>>

\* A broadcast reply while the chip does not accept broadcast frames.
Filtered(m) ==
    /\ m \in net /\ m.to = Client /\ ~Accepted(m)
    /\ net' = net \ {m}
    /\ UNCHANGED <<client, link, server, due, budget>>

LinkUp == /\ ~link
          /\ link' = TRUE
          /\ UNCHANGED <<client, net, server, due, budget>>

LinkDown == /\ link
            /\ budget.flaps > 0
            /\ budget' = [budget EXCEPT !.flaps = @ - 1]
            /\ link' = FALSE
            /\ UNCHANGED <<client, net, server, due>>

-----------------------------------------------------------------------------

\* A poll that finds a packet, one that finds none.
PollPacket(m) == AcquireOffer(m) \/ AcquireAck(m) \/ AcquireOther(m)
                 \/ RenewAck(m) \/ RenewOther(m)

PollEmpty == SendDiscover \/ ResendDiscover \/ AcquireIdle \/ SendRenew \/ RenewIdle

Serve(m) == ServerOffer(m) \/ ServerAck(m) \/ ServerNak(m) \/ ServerIgnore(m)

Next == \/ PollEmpty
        \/ RenewTraffic
        \/ Tick
        \/ PowerCycle
        \/ LinkUp \/ LinkDown
        \/ \E m \in net : PollPacket(m) \/ Serve(m) \/ Lose(m) \/ Filtered(m)

Spec == Init /\ [][Next]_vars

\* The main loop keeps polling and time passes (both in the code); the link
\* comes up and what is in flight and not lost is eventually delivered and
\* answered (the environment).
FairSpec == /\ Spec
            /\ WF_vars(PollEmpty)
            /\ WF_vars(Tick)
            /\ WF_vars(LinkUp)
            /\ WF_vars(\E m \in net : PollPacket(m) \/ Serve(m) \/ Filtered(m))

-----------------------------------------------------------------------------

Messages == [to : Servers \cup {Client},
             type : {"DISCOVER", "OFFER", "REQUEST", "ACK", "NAK"},
             xid : 0 .. XidMod - 1,
             renew : BOOLEAN,
             ip : Addr \cup {NoAddr},
             sid : Servers \cup {NoServer},
             secs : Leases \cup {0}]

Budgets == [losses : Nat, dups : Nat, reboots : Nat, flaps : Nat]

\* Every variable stays in its type.
TypeOK == /\ running \in BOOLEAN
          /\ dhcp_seconds \in 0 .. SecMod - 1
          /\ discover_sent \in BOOLEAN
          /\ transaction_id \in 0 .. XidMod - 1
          /\ lease_time \in 0 .. LeaseCap \cup {LeaseInf}
          /\ server_identifier \in Servers \cup {NoServer}
          /\ my_ip \in Addr \cup {NoAddr}
          /\ bcen \in BOOLEAN
          /\ link \in BOOLEAN
          /\ net \subseteq Messages
          /\ lease \in [Servers -> Leases]
          /\ granted \subseteq Servers
          /\ leaseLeft \in [Servers -> Nat]
          /\ due \in BOOLEAN
          /\ budget \in Budgets

\* my_ip and server_identifier always come from the same server, however
\* offers of several servers, duplicates and renewals interleave: a request
\* never asks one server for another's address (dhcp.c:139-143,418,529,591).
OfferConsistent ==
    my_ip # NoAddr => server_identifier # NoServer /\ my_ip = Pool[server_identifier]

\* dhcp_request_ip returns 1 on a valid IP only (dhcp.h:73).
AddressOnBound == running => my_ip # NoAddr

\* The address in use after the acknowledgement is one that the server has
\* acknowledged (dhcp.c:151-152 "Success! We got the IP address").
AddressLeased == running => \E s \in granted : my_ip = Pool[s]

\* The filter lets replies in exactly while they are awaited: broadcast frames
\* are accepted from the first discover on and no longer once the address is
\* acquired (dhcp.c:98,111,155).
FilterFollowsPhase == bcen <=> discover_sent /\ ~running

\* The lease of the address in use is renewed before it ends (dhcp.c:548-549
\* "better to ask a bit too early than too late").
LeaseHeld == running => leaseLeft[server_identifier] > 0

\* The client acquires an address and then stays in the main loop
\* (config.h:186-188 "to resend messages when a reply did not come in time").
AddressEventually == <>[](running /\ my_ip # NoAddr)

Bound(s) == running /\ server_identifier = s
Ending(s) == Bound(s) /\ leaseLeft[s] < lease[s]
Renewed(s) == Bound(s) /\ leaseLeft[s] = lease[s] /\ lease_time = LeaseTime(lease[s])

\* A lease that has begun to run down is renewed, also when a renewal or its
\* answer is lost and has to be repeated: the server holds it for its full
\* length again, and the client counts down from that length, not from the
\* short one it put in while it waited for the answer (dhcp.c:557-597).
LeaseRenewed == \A s \in Servers : Ending(s) ~> Renewed(s)
=============================================================================
