-------------------------------- MODULE Arp --------------------------------
(***************************************************************************)
(* Address resolution (net/arp.c).  arp_request_mac waits for an answer by *)
(* running the network loop, so that a packet that arrives meanwhile may   *)
(* start a service which asks for another address: requests nest, and they *)
(* share the flag that says an answer has come.  The other hosts and the   *)
(* network are external; they answer, move to another hardware address,    *)
(* announce themselves, lose and duplicate.                                *)
(***************************************************************************)
EXTENDS Integers, SequencesExt

CONSTANTS
    Ip, NoIp,       \* addresses of the hosts; NoIp is 0.0.0.0
    Mac, NoMac,     \* hardware addresses; NoMac is the cleared one
    Start,          \* the hardware address each host has at first
    Null,           \* the null pointer
    Size            \* NET_ARP_CACHE_SIZE

CONSTANTS           \* bounds of the environment
    MaxDepth,       \* requests in progress at once
    MaxRequests,    \* requests sent in all
    Losses, Dups,   \* packets lost, packets delivered once more
    Moves,          \* hosts that change their hardware address
    Announcements   \* replies nobody has asked for

ASSUME IpAssumption == NoIp \notin Ip /\ NoMac \notin Mac /\ Null \notin Mac \cup {NoMac}
ASSUME StartAssumption == Start \in [Ip -> Mac]
ASSUME SizeAssumption == Size \in 1 .. 255
ASSUME BoundAssumption ==
    {MaxDepth, MaxRequests, Losses, Dups, Moves, Announcements} \subseteq Nat

VARIABLES
    cache,
    cache_index,
    waiting,
    requests,   \* the calls of arp_request_mac in progress, the innermost last
    in_service, \* a service has control again after a request of its own
    net,        \* requests and replies in flight
    owner,      \* the hardware address each host has now
    answer,     \* history: what arp_request_mac returned last
    claimed,    \* history: the replies the hosts have sent
    budget      \* what may still happen

vars == <<cache, cache_index, waiting, requests, in_service, net, owner, answer, claimed, budget>>

Slots == 0 .. Size - 1
Host == [ip : Ip, mac : Mac]
Empty == [ip |-> NoIp, mac |-> NoMac]

Request(ip) == [type |-> "request", ip |-> ip]
Reply(h) == [type |-> "reply", ip |-> h.ip, mac |-> h.mac]

Init == /\ cache = [i \in Slots |-> Empty]
        /\ cache_index = 0
        /\ waiting = FALSE
        /\ requests = << >>
        /\ in_service = FALSE
        /\ net = {}
        /\ owner = Start
        /\ answer = Null
        /\ claimed = {}
        /\ budget = [requests |-> MaxRequests, losses |-> Losses, dups |-> Dups,
                     moves |-> Moves, announcements |-> Announcements]

-----------------------------------------------------------------------------

\* The entry of an address, the first as arp_search_mac finds it.
Cached(ip) == \E i \in Slots : cache[i].ip = ip
Index(ip) == CHOOSE i \in Slots : /\ cache[i].ip = ip
                                  /\ \A j \in Slots : j < i => cache[j].ip # ip
arp_search_mac(ip) == IF Cached(ip) THEN cache[Index(ip)].mac ELSE Null

Answer(ip) == [ip |-> ip, mac |-> arp_search_mac(ip)]

\* Code that may call arp_request_mac: the application, between two rounds of
\* the network loop, or a service that the loop of a waiting request has run
\* or runs, which may call again after its first request has returned.
MayCall == /\ Len(requests) < MaxDepth
           /\ requests = << >> \/ waiting \/ in_service

\* arp_request_mac finds the address in the cache.
RequestKnown(ip) ==
    /\ MayCall
    /\ Cached(ip)
    /\ answer' = Answer(ip)
    /\ UNCHANGED <<cache, cache_index, waiting, requests, in_service,
                   net, owner, claimed, budget>>

\* ... or asks for it and waits.
RequestUnknown(ip) ==
    /\ MayCall
    /\ ~Cached(ip)
    /\ budget.requests > 0
    /\ budget' = [budget EXCEPT !.requests = @ - 1]
    /\ net' = net \cup {Request(ip)}
    /\ waiting' = TRUE
    /\ requests' = Append(requests, ip)
    /\ in_service' = FALSE
    /\ UNCHANGED <<cache, cache_index, owner, answer, claimed>>

RequestReturns_Blind ==
    /\ requests # << >>
    /\ ~waiting
    /\ answer' = [ip |-> Last(requests), mac |-> cache[(cache_index + Size - 1) % Size].mac]
    /\ requests' = Front(requests)
    /\ in_service' = (Front(requests) # << >>)
    /\ UNCHANGED <<cache, cache_index, waiting, net, owner, claimed, budget>>

\* The innermost request sees the flag reset and looks into the cache.  Then
\* the application has control, or the service that made the request.
RequestReturns ==
    /\ requests # << >>
    /\ ~waiting
    /\ answer' = Answer(Last(requests))
    /\ requests' = Front(requests)
    /\ in_service' = (Front(requests) # << >>)
    /\ UNCHANGED <<cache, cache_index, waiting, net, owner, claimed, budget>>

save_to_cache_NoWrap(h) ==
    IF Cached(h.ip)
    THEN UNCHANGED <<cache, cache_index>>
    ELSE /\ cache' = [cache EXCEPT ![cache_index] = h]
         /\ cache_index' = cache_index + 1

save_to_cache_NoSearch(h) ==
    /\ cache' = [cache EXCEPT ![cache_index] = h]
    /\ cache_index' = (cache_index + 1) % Size

\* A host whose address is not in the cache takes the next slot.
save_to_cache(h) ==
    IF Cached(h.ip)
    THEN UNCHANGED <<cache, cache_index>>
    ELSE /\ cache' = [cache EXCEPT ![cache_index] = h]
         /\ cache_index' = (cache_index + 1) % Size

\* A packet is taken from the network, perhaps not for the last time.
Take(m) == /\ m \in net
           /\ \/ net' = net \ {m} /\ UNCHANGED budget
              \/ /\ budget.dups > 0
                 /\ budget' = [budget EXCEPT !.dups = @ - 1]
                 /\ UNCHANGED net

\* The network loop runs in the application, or in a request that waits.
Polling == requests = << >> \/ waiting

arp_receive_Silent(m) ==
    /\ Polling
    /\ m.type = "reply"
    /\ Take(m)
    /\ save_to_cache([ip |-> m.ip, mac |-> m.mac])
    /\ UNCHANGED <<waiting, requests, in_service, owner, answer, claimed>>

\* arp_receive with a reply: any reply ends the waiting.  (A request for the
\* address of the device is answered and changes nothing here.)
arp_receive(m) ==
    /\ Polling
    /\ m.type = "reply"
    /\ Take(m)
    /\ save_to_cache([ip |-> m.ip, mac |-> m.mac])
    /\ waiting' = FALSE
    /\ UNCHANGED <<requests, in_service, owner, answer, claimed>>

-----------------------------------------------------------------------------
(* The other hosts and the network (external).                             *)

client == <<cache, cache_index, waiting, requests, in_service, answer>>

Owner(ip) == [ip |-> ip, mac |-> owner[ip]]

HostReplies(m) ==
    /\ m \in net /\ m.type = "request"
    /\ net' = (net \ {m}) \cup {Reply(Owner(m.ip))}
    /\ claimed' = claimed \cup {Owner(m.ip)}
    /\ UNCHANGED <<client, owner, budget>>

HostAnnounces(ip) ==
    /\ budget.announcements > 0
    /\ budget' = [budget EXCEPT !.announcements = @ - 1]
    /\ net' = net \cup {Reply(Owner(ip))}
    /\ claimed' = claimed \cup {Owner(ip)}
    /\ UNCHANGED <<client, owner>>

HostMoves(ip) ==
    /\ budget.moves > 0
    /\ budget' = [budget EXCEPT !.moves = @ - 1]
    /\ \E mac \in Mac \ {owner[a] : a \in Ip} : owner' = [owner EXCEPT ![ip] = mac]
    /\ UNCHANGED <<client, net, claimed>>

Lose(m) ==
    /\ m \in net
    /\ budget.losses > 0
    /\ budget' = [budget EXCEPT !.losses = @ - 1]
    /\ net' = net \ {m}
    /\ UNCHANGED <<client, owner, claimed>>

-----------------------------------------------------------------------------

Next == \/ \E ip \in Ip : RequestKnown(ip) \/ RequestUnknown(ip)
        \/ RequestReturns
        \/ \E m \in net : arp_receive(m) \/ HostReplies(m) \/ Lose(m)
        \/ \E ip \in Ip : HostAnnounces(ip) \/ HostMoves(ip)

Spec == Init /\ [][Next]_vars

\* The loop keeps polling and a request whose flag is reset returns (the
\* code); hosts answer and packets arrive (the environment).
FairSpec == /\ Spec
            /\ WF_vars(RequestReturns)
            /\ WF_vars(\E m \in net : arp_receive(m) \/ HostReplies(m))

-----------------------------------------------------------------------------

\* Every variable stays in its type.
TypeOK == /\ cache \in [Slots -> Host \cup {Empty}]
          /\ cache_index \in Slots
          /\ waiting \in BOOLEAN
          /\ requests \in Seq(Ip)
          /\ in_service \in BOOLEAN
          /\ net \subseteq {Request(ip) : ip \in Ip} \cup {Reply(h) : h \in Host}
          /\ owner \in [Ip -> Mac]
          /\ answer \in [ip : Ip, mac : Mac \cup {Null}] \cup {Null}
          /\ claimed \subseteq Host
          /\ budget \in [requests : Nat, losses : Nat, dups : Nat,
                         moves : Nat, announcements : Nat]

\* A hardware address that arp_request_mac returns was claimed by the host
\* that was asked for, also when requests nest and replies of other hosts end
\* the wait (arp.c:119,167-173).
AnswerClaimed == answer # Null /\ answer.mac # Null => answer \in claimed

\* The cache is a table of the hosts learned last, and holds no combination of
\* an address and a hardware address twice (arp.c:259-283).
Full == cache[cache_index].ip # NoIp

Known == IF Full
         THEN [i \in 1 .. Size |-> cache[(cache_index + i - 1) % Size]]
         ELSE [i \in 1 .. cache_index |-> cache[i - 1]]

Table == INSTANCE HostTable WITH known <- Known, Capacity <- Size

ImplementsTable == Table!Spec

\* After a reply the cache holds the combination that the reply tells: it is
\* looked for, and written if it does not exist (arp.c:266-267).
CombinationCached ==
    [][\A m \in net : arp_receive(m) =>
          \E i \in Slots : cache'[i] = [ip |-> m.ip, mac |-> m.mac]]_vars

\* A request that returns has an answer (the comment at arp.c:172).
AnswerExists == answer # Null => answer.mac # Null

\* Unless a packet is lost, every request ends, nested ones included
\* (arp.c:119,165-170).
Lost == budget.losses < Losses
RequestsEnd == requests # << >> ~> requests = << >> \/ Lost
=============================================================================
