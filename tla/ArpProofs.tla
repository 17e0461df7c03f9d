----------------------------- MODULE ArpProofs -----------------------------
(***************************************************************************)
(* Proofs about Arp, for any cache size, number of hosts and requests in   *)
(* progress, and any losses, duplicates and moves.                         *)
(***************************************************************************)
EXTENDS Arp, SequenceTheorems, WellFoundedInduction, TLAPS

\* What the cache holds and what replies in flight say was claimed by a host.
CacheClaimed == \A i \in Slots : cache[i].ip # NoIp => cache[i] \in claimed

RepliesClaimed ==
    \A m \in net : m.type = "reply" => [ip |-> m.ip, mac |-> m.mac] \in claimed

IInv == TypeOK /\ CacheClaimed /\ RepliesClaimed /\ AnswerClaimed

\* A non-empty set of natural numbers has a least element: what a loop over the
\* slots stops at.
LEMMA Least ==
    ASSUME NEW S, S \subseteq Nat, S # {}
    PROVE  \E i \in S : \A j \in S : ~ (j < i)
<1> DEFINE R == {r \in Nat \X Nat : r[1] < r[2]}
<1>1. IsWellFoundedOn(R, Nat)
  BY NatLessThanWellFounded, Zenon DEF OpToRel
<1>2. \A i, j \in Nat : j < i => <<j, i>> \in R
  OBVIOUS
<1>3. PICK i \in S : \A j \in S : ~ (<<j, i>> \in R)
  <2> HIDE DEF R
  <2> QED
    BY <1>1, WFMin
<1> QED
  BY <1>2, <1>3

\* The search finds the slot of a cached address.
LEMMA SlotFound ==
    ASSUME NEW ip, Cached(ip)
    PROVE  Index(ip) \in Slots /\ cache[Index(ip)].ip = ip
<1> DEFINE S == {i \in Slots : cache[i].ip = ip}
<1>1. S \subseteq Nat /\ S # {}
  BY SizeAssumption DEF Cached, Slots
<1>2. PICK i \in S : \A j \in S : ~ (j < i)
  <2> HIDE DEF S
  <2> QED
    BY <1>1, Least
<1>3. \A j \in Slots : j < i => cache[j].ip # ip
  BY <1>2
<1> QED
  BY <1>2, <1>3 DEF Index

\* What a request answers was claimed, or is the null pointer.
LEMMA AnswerSound ==
    ASSUME NEW ip \in Ip, TypeOK, CacheClaimed
    PROVE  /\ Answer(ip) \in [ip : Ip, mac : Mac \cup {Null}]
           /\ Answer(ip).mac # Null => Answer(ip) \in claimed
<1>1. CASE Cached(ip)
  <2> DEFINE i == Index(ip)
  <2>1. i \in Slots /\ cache[i].ip = ip
    BY <1>1, SlotFound
  <2>2. cache[i] \in Host /\ cache[i] \in claimed
    BY <2>1, IpAssumption DEF TypeOK, CacheClaimed, Empty
  <2>3. Answer(ip) = cache[i]
    BY <1>1, <2>1, <2>2 DEF Answer, arp_search_mac, Host
  <2> QED
    BY <2>2, <2>3 DEF Host
<1>2. CASE ~Cached(ip)
  BY <1>2 DEF Answer, arp_search_mac
<1> QED
  BY <1>1, <1>2

\* save_to_cache with a claimed host keeps the cache claimed and in its type.
LEMMA SaveSound ==
    ASSUME NEW h \in claimed, TypeOK, CacheClaimed, save_to_cache(h), claimed' = claimed
    PROVE  /\ cache' \in [Slots -> Host \cup {Empty}] /\ cache_index' \in Slots
           /\ CacheClaimed'
<1>1. h \in Host
  BY DEF TypeOK
<1>2. CASE Cached(h.ip)
  BY <1>2 DEF save_to_cache, TypeOK, CacheClaimed
<1>3. CASE ~Cached(h.ip)
  <2>1. /\ cache' = [cache EXCEPT ![cache_index] = h]
        /\ cache_index' = (cache_index + 1) % Size
    BY <1>3 DEF save_to_cache
  <2>2. cache_index' \in Slots
    <3>1. cache_index \in 0 .. Size - 1 /\ Size \in Nat \ {0}
      BY SizeAssumption DEF TypeOK, Slots
    <3>2. (cache_index + 1) % Size \in 0 .. Size - 1
      BY <3>1
    <3> QED
      BY <2>1, <3>2 DEF Slots
  <2>3. \A i \in Slots : cache'[i] = IF i = cache_index THEN h ELSE cache[i]
    BY <2>1 DEF TypeOK
  <2>4. CacheClaimed'
    BY <2>3 DEF CacheClaimed
  <2> QED
    BY <1>1, <2>1, <2>2, <2>4 DEF TypeOK
<1> QED
  BY <1>2, <1>3

Budgets == [requests : Nat, losses : Nat, dups : Nat, moves : Nat, announcements : Nat]

Messages == {Request(ip) : ip \in Ip} \cup {Reply(h) : h \in Host}

\* What the environment spends of its budget leaves a budget.
LEMMA BudgetSpent ==
    ASSUME budget \in Budgets
    PROVE  /\ budget.requests > 0 => [budget EXCEPT !.requests = @ - 1] \in Budgets
           /\ budget.losses > 0 => [budget EXCEPT !.losses = @ - 1] \in Budgets
           /\ budget.dups > 0 => [budget EXCEPT !.dups = @ - 1] \in Budgets
           /\ budget.moves > 0 => [budget EXCEPT !.moves = @ - 1] \in Budgets
           /\ budget.announcements > 0 => [budget EXCEPT !.announcements = @ - 1] \in Budgets
BY DEF Budgets

\* The invariant holds at the start: nothing is cached, in flight or answered.
LEMMA InitIInv == Init => IInv
<1> SUFFICES ASSUME Init
             PROVE  IInv
  OBVIOUS
<1>1. budget \in Budgets
  BY BoundAssumption DEF Init, Budgets
<1>2. TypeOK
  <2>1. 0 \in Slots
    BY SizeAssumption DEF Slots
  <2>2. cache \in [Slots -> Host \cup {Empty}]
    BY DEF Init
  <2> QED
    BY <1>1, <2>1, <2>2, StartAssumption DEF Init, TypeOK, Budgets
<1> QED
  BY <1>2 DEF Init, IInv, CacheClaimed, RepliesClaimed, AnswerClaimed, Empty

\* Every step keeps it: only hosts claim, and what they claim stays claimed.
LEMMA StepIInv == IInv /\ [Next]_vars => IInv'
<1> SUFFICES ASSUME IInv, [Next]_vars
             PROVE  IInv'
  OBVIOUS
<1>0. /\ TypeOK /\ CacheClaimed /\ RepliesClaimed /\ AnswerClaimed
      /\ budget \in Budgets /\ net \subseteq Messages
  BY DEF IInv, TypeOK, Budgets, Messages
<1>1. ASSUME NEW ip \in Ip, RequestKnown(ip)
      PROVE  IInv'
  <2>1. /\ Answer(ip) \in [ip : Ip, mac : Mac \cup {Null}]
        /\ Answer(ip).mac # Null => Answer(ip) \in claimed
    BY <1>0, AnswerSound
  <2> QED
    BY <1>0, <1>1, <2>1
    DEF RequestKnown, IInv, TypeOK, CacheClaimed, RepliesClaimed, AnswerClaimed
<1>2. ASSUME NEW ip \in Ip, RequestUnknown(ip)
      PROVE  IInv'
  <2>1. budget' \in Budgets
    BY <1>0, <1>2, BudgetSpent DEF RequestUnknown
  <2>2. requests' \in Seq(Ip)
    BY <1>0, <1>2 DEF RequestUnknown, TypeOK
  <2>3. net' \subseteq Messages
    BY <1>0, <1>2 DEF RequestUnknown, Messages
  <2>4. RepliesClaimed'
    BY <1>0, <1>2 DEF RequestUnknown, RepliesClaimed, Request
  <2> QED
    BY <1>0, <1>2, <2>1, <2>2, <2>3, <2>4
    DEF RequestUnknown, IInv, TypeOK, Budgets, Messages, CacheClaimed, AnswerClaimed
<1>3. CASE RequestReturns
  <2>1. requests \in Seq(Ip) /\ requests # << >>
    BY <1>0, <1>3 DEF RequestReturns, TypeOK
  <2>2. Last(requests) \in Ip /\ Front(requests) \in Seq(Ip)
    BY <2>1 DEF Last, Front
  <2>3. /\ answer' \in [ip : Ip, mac : Mac \cup {Null}]
        /\ answer'.mac # Null => answer' \in claimed
    BY <1>0, <1>3, <2>2, AnswerSound DEF RequestReturns
  <2> QED
    BY <1>0, <1>3, <2>2, <2>3
    DEF RequestReturns, IInv, TypeOK, CacheClaimed, RepliesClaimed, AnswerClaimed
<1>4. ASSUME NEW m \in net, arp_receive(m)
      PROVE  IInv'
  <2> DEFINE h == [ip |-> m.ip, mac |-> m.mac]
  <2>1. h \in claimed
    BY <1>0, <1>4 DEF arp_receive, RepliesClaimed
  <2>2. save_to_cache(h) /\ claimed' = claimed
    BY <1>4 DEF arp_receive
  <2>3. /\ cache' \in [Slots -> Host \cup {Empty}] /\ cache_index' \in Slots
        /\ CacheClaimed'
    BY <1>0, <2>1, <2>2, SaveSound
  <2>4. net' \subseteq net /\ budget' \in Budgets
    BY <1>0, <1>4, BudgetSpent DEF arp_receive, Take
  <2> QED
    BY <1>0, <1>4, <2>3, <2>4
    DEF arp_receive, IInv, TypeOK, Budgets, Messages, RepliesClaimed, AnswerClaimed
<1>5. ASSUME NEW ip \in Ip, net' \subseteq net \cup {Reply(Owner(ip))},
             claimed' = claimed \cup {Owner(ip)}, budget' \in Budgets,
             UNCHANGED <<client, owner>>
      PROVE  IInv'
  <2>1. Owner(ip) \in Host
    BY <1>0 DEF TypeOK, Owner, Host
  <2>2. net' \subseteq Messages /\ claimed' \subseteq Host
    BY <1>0, <1>5, <2>1 DEF Messages, TypeOK
  <2>3. RepliesClaimed'
    BY <1>0, <1>5 DEF RepliesClaimed, Reply, Owner
  <2> QED
    BY <1>0, <1>5, <2>2, <2>3
    DEF client, IInv, TypeOK, Budgets, Messages, CacheClaimed, AnswerClaimed
<1>6. ASSUME NEW m \in net, HostReplies(m)
      PROVE  IInv'
  <2>1. m.ip \in Ip
    BY <1>0, <1>6 DEF HostReplies, Messages, Request, Reply, Host
  <2> QED
    BY <1>0, <1>5, <1>6, <2>1 DEF HostReplies
<1>7. ASSUME NEW ip \in Ip, HostAnnounces(ip)
      PROVE  IInv'
  <2>1. budget' \in Budgets
    BY <1>0, <1>7, BudgetSpent DEF HostAnnounces
  <2> QED
    BY <1>5, <1>7, <2>1 DEF HostAnnounces
<1>8. ASSUME NEW ip \in Ip, HostMoves(ip)
      PROVE  IInv'
  <2>1. budget' \in Budgets
    BY <1>0, <1>8, BudgetSpent DEF HostMoves
  <2>2. owner' \in [Ip -> Mac]
    BY <1>0, <1>8 DEF HostMoves, TypeOK
  <2> QED
    BY <1>0, <1>8, <2>1, <2>2
    DEF HostMoves, client, IInv, TypeOK, Budgets, CacheClaimed, RepliesClaimed, AnswerClaimed
<1>9. ASSUME NEW m \in net, Lose(m)
      PROVE  IInv'
  <2>1. budget' \in Budgets
    BY <1>0, <1>9, BudgetSpent DEF Lose
  <2> QED
    BY <1>0, <1>9, <2>1
    DEF Lose, client, IInv, TypeOK, Budgets, CacheClaimed, RepliesClaimed, AnswerClaimed
<1>10. CASE UNCHANGED vars
  BY <1>0, <1>10 DEF vars, IInv, TypeOK, CacheClaimed, RepliesClaimed, AnswerClaimed
<1> QED
  BY <1>1, <1>2, <1>3, <1>4, <1>6, <1>7, <1>8, <1>9, <1>10 DEF Next

\* The variables of the resolver, of the hosts and of the network stay in their
\* types; in particular cache_index stays in the cache (arp.c:282).
THEOREM TypeCorrect == Spec => []TypeOK
<1>1. IInv => TypeOK
  BY DEF IInv
<1> QED
  BY <1>1, InitIInv, StepIInv, PTL DEF Spec

\* Whatever is lost, repeated or moved and however deep requests nest, the
\* hardware address that arp_request_mac returns was claimed by the host that
\* was asked for (arp.c:119,167-173).
THEOREM AnswersClaimed == Spec => []AnswerClaimed
<1>1. IInv => AnswerClaimed
  BY DEF IInv
<1> QED
  BY <1>1, InitIInv, StepIInv, PTL DEF Spec

-----------------------------------------------------------------------------
(* The cache is a table of the hosts learned last.                         *)

\* The slots before cache_index are filled, and the others all or none.
Filled == IF Full THEN \A i \in Slots : cache[i].ip # NoIp
                  ELSE \A i \in Slots : cache[i].ip # NoIp <=> i < cache_index

\* "% NET_ARP_CACHE_SIZE" of a number of less than two rounds.
LEMMA Wrap ==
    \A a \in 0 .. 2 * Size - 1 : a % Size = IF a < Size THEN a ELSE a - Size
<1> SUFFICES ASSUME NEW a \in 0 .. 2 * Size - 1
             PROVE  a % Size = IF a < Size THEN a ELSE a - Size
  OBVIOUS
<1>1. Size \in Nat /\ Size > 0
  BY SizeAssumption
<1> QED
  BY <1>1

\* The next slot.
LEMMA NextSlot ==
    ASSUME NEW i \in Slots
    PROVE  (i + 1) % Size = (IF i + 1 = Size THEN 0 ELSE i + 1) /\ (i + 1) % Size \in Slots
<1>1. i + 1 \in 0 .. 2 * Size - 1 /\ i \in 0 .. Size - 1 /\ Size \in Nat /\ Size > 0
  BY SizeAssumption DEF Slots
<1>2. (i + 1) % Size = IF i + 1 < Size THEN i + 1 ELSE i + 1 - Size
  BY <1>1, Wrap
<1> QED
  BY <1>1, <1>2 DEF Slots

\* What the table holds, place by place.
LEMMA KnownIs ==
    ASSUME TypeOK, Filled
    PROVE  /\ Known \in Seq(Host)
           /\ Len(Known) = IF Full THEN Size ELSE cache_index
           /\ Full => \A i \in 1 .. Size :
                  Known[i] = cache[IF cache_index + i - 1 < Size THEN cache_index + i - 1
                                                                 ELSE cache_index + i - 1 - Size]
           /\ ~Full => \A i \in 1 .. cache_index : Known[i] = cache[i - 1]
<1>1. Size \in Nat /\ Size > 0 /\ cache_index \in 0 .. Size - 1
  BY SizeAssumption DEF TypeOK, Slots
<1>2. \A i \in Slots : cache[i].ip # NoIp => cache[i] \in Host
  BY DEF TypeOK, Empty
<1>3. CASE Full
  <2>1. Known = [i \in 1 .. Size |-> cache[(cache_index + i - 1) % Size]]
    BY <1>3 DEF Known
  <2>2. ASSUME NEW i \in 1 .. Size
        PROVE  /\ (cache_index + i - 1) % Size =
                      IF cache_index + i - 1 < Size THEN cache_index + i - 1
                                                    ELSE cache_index + i - 1 - Size
               /\ (cache_index + i - 1) % Size \in Slots
    <3> DEFINE a == cache_index + i - 1
    <3>1. a \in 0 .. 2 * Size - 1
      BY <1>1
    <3> HIDE DEF a
    <3>2. a % Size = IF a < Size THEN a ELSE a - Size
      BY <3>1, Wrap
    <3>3. a % Size \in Slots
      BY <1>1, <3>1, <3>2 DEF Slots
    <3> QED
      BY <1>1, <3>1, <3>2, <3>3 DEF a
  <2>3. \A i \in Slots : cache[i] \in Host
    BY <1>2, <1>3 DEF Filled
  <2>4. Known \in Seq(Host) /\ Len(Known) = Size
    <3>1. \A i \in 1 .. Size : cache[(cache_index + i - 1) % Size] \in Host
      BY <2>2, <2>3
    <3> QED
      BY <1>1, <2>1, <3>1
  <2>5. \A i \in 1 .. Size : Known[i] = cache[(cache_index + i - 1) % Size]
    BY <2>1
  <2> QED
    BY <1>3, <2>2, <2>4, <2>5
<1>4. CASE ~Full
  <2>1. Known = [i \in 1 .. cache_index |-> cache[i - 1]]
    BY <1>4 DEF Known
  <2>2. \A i \in 1 .. cache_index : i - 1 \in Slots /\ i - 1 < cache_index
    BY <1>1 DEF Slots
  <2>3. \A i \in 1 .. cache_index : cache[i - 1] \in Host
    BY <1>2, <1>4, <2>2 DEF Filled
  <2> QED
    BY <1>1, <1>4, <2>1, <2>3
<1> QED
  BY <1>3, <1>4

\* A host whose address is not in the cache is not in the table.
LEMMA NotKnown ==
    ASSUME TypeOK, Filled, NEW h \in Host, ~Cached(h.ip)
    PROVE  ~Table!Knows(h)
<1> DEFINE ip == h.ip
<1>1. Size \in Nat /\ Size > 0 /\ cache_index \in 0 .. Size - 1
  BY SizeAssumption DEF TypeOK, Slots
<1>2. \A i \in Slots : cache[i].ip # ip
  BY DEF Cached
<1>3. ASSUME NEW i \in 1 .. Len(Known)
      PROVE  Known[i].ip # ip
  <2>1. CASE Full
    <3> DEFINE a == IF cache_index + i - 1 < Size THEN cache_index + i - 1
                                                  ELSE cache_index + i - 1 - Size
    <3>1. i \in 1 .. Size /\ Known[i] = cache[a]
      BY <2>1, KnownIs
    <3>2. a \in Slots
      BY <1>1, <3>1 DEF Slots
    <3> HIDE DEF a
    <3> QED
      BY <1>2, <3>1, <3>2
  <2>2. CASE ~Full
    <3>1. i \in 1 .. cache_index /\ Known[i] = cache[i - 1]
      BY <2>2, KnownIs
    <3>2. i - 1 \in Slots
      BY <1>1, <3>1 DEF Slots
    <3> QED
      BY <1>2, <3>1, <3>2
  <2> QED
    BY <2>1, <2>2
<1> QED
  BY <1>3 DEF Table!Knows

\* save_to_cache with a new host keeps the slots filled.
LEMMA SaveFills ==
    ASSUME TypeOK, Filled, NEW h \in Host,
           cache' = [cache EXCEPT ![cache_index] = h], cache_index' = (cache_index + 1) % Size
    PROVE  Filled' /\ (Full' <=> Full \/ cache_index + 1 = Size)
<1>1. Size \in Nat /\ Size > 0 /\ cache_index \in 0 .. Size - 1 /\ cache_index \in Slots
  BY SizeAssumption DEF TypeOK, Slots
<1>2. /\ cache_index' = (IF cache_index + 1 = Size THEN 0 ELSE cache_index + 1)
      /\ cache_index' \in Slots
  BY <1>1, NextSlot
<1>3. h.ip # NoIp
  BY IpAssumption DEF Host
<1>4. \A i \in Slots : cache'[i].ip # NoIp <=> i = cache_index \/ cache[i].ip # NoIp
  <2>1. \A i \in Slots : cache'[i] = IF i = cache_index THEN h ELSE cache[i]
    BY DEF TypeOK
  <2> QED
    BY <1>3, <2>1
<1>5. Full' <=> cache_index' = cache_index \/ cache[cache_index'].ip # NoIp
  BY <1>2, <1>4 DEF Full
<1>6. CASE Full
  <2>1. \A i \in Slots : cache[i].ip # NoIp
    BY <1>6 DEF Filled
  <2>2. Full' /\ \A i \in Slots : cache'[i].ip # NoIp
    BY <1>2, <1>4, <1>5, <2>1
  <2> QED
    BY <1>6, <2>2 DEF Filled
<1>7. CASE ~Full /\ cache_index + 1 = Size
  <2>1. \A i \in Slots : i = cache_index \/ i < cache_index
    BY <1>1, <1>7 DEF Slots
  <2>2. \A i \in Slots : cache'[i].ip # NoIp
    BY <1>4, <1>7, <2>1 DEF Filled
  <2>3. Full'
    BY <1>2, <2>2 DEF Full
  <2> QED
    BY <1>7, <2>2, <2>3 DEF Filled
<1>8. CASE ~Full /\ cache_index + 1 # Size
  <2>1. cache_index' = cache_index + 1 /\ ~ (cache_index' < cache_index) /\ cache_index' # cache_index
    BY <1>1, <1>2, <1>8
  <2>2. ~Full'
    BY <1>2, <1>5, <1>8, <2>1 DEF Filled
  <2>3. \A i \in Slots : i < cache_index + 1 <=> i = cache_index \/ i < cache_index
    BY <1>1 DEF Slots
  <2>4. \A i \in Slots : cache'[i].ip # NoIp <=> i < cache_index'
    BY <1>4, <1>8, <2>1, <2>3 DEF Filled
  <2>5. Filled'
    BY <2>2, <2>4 DEF Filled
  <2> QED
    BY <1>8, <2>2, <2>5
<1> QED
  BY <1>6, <1>7, <1>8

LEMMA KnownIsNext ==
    TypeOK' /\ Filled' =>
        /\ Known' \in Seq(Host)
        /\ Len(Known') = IF Full' THEN Size ELSE cache_index'
        /\ Full' => \A i \in 1 .. Size :
               Known'[i] = cache'[IF cache_index' + i - 1 < Size THEN cache_index' + i - 1
                                                             ELSE cache_index' + i - 1 - Size]
        /\ ~Full' => \A i \in 1 .. cache_index' : Known'[i] = cache'[i - 1]
<1>1. (TypeOK /\ Filled =>
           /\ Known \in Seq(Host)
           /\ Len(Known) = IF Full THEN Size ELSE cache_index
           /\ Full => \A i \in 1 .. Size :
                  Known[i] = cache[IF cache_index + i - 1 < Size THEN cache_index + i - 1
                                                                 ELSE cache_index + i - 1 - Size]
           /\ ~Full => \A i \in 1 .. cache_index : Known[i] = cache[i - 1])'
  <2>1. TypeOK /\ Filled =>
           /\ Known \in Seq(Host)
           /\ Len(Known) = IF Full THEN Size ELSE cache_index
           /\ Full => \A i \in 1 .. Size :
                  Known[i] = cache[IF cache_index + i - 1 < Size THEN cache_index + i - 1
                                                                 ELSE cache_index + i - 1 - Size]
           /\ ~Full => \A i \in 1 .. cache_index : Known[i] = cache[i - 1]
    BY KnownIs
  <2> QED
    BY <2>1, PTL
<1> QED
  BY <1>1

\* Saving a new host is learning it.
LEMMA SaveLearns ==
    ASSUME TypeOK, Filled, TypeOK', NEW h \in Host, ~Cached(h.ip),
           cache' = [cache EXCEPT ![cache_index] = h], cache_index' = (cache_index + 1) % Size
    PROVE  Table!Learn(h)
<1>1. Size \in Nat /\ Size > 0 /\ cache_index \in 0 .. Size - 1 /\ cache_index \in Slots
  BY SizeAssumption DEF TypeOK, Slots
<1>2. cache_index' = IF cache_index + 1 = Size THEN 0 ELSE cache_index + 1
  BY <1>1, NextSlot
<1>3. \A i \in Slots : cache'[i] = IF i = cache_index THEN h ELSE cache[i]
  BY DEF TypeOK
<1>4. /\ Filled'
      /\ Full => Full'
      /\ ~Full /\ cache_index + 1 = Size => Full'
      /\ ~Full /\ cache_index + 1 # Size => ~Full'
  BY SaveFills
<1> DEFINE kept == IF Len(Known) = Size THEN Tail(Known) ELSE Known
           n == IF Full THEN Size - 1 ELSE cache_index
<1>0. (Full => n = Size - 1) /\ (~Full => n = cache_index) /\ n \in 0 .. Size - 1
  BY <1>1
<1> HIDE DEF n
<1>5. kept \in Seq(Host) /\ Len(kept) = n
  <2>1. CASE Full
    <3>1. Len(Known) = Size /\ Known \in Seq(Host)
      BY <2>1, KnownIs
    <3>2. Known # << >>
      BY <1>1, <3>1
    <3>3. Tail(Known) \in Seq(Host) /\ Len(Tail(Known)) = Size - 1
      BY <3>1, <3>2, HeadTailProperties
    <3> QED
      BY <1>0, <2>1, <3>1, <3>3
  <2>2. CASE ~Full
    BY <1>0, <1>1, <2>2, KnownIs
  <2> QED
    BY <2>1, <2>2
<1>6. Known' \in Seq(Host) /\ Len(Known') = n + 1
  <2>1. Len(Known') = IF Full' THEN Size ELSE cache_index'
    BY <1>4, KnownIsNext
  <2>2. CASE Full
    BY <1>0, <1>1, <1>4, <2>1, <2>2, KnownIsNext
  <2>3. CASE ~Full /\ cache_index + 1 = Size
    BY <1>0, <1>1, <1>4, <2>1, <2>3, KnownIsNext
  <2>4. CASE ~Full /\ cache_index + 1 # Size
    BY <1>0, <1>1, <1>2, <1>4, <2>1, <2>4, KnownIsNext
  <2> QED
    BY <2>2, <2>3, <2>4
<1>7. Known'[n + 1] = h
  <2>1. CASE Full
    <3>1. Full' /\ n + 1 = Size /\ Size \in 1 .. Size
      BY <1>0, <1>1, <1>4, <2>1
    <3>2. Known'[Size] = cache'[IF cache_index' + Size - 1 < Size THEN cache_index' + Size - 1
                                                             ELSE cache_index' + Size - 1 - Size]
      BY <1>4, <3>1, KnownIsNext
    <3>3. (IF cache_index' + Size - 1 < Size THEN cache_index' + Size - 1
                                             ELSE cache_index' + Size - 1 - Size) = cache_index
      BY <1>1, <1>2
    <3> QED
      BY <1>1, <1>3, <3>1, <3>2, <3>3
  <2>2. CASE ~Full /\ cache_index + 1 = Size
    <3>1. Full' /\ n + 1 = Size /\ Size \in 1 .. Size /\ cache_index' = 0
      BY <1>0, <1>1, <1>2, <1>4, <2>2
    <3>2. Known'[Size] = cache'[IF cache_index' + Size - 1 < Size THEN cache_index' + Size - 1
                                                             ELSE cache_index' + Size - 1 - Size]
      BY <1>4, <3>1, KnownIsNext
    <3>3. (IF cache_index' + Size - 1 < Size THEN cache_index' + Size - 1
                                             ELSE cache_index' + Size - 1 - Size) = cache_index
      BY <1>1, <2>2, <3>1
    <3> QED
      BY <1>1, <1>3, <3>1, <3>2, <3>3
  <2>3. CASE ~Full /\ cache_index + 1 # Size
    <3>1. ~Full' /\ n = cache_index /\ cache_index' = cache_index + 1 /\ n + 1 \in 1 .. cache_index'
          /\ n + 1 - 1 = cache_index
      BY <1>0, <1>1, <1>2, <1>4, <2>3
    <3>2. \A i \in 1 .. cache_index' : Known'[i] = cache'[i - 1]
      BY <1>4, <3>1, KnownIsNext
    <3> QED
      BY <1>1, <1>3, <3>1, <3>2
  <2> QED
    BY <2>1, <2>2, <2>3
<1>8. ASSUME NEW i \in 1 .. n
      PROVE  Known'[i] = kept[i]
  <2>1. CASE Full
    <3>1. Full' /\ n = Size - 1 /\ i \in 1 .. Size /\ i + 1 \in 1 .. Size
      BY <1>0, <1>1, <1>4, <1>8, <2>1
    <3> DEFINE a == IF cache_index + i < Size THEN cache_index + i ELSE cache_index + i - Size
    <3>2. Known'[i] = cache'[IF cache_index' + i - 1 < Size THEN cache_index' + i - 1
                                                        ELSE cache_index' + i - 1 - Size]
      BY <1>4, <3>1, KnownIsNext
    <3>3. (IF cache_index' + i - 1 < Size THEN cache_index' + i - 1
                                          ELSE cache_index' + i - 1 - Size) = a
      BY <1>1, <1>2, <3>1
    <3>4. a \in Slots /\ a # cache_index
      BY <1>1, <3>1 DEF Slots
    <3>5. Known[i + 1] = cache[IF cache_index + (i + 1) - 1 < Size THEN cache_index + (i + 1) - 1
                                                           ELSE cache_index + (i + 1) - 1 - Size]
      BY <2>1, <3>1, KnownIs
    <3>6. (IF cache_index + (i + 1) - 1 < Size THEN cache_index + (i + 1) - 1
                                               ELSE cache_index + (i + 1) - 1 - Size) = a
      BY <1>1, <3>1
    <3>7. Known'[i] = Known[i + 1]
      <4> HIDE DEF a
      <4> QED
        BY <1>3, <3>2, <3>3, <3>4, <3>5, <3>6
    <3>8. Len(Known) = Size /\ Known \in Seq(Host)
      BY <2>1, KnownIs
    <3>9. Tail(Known)[i] = Known[i + 1]
      BY <1>1, <3>1, <3>8
    <3> QED
      BY <3>7, <3>8, <3>9
  <2>2. CASE ~Full
    <3>1. n = cache_index /\ i \in 1 .. cache_index /\ kept = Known
      BY <1>0, <1>1, <1>8, <2>2, KnownIs
    <3>2. Known[i] = cache[i - 1]
      BY <2>2, <3>1, KnownIs
    <3>3. i - 1 \in Slots /\ i - 1 # cache_index
      BY <1>1, <3>1 DEF Slots
    <3>4. Known'[i] = cache'[i - 1]
      <4>1. CASE cache_index + 1 = Size
        <5>1. Full' /\ cache_index' = 0 /\ i \in 1 .. Size /\ 0 + i - 1 < Size /\ 0 + i - 1 = i - 1
          BY <1>1, <1>2, <1>4, <2>2, <3>1, <4>1
        <5>2. Known'[i] = cache'[IF cache_index' + i - 1 < Size THEN cache_index' + i - 1
                                                            ELSE cache_index' + i - 1 - Size]
          BY <1>4, <5>1, KnownIsNext
        <5> QED
          BY <5>1, <5>2
      <4>2. CASE cache_index + 1 # Size
        <5>1. ~Full' /\ i \in 1 .. cache_index'
          BY <1>1, <1>2, <1>4, <2>2, <3>1, <4>2
        <5> QED
          BY <1>4, <5>1, KnownIsNext
      <4> QED
        BY <4>1, <4>2
    <3> QED
      BY <1>3, <3>1, <3>2, <3>3, <3>4
  <2> QED
    BY <2>1, <2>2
<1>9. Known' = Append(kept, h)
  <2> HIDE DEF kept
  <2>1. Append(kept, h) \in Seq(Host) /\ Len(Append(kept, h)) = n + 1
    BY <1>5
  <2>2. \A i \in 1 .. n + 1 : Known'[i] = Append(kept, h)[i]
    BY <1>0, <1>1, <1>5, <1>7, <1>8
  <2> QED
    BY <1>6, <2>1, <2>2, SeqEqual
<1>10. ~Table!Knows(h)
  BY NotKnown
<1> QED
  BY <1>9, <1>10 DEF Table!Learn

LEMMA StepTable ==
    ASSUME IInv, IInv', Filled, [Next]_vars
    PROVE  Filled' /\ [Table!Next]_Known
<1>1. CASE UNCHANGED <<cache, cache_index>>
  <2>1. Filled' /\ Known' = Known
    BY <1>1 DEF Filled, Full, Known
  <2> QED
    BY <2>1
<1>2. ASSUME NEW m \in net, arp_receive(m)
      PROVE  Filled' /\ [Table!Next]_Known
  <2> DEFINE h == [ip |-> m.ip, mac |-> m.mac]
  <2>1. save_to_cache(h) /\ h \in Host
    BY <1>2 DEF arp_receive, IInv, RepliesClaimed, TypeOK
  <2> HIDE DEF h
  <2>2. CASE Cached(h.ip)
    BY <1>1, <2>1, <2>2 DEF save_to_cache
  <2>3. CASE ~Cached(h.ip)
    <3>1. /\ cache' = [cache EXCEPT ![cache_index] = h]
          /\ cache_index' = (cache_index + 1) % Size
      BY <2>1, <2>3 DEF save_to_cache
    <3>2. Filled' /\ Table!Learn(h)
      BY <2>1, <2>3, <3>1, SaveFills, SaveLearns DEF IInv
    <3> QED
      BY <2>1, <3>2 DEF Table!Next
  <2> QED
    BY <2>2, <2>3
<1>3. \/ UNCHANGED <<cache, cache_index>>
      \/ \E m \in net : arp_receive(m)
  BY DEF Next, vars, client, RequestKnown, RequestUnknown, RequestReturns, HostReplies,
         HostAnnounces, HostMoves, Lose
<1> QED
  BY <1>1, <1>2, <1>3

\* The cache is a table of the hosts learned last: whatever is in flight, and
\* hosts moved or not, no combination of an address and a hardware address is
\* in it twice, and a new one takes the place of the one learned first
\* (arp.c:259-283).
THEOREM CacheImplementsTable == Spec => ImplementsTable
<1>1. Init => Filled /\ Table!Init
  <2> SUFFICES ASSUME Init PROVE Filled /\ Table!Init
    OBVIOUS
  <2>1. 0 \in Slots /\ \A i \in Slots : ~ (i < 0)
    BY SizeAssumption DEF Slots
  <2>2. \A i \in Slots : cache[i].ip = NoIp
    BY DEF Init, Empty
  <2>3. ~Full /\ cache_index = 0
    BY <2>1, <2>2 DEF Init, Full
  <2>4. Known = << >>
    BY <2>3 DEF Known
  <2> QED
    BY <2>1, <2>2, <2>3, <2>4 DEF Filled, Table!Init
<1>2. IInv /\ IInv' /\ Filled /\ [Next]_vars => Filled' /\ [Table!Next]_Known
  BY StepTable
<1> QED
  BY <1>1, <1>2, InitIInv, StepIInv, PTL DEF Spec, ImplementsTable, Table!Spec
=============================================================================
