-------------------------------- MODULE Tcp --------------------------------
(***************************************************************************)
(* The web server on TCP (net/tcp.c, ext/www_server.c) and one client that *)
(* asks for a page.  The device keeps no connection: every segment is      *)
(* answered from its own numbers.  The client keeps to RFC 793; the net    *)
(* reorders, loses and repeats segments.                                   *)
(***************************************************************************)
EXTENDS Shared, PathService

CONSTANTS
    Numbers,       \* first sequence numbers of the client, as bytes
    Protocol,      \* IP_VAL_PROTO_TCP
    PathByte,      \* how a path reads in a request
    CallbackByte,  \* what a callback (or Null) puts into its reply
    Faults,        \* segments the net may lose or deliver once more
    Changes        \* registrations and removals of paths

\* Two bits of the flags fit into what a byte stands for here.
ASSUME TcpAssumption ==
    /\ Base >= 4
    /\ Numbers \subseteq Seq(Byte) \ {<< >>}
    /\ Protocol \in Nat
    /\ PathByte \in [Path -> Byte \ {0}]
    /\ \A p, q \in Path : PathByte[p] = PathByte[q] => p = q
    /\ CallbackByte \in [Callback \cup {Null} -> Byte]
    /\ {Faults, Changes} \subseteq Nat

VARIABLES
    sequence_nr,   \* the counter of the device
    net,           \* the segments under way
    client,        \* the client's end of the connection
    offered,       \* history: the callbacks registered for the path since it was asked for
    faults, changes

tcp == <<sequence_nr, net, client, offered>>
budget == <<faults, changes>>
tcpVars == <<paths, tcp, budget>>

-----------------------------------------------------------------------------
\* Segments.  A request is a method, 0 when it is not known, and what stands
\* where the path is looked for: behind the method, or at the very start.

Request(method, p) == <<method, PathByte[p], 0>>
ReplyData(c) == <<CallbackByte[c], 1>>

FlagBits(flags) ==
    << (IF "SYN" \in flags THEN 2 ELSE 0) + (IF "FIN" \in flags THEN 1 ELSE 0),
       (IF "ACK" \in flags THEN 2 ELSE 0) + (IF "PSH" \in flags THEN 1 ELSE 0) >>

Content(m) == m.seq \o m.ack \o FlagBits(m.flags) \o m.data
PseudoHeader(m) == Protocol + Len(Content(m))

\* tcp_send puts the checksum in place.
tcp_send(m) == [to |-> "client", flags |-> m.flags, seq |-> m.seq, ack |-> m.ack,
                data |-> m.data, sum |-> checksum(Content(m), PseudoHeader(m))]

\* The client does its own arithmetic, with all the bytes at once.
Number(b) == LET n[k \in 0 .. Len(b)] == IF k = 0 THEN 0 ELSE n[k - 1] * Base + b[k]
             IN n[Len(b)]
Weight(n) == LET w[k \in 0 .. n] == IF k = 0 THEN 1 ELSE Base * w[k - 1] IN w[n]
Plus(b, n) == LET sum == Number(b) + n
              IN [i \in DOMAIN b |-> (sum \div Weight(Len(b) - i)) % Base]

FromClient(flags, seq, ack, data) ==
    [to |-> "device", flags |-> flags, seq |-> seq, ack |-> ack, data |-> data, sum |-> 0]

-----------------------------------------------------------------------------
\* The device: tcp_receive.

Next_nr(n) == (sequence_nr + n) % Base

\* tcp_prepare_reply, with flags and data filled in and n added to the
\* acknowledgement.
Answer(m, n, flags, data) ==
    [flags |-> flags, seq |-> m.ack, ack |-> add_value_to_buffer(n, m.seq), data |-> data]

\* construct has incremented sequence_nr before it is added.
SynAnswer(m) == LET a == Answer(m, 1, {"SYN", "ACK"}, << >>)
                IN [a EXCEPT !.seq = add_value_to_buffer(Next_nr(1), @)]

FinAnswer(m) == Answer(m, 1, {"FIN", "ACK"}, << >>)

NamesPath(data) == \E p \in Path : PathByte[p] = data[2]
PathOf(data) == CHOOSE p \in Path : PathByte[p] = data[2]

\* handle_request searches the list whether or not it knows the method.
Callee(data) == IF NamesPath(data) THEN Answering(PathOf(data)) ELSE Null

handle_request(m) ==
    Answer(m, Len(m.data), {"ACK", "PSH", "FIN"}, ReplyData(Callee(m.data)))

\* A segment that is taken is gone, or comes once more.
Take(m, new) ==
    \/ /\ net' = (net \ {m}) \cup new
       /\ UNCHANGED faults
    \/ /\ faults < Faults /\ faults' = faults + 1
       /\ net' = net \cup new

ReceiveReset(m) == /\ "RST" \in m.flags
                   /\ Take(m, {})
                   /\ UNCHANGED <<sequence_nr, found>>

ReceiveSyn(m) == /\ "RST" \notin m.flags /\ "SYN" \in m.flags
                 /\ Take(m, {tcp_send(SynAnswer(m))})
                 /\ sequence_nr' = Next_nr(2)
                 /\ UNCHANGED found

ReceiveFin(m) == /\ m.flags \cap {"RST", "SYN"} = {} /\ "FIN" \in m.flags
                 /\ Take(m, {tcp_send(FinAnswer(m))})
                 /\ sequence_nr' = Next_nr(1)
                 /\ UNCHANGED found

ReceiveAck(m) == /\ m.flags = {"ACK"}
                 /\ Take(m, {})
                 /\ UNCHANGED <<sequence_nr, found>>

\* The acknowledgement goes out first, then the service runs.
ReceivePush(m) ==
    /\ m.flags \cap {"RST", "SYN", "FIN"} = {} /\ "PSH" \in m.flags
    /\ Take(m, {tcp_send(Answer(m, Len(m.data), {"ACK"}, << >>)),
                tcp_send(handle_request(m))})
    /\ sequence_nr' = Next_nr(2)
    /\ found' = IF NamesPath(m.data) THEN <<PathOf(m.data), Answering(PathOf(m.data))>>
                ELSE found

tcp_receive ==
    /\ \E m \in net : /\ m.to = "device"
                      /\ \/ ReceiveReset(m) \/ ReceiveSyn(m) \/ ReceiveFin(m)
                         \/ ReceiveAck(m) \/ ReceivePush(m)
    /\ UNCHANGED <<path_services, client, offered, changes>>

\* The program changes the list of paths between two segments.
Offers(p) == {path_services'[i].callback : i \in {k \in Slots : path_services'[k].path = p}}
Offered(p) == IF Offers(p) = {} THEN {Null} ELSE Offers(p)

ChangePaths ==
    /\ changes < Changes /\ changes' = changes + 1
    /\ \E p \in Path : \/ \E c \in Callback : www_server_register_path(p, c)
                       \/ www_server_unregister_path(p)
    /\ offered' = IF client.state = "asked" /\ client.path # NoPath
                    THEN offered \cup Offered(client.path) ELSE offered
    /\ UNCHANGED <<sequence_nr, net, client, faults>>

-----------------------------------------------------------------------------
\* The client.  snd is the next number it sends, rcv the next it expects;
\* sent is the segment it repeats until it is answered.

None == << >>

ClientSends(m, state) ==
    /\ client' = [client EXCEPT !.state = state, !.sent = m]
    /\ net' = net \cup {m}
    /\ UNCHANGED <<sequence_nr, faults, changes>>

Connect == /\ client.state = "closed"
           /\ ClientSends(FromClient({"SYN"}, client.snd, client.rcv, << >>), "connecting")
           /\ UNCHANGED <<paths, offered>>

\* A page of this server, with or without a method before its path, or a word
\* that the server does not know.
Requests(p) == IF p = NoPath THEN {<<0, 0, 0>>} ELSE {Request(method, p) : method \in {0, 1}}

Ask(p) == /\ client.state = "connected"
          /\ \E data \in Requests(p) :
                LET m == FromClient({"ACK", "PSH"}, client.snd, client.rcv, data)
                IN /\ client' = [client EXCEPT !.state = "asked", !.sent = m, !.path = p]
                   /\ net' = net \cup {m}
          /\ offered' = IF p = NoPath THEN {Null}
                        ELSE LET now == {path_services[i].callback : i \in Holding(p)}
                             IN IF now = {} THEN {Null} ELSE now
          /\ UNCHANGED <<paths, sequence_nr, faults, changes>>

Close == /\ client.state = "answered"
         /\ ClientSends(FromClient({"FIN", "ACK"}, client.snd, client.rcv, << >>), "closing")
         /\ UNCHANGED <<paths, offered>>

Reset == /\ client.state = "answered"
         /\ ClientSends(FromClient({"RST"}, client.snd, client.rcv, << >>), "closed for good")
         /\ UNCHANGED <<paths, offered>>

\* A timeout longer than the round trip: nothing is under way any more.
Repeat == /\ client.state \in {"connecting", "asked", "closing"}
          /\ ~client.acked
          /\ net = {}
          /\ net' = {client.sent}
          /\ UNCHANGED <<paths, sequence_nr, client, offered, budget>>

Acknowledgement(c) == FromClient({"ACK"}, c.snd, c.rcv, << >>)

ClientTakes(m, next) ==
    /\ client' = next
    /\ Take(m, IF next.rcv # client.rcv THEN {Acknowledgement(next)} ELSE {})
    /\ UNCHANGED <<paths, sequence_nr, offered, changes>>

IsSynAck(m) == client.state = "connecting" /\ m.flags = {"SYN", "ACK"}
                                           /\ m.ack = Plus(client.snd, 1)

Connected(m) == /\ IsSynAck(m)
                /\ ClientTakes(m, [client EXCEPT !.state = "connected", !.snd = m.ack,
                                                 !.rcv = Plus(m.seq, 1)])

\* What the client has sent is acknowledged, and what comes next in the stream
\* is kept, up to the FIN with the reply; the client goes on when it has both.
Acks(m) == m.ack = Plus(client.snd, Len(client.sent.data))
InOrder(m) == m.seq = client.rcv /\ m.data # << >>
IsStream(m) == client.state = "asked" /\ "SYN" \notin m.flags /\ (Acks(m) \/ InOrder(m))

Stream(m) ==
    /\ IsStream(m)
    /\ LET acked == client.acked \/ Acks(m)
           got == IF InOrder(m) THEN client.got \o m.data ELSE client.got
           rcv == IF InOrder(m) THEN Plus(client.rcv, Len(m.data) + 1) ELSE client.rcv
           now == [client EXCEPT !.acked = acked, !.got = got, !.rcv = rcv]
       IN ClientTakes(m, IF acked /\ got # << >>
                           THEN [now EXCEPT !.state = "answered",
                                            !.snd = Plus(@, Len(client.sent.data)),
                                            !.acked = FALSE]
                           ELSE now)

IsFinAck(m) == client.state = "closing" /\ "FIN" \in m.flags
                                        /\ m.ack = Plus(client.snd, 1)

Closed(m) == /\ IsFinAck(m)
             /\ ClientTakes(m, [client EXCEPT !.state = "closed for good"])

Ignored(m) == /\ ~IsSynAck(m) /\ ~IsStream(m) /\ ~IsFinAck(m)
              /\ ClientTakes(m, client)

ClientReceives == \E m \in net : /\ m.to = "client"
                                 /\ Connected(m) \/ Stream(m) \/ Closed(m) \/ Ignored(m)

\* The net loses a segment, but not a reply: see README.md.
Lose == /\ faults < Faults /\ faults' = faults + 1
        /\ \E m \in net : /\ ~(m.to = "client" /\ m.data # << >>)
                          /\ net' = net \ {m}
        /\ UNCHANGED <<paths, sequence_nr, client, offered, changes>>

TcpInit == /\ PathsInit
           /\ sequence_nr = 1
           /\ net = {}
           /\ \E n \in Numbers :
                client = [state |-> "closed", snd |-> n, rcv |-> [i \in DOMAIN n |-> 0],
                          sent |-> None, path |-> NoPath, acked |-> FALSE, got |-> << >>]
           /\ offered = {}
           /\ faults = 0 /\ changes = 0

TcpNext == \/ tcp_receive \/ ChangePaths
           \/ Connect \/ Close \/ Reset \/ Repeat
           \/ \E p \in Path \cup {NoPath} : Ask(p)
           \/ ClientReceives
           \/ Lose

TcpSpec == TcpInit /\ [][TcpNext]_tcpVars

\* Whatever is under way is taken by its receiver in the end, and the client
\* repeats what is not answered.
TcpFairSpec == TcpSpec /\ WF_tcpVars(tcp_receive \/ ClientReceives \/ Repeat)

-----------------------------------------------------------------------------
\* What the client has got is nothing, or one whole reply of a callback that
\* was registered for its path while it asked (or "not found", if none was),
\* however often segments are repeated and the list of paths changes.
ReplyWhole == client.got = << >> \/ \E c \in offered : client.got = ReplyData(c)

\* Every segment the device sends verifies at the receiver.
ChecksumsVerify ==
    \A m \in net : m.to = "client" =>
        Verifies(Content(m) \o (IF Len(Content(m)) % 2 = 1 THEN <<0>> ELSE << >>) \o Bytes(m.sum),
                 PseudoHeader(m))

\* The slots of the list implement the table of paths.
ImplementsPaths == Table!Spec

\* A client that asks for a page is answered, whatever the net loses but the
\* reply itself.
RequestAnswered == client.state = "asked" ~> client.state = "answered"
=============================================================================
