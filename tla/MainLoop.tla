------------------------------ MODULE MainLoop ------------------------------
(***************************************************************************)
(* The endless loop of slashnet.c: network_backbone looks at one frame     *)
(* and hands it to its protocol, werkti_maybe_report sends the byte counts *)
(* when the interval is over.  The timer interrupt ticks in between, also  *)
(* between the two bytes of the 16-bit time that the loop reads or zeroes. *)
(***************************************************************************)
EXTENDS Shared, FiniteSets

CONSTANTS
    Interval,      \* UTILS_WERKTI_REPORT_INTERVAL
    EchoRequest,   \* ICMP_VAL_TYPE_ECHOREQUEST
    MinArp, MinIp, \* the least lengths network_backbone looks into
    FrameLengths,  \* of frames received
    SegmentLen,    \* of frames sent in answer, and of requests to renew a lease
    ReportLen,     \* of the frame of a report
    MaxFrames,     \* how many frames come, or renewals go, between two reports
    MaxTicks       \* how many ticks one pass of the loop may take

ASSUME LoopAssumption ==
    /\ Interval \in Word \ {0}
    /\ EchoRequest \in Byte
    /\ FrameLengths \subseteq Word
    /\ {MinArp, MinIp, SegmentLen, ReportLen, MaxFrames, MaxTicks} \subseteq Nat

VARIABLES
    time,      \* the seconds since the last report, as two bytes
    lowFirst,  \* whether compiled code reads, and zeroes, the low byte of time first
    half,      \* the byte that has been read
    counts,    \* werkti_in, werkti_out, werkti_arp_in, ...
    saved,     \* what werkti_maybe_report keeps of werkti_out and werkti_udp_out
    echo,      \* the ICMP part of the ping that was answered, and of the answer
    pc,        \* where the loop is
    unreported,\* the bytes received and sent that no report has told, mod 2^16
    frames,    \* the frames received, and the renewals sent, since the last report
    passed,    \* the seconds that have passed since the last report
    busy       \* the ticks during this pass

vars == <<time, lowFirst, half, counts, saved, echo, pc,
          unreported, frames, passed, busy>>

Class == {"all", "arp", "icmp", "udp", "tcp"}
Counter == Class \X {"in", "out"}
\* Those for which the reports are to add up; DHCP answers may count twice.
Exact == Counter \ {<<"udp", "in">>}
NoEcho == << >>

Now(t) == t.high * Base + t.low

Init == /\ time = [high |-> 0, low |-> 0]
        /\ lowFirst \in [read : BOOLEAN, zero : BOOLEAN]
        /\ half = 0
        /\ counts = [k \in Counter |-> 0]
        /\ saved = [all |-> 0, udp |-> 0]
        /\ echo = NoEcho
        /\ pc = "backbone"
        /\ unreported = [k \in Exact |-> 0]
        /\ frames = 0 /\ passed = 0 /\ busy = 0

Ceiling == Interval + 4 * MaxTicks

\* The timer interrupt: werkti_tick.  No pass takes longer than MaxTicks, but
\* for one that never ends.
Tick == /\ busy < MaxTicks \/ pc = "copying"
        /\ LET next == (Now(time) + 1) % WordSize
           IN time' = [high |-> next \div Base, low |-> next % Base]
        /\ passed' = IF passed < Ceiling THEN passed + 1 ELSE passed
        /\ busy' = IF pc = "copying" THEN busy ELSE busy + 1
        /\ UNCHANGED <<lowFirst, half, counts, saved, echo, pc, unreported, frames>>

-----------------------------------------------------------------------------
\* network_backbone

\* A count with n more bytes for each counter of ks.
Counted(f, ks, n) == [k \in DOMAIN f |-> IF k \in ks THEN (f[k] + n) % WordSize ELSE f[k]]

\* What a frame of a protocol and its answer do to the counts.
Exchange(f, class, in, out) ==
    Counted(Counted(f, {<<"all", "in">>, <<class, "in">>}, in),
            {<<"all", "out">>, <<class, "out">>}, out)

\* To count an exchange the same bytes are due in the next report.
Tally(class, in, out) ==
    /\ counts' = Exchange(counts, class, in, out)
    /\ unreported' = Exchange(unreported, class, in, out)

Taken == /\ pc = "backbone"
         /\ frames < MaxFrames
         /\ frames' = frames + 1
         /\ UNCHANGED <<time, lowFirst, half, saved, passed, busy>>

NoFrame == /\ pc = "backbone" /\ pc' = "read"
           /\ UNCHANGED <<time, lowFirst, half, counts, saved, echo,
                          unreported, frames, passed, busy>>

\* No frame, and dhcp_renew sends its request for a longer lease.
SendRenewal == /\ Taken
               /\ Tally("udp", 0, SegmentLen)
               /\ pc' = "read"
               /\ UNCHANGED echo

\* A frame that is not of a protocol, or too short for it: "all" alone.
OtherFrame(n) == /\ Taken
                 /\ Tally("all", n, 0)
                 /\ pc' = "read"
                 /\ UNCHANGED echo

ArpFrame(n) == /\ Taken /\ n > MinArp
               /\ \E out \in {0, SegmentLen} : Tally("arp", n, out)
               /\ pc' = "read"
               /\ UNCHANGED echo

\* DHCP answers that dhcp_renew consumes, or packets to UDP services, which may
\* answer.
UdpFrame(n) == /\ Taken /\ n > MinIp
               /\ \E out \in {0, SegmentLen} : Tally("udp", n, out)
               /\ pc' = "read"
               /\ UNCHANGED echo

\* A DHCP answer that is for this device but no acknowledgement of a renewal
\* stays in the buffer: dhcp_renew and udp_receive both count it.
DhcpFrame(n) == /\ Taken /\ n > MinIp
                /\ counts' = Counted(Exchange(counts, "udp", n, 0), {<<"udp", "in">>}, n)
                /\ unreported' = Exchange(unreported, "udp", n, 0)
                /\ pc' = "read"
                /\ UNCHANGED echo

\* A request is answered with an acknowledgement and the reply.
TcpFrame(n) == /\ Taken /\ n > MinIp
               /\ \E out \in {0, SegmentLen, 2 * SegmentLen} : Tally("tcp", n, out)
               /\ pc' = "read"
               /\ UNCHANGED echo

\* The two statements of icmp_ping_reply that adjust the checksum.
AdjustChecksum_NoCarry(h, l) == <<(h + EchoRequest) % Base, l>>

AdjustChecksum(h, l) == <<(h + EchoRequest) % Base,
                          IF h > Base - 1 - EchoRequest THEN (l + 1) % Base ELSE l>>

\* The ICMP part: the type with the code, the checksum, the rest as one word.
Icmp(type, sum, rest) == <<type, 0, sum[1], sum[2], rest \div Base, rest % Base>>

PingRequest(rest) == LET sum == checksum(Icmp(EchoRequest, <<0, 0>>, rest), 0)
                     IN Icmp(EchoRequest, Bytes(sum), rest)

icmp_ping_reply(request) ==
    LET sum == AdjustChecksum(request[3], request[4])
    IN <<0, 0, sum[1], sum[2], request[5], request[6]>>

\* The copy loop counts in a byte: it ends for short frames only.
PingFrame(n, rest) ==
    /\ Taken /\ n > MinIp
    /\ IF n < Base
         THEN /\ echo' = [request |-> PingRequest(rest),
                          reply |-> icmp_ping_reply(PingRequest(rest))]
              /\ Tally("icmp", n, n)
              /\ pc' = "read"
         ELSE /\ Tally("icmp", n, 0)
              /\ pc' = "copying"
              /\ UNCHANGED echo

\* Any ICMP packet but an echo request is counted and left at that.
IcmpFrame(n) == /\ Taken /\ n > MinIp
                /\ Tally("icmp", n, 0)
                /\ pc' = "read"
                /\ UNCHANGED echo

-----------------------------------------------------------------------------
\* werkti_maybe_report

FirstByte == IF lowFirst.read THEN time.low ELSE time.high

\* What the two reads of one access to time make of it.
Seen == IF lowFirst.read THEN time.high * Base + half ELSE half * Base + time.low

ReadFirst == /\ pc = "read" /\ pc' = "compare"
             /\ half' = FirstByte
             /\ UNCHANGED <<time, lowFirst, counts, saved, echo, unreported,
                            frames, passed, busy>>

NotYet == /\ pc = "compare" /\ pc' = "backbone"
          /\ Seen < Interval
          /\ half' = 0 /\ echo' = NoEcho /\ busy' = 0
          /\ UNCHANGED <<time, lowFirst, counts, saved, unreported, frames, passed>>

\* The mutant does not keep werkti_out; the report itself is then forgotten.
SaveOut_Nothing ==
    /\ pc = "compare" /\ pc' = "all"
    /\ Seen >= Interval
    /\ saved' = [all |-> counts[<<"all", "out">>], udp |-> counts[<<"udp", "out">>]]
    /\ half' = 0 /\ passed' = 0
    /\ UNCHANGED <<time, lowFirst, counts, echo, unreported, frames, busy>>

SaveOut ==
    /\ pc = "compare" /\ pc' = "all"
    /\ Seen >= Interval
    /\ saved' = [all |-> counts[<<"all", "out">>], udp |-> counts[<<"udp", "out">>]]
    /\ counts' = [counts EXCEPT ![<<"all", "out">>] = 0, ![<<"udp", "out">>] = 0]
    /\ half' = 0 /\ passed' = 0
    /\ UNCHANGED <<time, lowFirst, echo, unreported, frames, busy>>

Following(class) == CASE class = "all" -> "arp" [] class = "arp" -> "icmp"
                      [] class = "icmp" -> "udp" [] class = "udp" -> "tcp"
                      [] class = "tcp" -> "zero"

\* The bytes sent that the report of a class tells.
Told(class) == IF class \in {"all", "udp"} THEN saved[class] ELSE counts[<<class, "out">>]

\* send_report for one class, and the resets that follow it; the report is
\* itself a UDP packet.
Report(class) ==
    LET own == {<<"all", "out">>, <<"udp", "out">>}
        sent == Counted(counts, own, ReportLen)
        settled == [k \in Exact |->
                      CASE k = <<class, "in">>  -> (unreported[k] - counts[k]) % WordSize
                        [] k = <<class, "out">> -> (unreported[k] - Told(class)) % WordSize
                        [] OTHER                -> unreported[k]]
    IN /\ pc = class /\ pc' = Following(class)
       /\ counts' = IF class \in {"all", "udp"}
                      THEN [sent EXCEPT ![<<class, "in">>] = 0]
                      ELSE [sent EXCEPT ![<<class, "in">>] = 0, ![<<class, "out">>] = 0]
       /\ unreported' = Counted(settled, own, ReportLen)
       /\ saved' = IF class \in {"all", "udp"} THEN [saved EXCEPT ![class] = 0] ELSE saved
       /\ UNCHANGED <<time, lowFirst, half, echo, frames, passed, busy>>

\* time = 0, one byte after the other; the compiler may take either first.  The
\* mutant zeroes one byte alone.
ZeroFirst == /\ pc = "zero" /\ pc' = "zeroed"
             /\ time' = IF lowFirst.zero THEN [time EXCEPT !.low = 0] ELSE [time EXCEPT !.high = 0]
             /\ UNCHANGED <<lowFirst, half, counts, saved, echo, unreported,
                            frames, passed, busy>>

ZeroSecond_Skipped == /\ pc = "zeroed" /\ pc' = "backbone"
                      /\ frames' = 0 /\ echo' = NoEcho /\ busy' = 0
                      /\ UNCHANGED <<time, lowFirst, half, counts, saved, unreported, passed>>

ZeroSecond == /\ pc = "zeroed" /\ pc' = "backbone"
              /\ time' = IF lowFirst.zero THEN [time EXCEPT !.high = 0] ELSE [time EXCEPT !.low = 0]
              /\ frames' = 0 /\ echo' = NoEcho /\ busy' = 0
              /\ UNCHANGED <<lowFirst, half, counts, saved, unreported, passed>>

Next == \/ Tick
        \/ NoFrame \/ SendRenewal
        \/ \E n \in FrameLengths :
             \/ OtherFrame(n) \/ ArpFrame(n) \/ IcmpFrame(n)
             \/ UdpFrame(n) \/ DhcpFrame(n) \/ TcpFrame(n)
        \/ \E n \in FrameLengths, rest \in Word : PingFrame(n, rest)
        \/ ReadFirst \/ NotYet \/ SaveOut
        \/ \E class \in Class : Report(class)
        \/ ZeroFirst \/ ZeroSecond

Spec == Init /\ [][Next]_vars

-----------------------------------------------------------------------------
\* Whatever is received and sent while reports are built, each byte is told by
\* one report, once (mod 2^16): the counts are the bytes not yet reported, but
\* for what werkti_maybe_report has put aside.
BytesConserved ==
    \A k \in Exact :
        unreported[k] = (counts[k] + (IF k = <<"all", "out">> THEN saved.all
                                      ELSE IF k = <<"udp", "out">> THEN saved.udp
                                      ELSE 0)) % WordSize

\* Reading and zeroing time in two steps, with ticks in between, costs at most
\* the range of a byte: a report never follows another sooner, and none is put
\* off longer than the passes of the loop take.
ReportsSpaced ==
    /\ [][pc = "compare" /\ pc' = "all" => passed > Interval - Base]_vars
    /\ [](pc # "copying" => passed <= Interval + 3 * MaxTicks)

\* The answer to a ping has a checksum that verifies, but when the adjustment
\* carries out of the low byte: the comment at icmp.c:72-75 makes no exception.
CarryLost(h, l) == h > Base - 1 - EchoRequest /\ l = Base - 1

EchoVerifies ==
    echo # NoEcho =>
        \/ Verifies(echo.reply, 0)
        \/ CarryLost(echo.request[3], echo.request[4])

\* What the comment says of the adjustment: it is correct.
AdjustmentCorrect == echo # NoEcho => Verifies(echo.reply, 0)
=============================================================================
