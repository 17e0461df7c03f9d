------------------------------- MODULE RxRing -------------------------------
(***************************************************************************)
(* Receiving frames (net/network.c, network_receive).  The network chip    *)
(* stores frames in a ring of its memory while the program reads them out  *)
(* over SPI, so that a frame may arrive between any two steps of           *)
(* network_receive.  The chip (external) is modelled as its data sheet has *)
(* it: each frame starts with a header that points to the next one, and    *)
(* the chip never writes up to the address the program last left in        *)
(* ERXRDPT.                                                                *)
(***************************************************************************)
EXTENDS Integers, Sequences

CONSTANTS
    Packet,         \* the contents of frames
    NoPacket,       \* the input buffer holds no frame
    Garbage,        \* the input buffer holds bytes of more than one frame
    Sizes,          \* bytes a frame takes in the ring, with header and padding
    RXSTOP_INIT,    \* the last address of the ring; RXSTART_INIT is 0
    PtrSpace,       \* values of a pointer register (2^13)
    MaxCount,       \* values EPKTCNT can reach (255)
    ToEnd           \* may a frame end at the last address of the ring?

ASSUME PacketAssumption == NoPacket \notin Packet /\ Garbage \notin Packet
\* "Receive buffer end, must be odd"; the chip pads frames to even sizes.
ASSUME StopAssumption == RXSTOP_INIT \in Nat /\ RXSTOP_INIT % 2 = 1
ASSUME SizesAssumption == \A n \in Sizes : n \in 2 .. RXSTOP_INIT /\ n % 2 = 0
ASSUME PtrAssumption == PtrSpace \in Nat /\ PtrSpace > RXSTOP_INIT + 1
ASSUME CountAssumption == MaxCount \in Nat \ {0}
ASSUME ToEndAssumption == ToEnd \in BOOLEAN

VARIABLES
    mem,                \* the ring: each byte with the frame it belongs to
    erxwrpt,            \* where the chip writes the next frame
    erxrdpt,            \* where the chip may not write
    epktcnt,            \* frames stored and not released
    next_packet_ptr,    \* where the program finds the next frame
    pc,                 \* where network_receive is
    erdpt,              \* the read pointer: the frame being read
    frame,              \* the header just read, with the length and status
    buffer_in,
    buffer_in_length    \* whether the length is not 0

chip == <<mem, erxwrpt, epktcnt>>
vars == <<mem, erxwrpt, erxrdpt, epktcnt, next_packet_ptr, pc, erdpt, frame,
          buffer_in, buffer_in_length>>

Ring == 0 .. RXSTOP_INIT
RingSize == RXSTOP_INIT + 1
Ptr == 0 .. PtrSpace - 1
Frame == [packet : Packet, ok : BOOLEAN, size : Sizes, next : Ring]

\* Bytes no frame has been stored in.
NoFrame == [packet |-> NoPacket, ok |-> FALSE, size |-> 0, next |-> 0]
Blank == [of |-> NoFrame, at |-> 0]

\* The k-th byte of a frame that starts at an address: the ring wraps.
Byte(a, k) == (a + k) % RingSize

Init == /\ mem = [a \in Ring |-> Blank]
        /\ erxwrpt = 0
        /\ erxrdpt = 0
        /\ epktcnt = 0
        /\ next_packet_ptr = 0
        /\ pc = "idle"
        /\ erdpt = 0
        /\ frame = NoFrame
        /\ buffer_in = NoPacket
        /\ buffer_in_length = FALSE

-----------------------------------------------------------------------------
(* The chip (external).                                                    *)

\* Bytes the chip may write before it meets ERXRDPT.  No address of the ring
\* stops it when ERXRDPT is not in the ring.
Free == IF erxrdpt \in Ring THEN (erxrdpt - erxwrpt - 1) % RingSize ELSE RingSize

\* A frame is stored.  One that does not fit is dropped and leaves no trace.
Arrive(p, n, ok) ==
    /\ \A a \in Ring : mem[a].of.packet # p
    /\ epktcnt < MaxCount
    /\ n <= Free
    /\ LET end == Byte(erxwrpt, n)
           f == [packet |-> p, ok |-> ok, size |-> n, next |-> end]
           offset(a) == (a - erxwrpt) % RingSize
       IN  /\ end = 0 => ToEnd
           /\ mem' = [a \in Ring |-> IF offset(a) < n THEN [of |-> f, at |-> offset(a)]
                                                      ELSE mem[a]]
           /\ erxwrpt' = end
    /\ epktcnt' = epktcnt + 1
    /\ UNCHANGED <<erxrdpt, next_packet_ptr, pc, erdpt, frame, buffer_in, buffer_in_length>>

-----------------------------------------------------------------------------
(* network_receive: the chip may store frames between any two of the steps *)

Begin_Unchecked == /\ pc = "idle"
                   /\ buffer_in_length' = FALSE
                   /\ pc' = "header"
                   /\ UNCHANGED <<chip, erxrdpt, next_packet_ptr, erdpt, frame, buffer_in>>

\* The call: the input buffer is empty, and the call ends if EPKTCNT is 0.
Begin == /\ pc = "idle"
         /\ buffer_in_length' = FALSE
         /\ pc' = IF epktcnt = 0 THEN "idle" ELSE "header"
         /\ UNCHANGED <<chip, erxrdpt, next_packet_ptr, erdpt, frame, buffer_in>>

\* What the program can take for a header at an address: bytes from within a
\* frame can be anything.
HeadersAt(a) == IF a \in Ring /\ mem[a].of # NoFrame /\ mem[a].at = 0
                THEN {mem[a].of}
                ELSE Frame

ReadHeader_FreesEarly ==
    /\ pc = "header"
    /\ pc' = "body"
    /\ erdpt' = next_packet_ptr
    /\ frame' \in HeadersAt(next_packet_ptr)
    /\ next_packet_ptr' = frame'.next
    /\ erxrdpt' = (frame'.next - 1) % PtrSpace
    /\ UNCHANGED <<chip, buffer_in, buffer_in_length>>

\* The header: the pointer to the next frame, the length and the status.
ReadHeader == /\ pc = "header"
              /\ pc' = "body"
              /\ erdpt' = next_packet_ptr
              /\ frame' \in HeadersAt(next_packet_ptr)
              /\ next_packet_ptr' = frame'.next
              /\ UNCHANGED <<chip, erxrdpt, buffer_in, buffer_in_length>>

ReadBody_SkipsBad ==
    /\ pc = "body"
    /\ pc' = IF frame.ok THEN "free" ELSE "idle"
    /\ buffer_in' = IF frame.ok THEN frame.packet ELSE buffer_in
    /\ UNCHANGED <<chip, erxrdpt, next_packet_ptr, erdpt, frame, buffer_in_length>>

\* The bytes that follow go to the input buffer, unless the status is bad.
ReadBody ==
    /\ pc = "body"
    /\ pc' = "free"
    /\ buffer_in' = CASE ~frame.ok -> buffer_in
                      [] \A k \in 0 .. frame.size - 1 :
                             mem[Byte(erdpt, k)].of = frame -> frame.packet
                      [] OTHER -> Garbage
    /\ UNCHANGED <<chip, erxrdpt, next_packet_ptr, erdpt, frame, buffer_in_length>>

FreeSpace_Never ==
    /\ pc = "free"
    /\ pc' = "dec"
    /\ UNCHANGED <<chip, erxrdpt, next_packet_ptr, erdpt, frame, buffer_in, buffer_in_length>>

\* ERXRDPT moves up to the byte before the next frame.  The difference is one
\* of 16 bits, of which the register keeps the lower ones.
FreeSpace ==
    /\ pc = "free"
    /\ pc' = "dec"
    /\ erxrdpt' = IF next_packet_ptr > RXSTOP_INIT THEN RXSTOP_INIT
                                                   ELSE (next_packet_ptr - 1) % PtrSpace
    /\ UNCHANGED <<chip, next_packet_ptr, erdpt, frame, buffer_in, buffer_in_length>>

Release_IgnoresStatus ==
    /\ pc = "dec"
    /\ pc' = "idle"
    /\ epktcnt' = epktcnt - 1
    /\ buffer_in_length' = TRUE
    /\ UNCHANGED <<mem, erxwrpt, erxrdpt, next_packet_ptr, erdpt, frame, buffer_in>>

\* The packet counter goes down and the length is set: the call returns.
Release ==
    /\ pc = "dec"
    /\ pc' = "idle"
    /\ epktcnt' = epktcnt - 1
    /\ buffer_in_length' = frame.ok
    /\ UNCHANGED <<mem, erxwrpt, erxrdpt, next_packet_ptr, erdpt, frame, buffer_in>>

network_receive == Begin \/ ReadHeader \/ ReadBody \/ FreeSpace \/ Release

-----------------------------------------------------------------------------

Next == \/ Begin \/ ReadHeader \/ ReadBody \/ FreeSpace \/ Release
        \/ \E p \in Packet, n \in Sizes, ok \in BOOLEAN : Arrive(p, n, ok)

Spec == Init /\ [][Next]_vars

\* The program never stops calling network_receive (the main loop).
FairSpec == Spec /\ WF_vars(network_receive)

-----------------------------------------------------------------------------

\* Every variable stays in its type; in particular the pointers of the chip
\* stay in the ring.
TypeOK == /\ mem \in [Ring -> [of : Frame \cup {NoFrame}, at : Ring]]
          /\ erxwrpt \in Ring
          /\ erxrdpt \in Ring
          /\ epktcnt \in 0 .. MaxCount
          /\ next_packet_ptr \in Ring
          /\ pc \in {"idle", "header", "body", "free", "dec"}
          /\ erdpt \in Ring
          /\ frame \in Frame \cup {NoFrame}
          /\ buffer_in \in Packet \cup {NoPacket, Garbage}
          /\ buffer_in_length \in BOOLEAN

\* The frame being read has left the chain that starts at next_packet_ptr,
\* while the packet counter still counts it.
Reading == pc \in {"body", "free", "dec"}
Waiting == IF Reading THEN epktcnt - 1 ELSE epktcnt

\* The frames that wait, found from header to header.
Start[i \in 0 .. MaxCount] ==
    IF i = 0 THEN next_packet_ptr ELSE mem[Start[i - 1]].of.next

WaitingFrames == [i \in 1 .. Waiting |-> mem[Start[i - 1]].of]
Intact(f, a) == \A k \in 0 .. f.size - 1 : mem[Byte(a, k)] = [of |-> f, at |-> k]

\* The chip writes over no byte of a frame that has not been read, however
\* frames arrive between the steps of network_receive (network.c:586-659).
UnreadIntact ==
    /\ \A i \in 1 .. Waiting : /\ mem[Start[i - 1]].of # NoFrame
                               /\ Intact(mem[Start[i - 1]].of, Start[i - 1])
    /\ pc = "body" => Intact(frame, erdpt)

\* The packet counter and the chain of headers agree: after as many frames as
\* it counts the program is where the chip writes (network.c:594,603,647).
CountFollowsChain == Start[Waiting] = erxwrpt

\* Once everything is read, all but a byte or two of the ring is free again:
\* reading leaks no space, damaged frames included (network.c:625-647).
SpaceReturned == pc = "idle" /\ epktcnt = 0 => Free >= RingSize - 2

\* The receive side is a queue of frames, each handed over once and in order.
Content(f) == [packet |-> f.packet, ok |-> f.ok]
Pending == LET waiting == [i \in 1 .. Waiting |-> Content(WaitingFrames[i])]
           IN  IF Reading THEN <<Content(frame)>> \o waiting ELSE waiting

Queue == INSTANCE PacketQueue
             WITH queue <- Pending,
                  taken <- IF buffer_in_length THEN buffer_in ELSE NoPacket

ImplementsQueue == Queue!FairSpec

=============================================================================
