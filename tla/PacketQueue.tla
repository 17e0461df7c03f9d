---------------------------- MODULE PacketQueue ----------------------------
(***************************************************************************)
(* What the receive side of the network driver promises the network loop:  *)
(* frames are handed over in the order they were accepted, each once, and  *)
(* a frame that came in damaged is handed over as no frame at all.         *)
(***************************************************************************)
EXTENDS Sequences

CONSTANTS
    Packet,     \* the contents of a frame
    NoPacket    \* the input buffer holds no frame

VARIABLES
    queue,      \* frames accepted and not handed over, the oldest at the head
    taken       \* the frame in the input buffer, or NoPacket

Frame == [packet : Packet, ok : BOOLEAN]

Init == queue = << >> /\ taken = NoPacket

Accept(f) == queue' = Append(queue, f) /\ UNCHANGED taken

HandOver == /\ queue # << >>
            /\ queue' = Tail(queue)
            /\ taken' = IF Head(queue).ok THEN Head(queue).packet ELSE NoPacket

Clear == taken' = NoPacket /\ UNCHANGED queue

Next == HandOver \/ Clear \/ \E f \in Frame : Accept(f)

Spec == Init /\ [][Next]_<<queue, taken>>

\* Every frame accepted is handed over in the end.
FairSpec == Spec /\ WF_<<queue, taken>>(HandOver)
=============================================================================
