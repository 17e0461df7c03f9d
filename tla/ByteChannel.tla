---------------------------- MODULE ByteChannel ----------------------------
(***************************************************************************)
(* What the transmit side of the serial line promises to its caller: a     *)
(* bounded FIFO of bytes feeding a one-byte data register.  Nothing is     *)
(* lost, duplicated or reordered on the way, the producer is held back at  *)
(* the capacity, and every accepted byte is eventually put on the line.    *)
(***************************************************************************)
EXTENDS Naturals, Sequences

CONSTANTS
    Byte,       \* the bytes that may be sent
    NoByte,     \* the data register is empty
    Capacity    \* bytes the queue can hold

VARIABLES
    queue,      \* bytes accepted and not yet handed to the hardware
    udr         \* the data register: a byte, or NoByte

vars == <<queue, udr>>

Init == queue = << >> /\ udr = NoByte

\* A byte is accepted while there is room for it.
Put == /\ Len(queue) < Capacity
       /\ \E b \in Byte : queue' = Append(queue, b)
       /\ udr' = udr

\* The oldest byte moves into the empty data register.
Take == /\ queue # << >>
        /\ udr = NoByte
        /\ udr' = Head(queue)
        /\ queue' = Tail(queue)

\* The hardware moves the data register to the line.
Shift == /\ udr # NoByte
         /\ udr' = NoByte
         /\ UNCHANGED queue

Next == Put \/ Take \/ Shift

Spec == Init /\ [][Next]_vars

FairSpec == Spec /\ WF_vars(Take) /\ WF_vars(Shift)
=============================================================================
