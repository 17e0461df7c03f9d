----------------------------- MODULE UsartRing -----------------------------
(***************************************************************************)
(* The transmit ring of the USART driver (com/usart.c).  The main program  *)
(* is the only producer (usart_send), the data-register-empty interrupt    *)
(* the only consumer.  head and tail are single bytes, so each access to   *)
(* them is atomic; the interrupt may come between any two statements of    *)
(* usart_send and runs to its end.                                         *)
(***************************************************************************)
EXTENDS Integers, Sequences

CONSTANTS
    Byte,       \* the bytes that may be sent
    NoByte,     \* the data register is empty
    Blank,      \* the byte the ring is initialised with (0 in the code)
    Size        \* COM_USART_BUFFER_RING_SIZE

ASSUME NoByteAssumption == NoByte \notin Byte
ASSUME BlankAssumption == Blank \in Byte
\* Indices are uint8_t, and a ring of one slot could hold nothing.
ASSUME SizeAssumption == Size \in 2 .. 256

VARIABLES
    buffer,     \* com_usart_tx_buffer_ring.buffer
    head,       \* com_usart_tx_buffer_ring.head, written by usart_send only
    tail,       \* com_usart_tx_buffer_ring.tail, written by the interrupt only
    udrie,      \* UDRIE0 of UCSR0B: the interrupt is enabled
    pc,         \* where the main program is inside usart_send
    index,      \* the local of usart_send
    data,       \* the parameter of usart_send
    udr         \* UDR0: a byte waiting for the shift register, or NoByte

vars == <<buffer, head, tail, udrie, pc, index, data, udr>>

Slots == 0 .. Size - 1

Init == /\ buffer = [i \in Slots |-> Blank]
        /\ head = 0
        /\ tail = 0
        /\ udrie = FALSE
        /\ pc = "off"
        /\ index = 0
        /\ data = Blank
        /\ udr = NoByte

\* usart_init: enabling transmission also enables the interrupt.
UsartInit == /\ pc = "off"
             /\ pc' = "idle"
             /\ udrie' = TRUE
             /\ UNCHANGED <<buffer, head, tail, index, data, udr>>

-----------------------------------------------------------------------------
(* usart_send, one action per statement the interrupt can come between.    *)

Send_NoWrap(b) == /\ pc = "idle"
                  /\ pc' = "wait"
                  /\ data' = b
                  /\ index' = head + 1
                  /\ UNCHANGED <<buffer, head, tail, udrie, udr>>

\* The call: the slot after the head is computed once.
Send(b) == /\ pc = "idle"
           /\ pc' = "wait"
           /\ data' = b
           /\ index' = (head + 1) % Size
           /\ UNCHANGED <<buffer, head, tail, udrie, udr>>

WaitSlot_Unchecked == /\ pc = "wait"
                      /\ pc' = "store"
                      /\ UNCHANGED <<buffer, head, tail, udrie, index, data, udr>>

\* The busy wait ends once the interrupt has freed a slot.
WaitSlot == /\ pc = "wait"
            /\ index # tail
            /\ pc' = "store"
            /\ UNCHANGED <<buffer, head, tail, udrie, index, data, udr>>

\* The byte is written to the slot the head names.
Store == /\ pc = "store"
         /\ pc' = "publish"
         /\ buffer' = [buffer EXCEPT ![head] = data]
         /\ UNCHANGED <<head, tail, udrie, index, data, udr>>

\* The head moves past the byte: from here the interrupt sees it.
Publish == /\ pc = "publish"
           /\ pc' = "arm"
           /\ head' = index
           /\ UNCHANGED <<buffer, tail, udrie, index, data, udr>>

Arm_Forgotten == /\ pc = "arm"
                 /\ pc' = "idle"
                 /\ UNCHANGED <<buffer, head, tail, udrie, index, data, udr>>

\* UCSR0B |= UDRIE0.  The statement reads, modifies and writes the register;
\* whatever an interrupt in between does to UDRIE0, the write leaves it set.
Arm == /\ pc = "arm"
       /\ pc' = "idle"
       /\ udrie' = TRUE
       /\ UNCHANGED <<buffer, head, tail, index, data, udr>>

-----------------------------------------------------------------------------
(* ISR(USART0_UDRE_vect), pending while the data register is empty.        *)

Interrupt == udrie /\ udr = NoByte

UdreEmpty_Eager == /\ Interrupt
                   /\ (tail + 1) % Size = head \/ head = tail
                   /\ udrie' = FALSE
                   /\ UNCHANGED <<buffer, head, tail, pc, index, data, udr>>

\* Nothing to send: the interrupt disables itself.
UdreEmpty == /\ Interrupt
             /\ head = tail
             /\ udrie' = FALSE
             /\ UNCHANGED <<buffer, head, tail, pc, index, data, udr>>

UdreSend_SkipsSlot == /\ Interrupt
                      /\ head # tail
                      /\ udr' = buffer[(tail + 1) % Size]
                      /\ tail' = (tail + 1) % Size
                      /\ UNCHANGED <<buffer, head, udrie, pc, index, data>>

\* The byte at the tail goes to the data register.
UdreSend == /\ Interrupt
            /\ head # tail
            /\ udr' = buffer[tail]
            /\ tail' = (tail + 1) % Size
            /\ UNCHANGED <<buffer, head, udrie, pc, index, data>>

\* The hardware moves the data register into the shift register.
Shift == /\ udr # NoByte
         /\ udr' = NoByte
         /\ UNCHANGED <<buffer, head, tail, udrie, pc, index, data>>

-----------------------------------------------------------------------------

InSend == WaitSlot \/ Store \/ Publish \/ Arm

Main == UsartInit \/ InSend \/ \E b \in Byte : Send(b)

Udre == UdreEmpty \/ UdreSend

Next == Main \/ Udre \/ Shift

Spec == Init /\ [][Next]_vars

\* A call of usart_send that has begun keeps executing, an enabled interrupt
\* is taken, and the transmitter drains its register.  Nothing obliges the
\* program to send.
FairSpec == /\ Spec
            /\ WF_vars(InSend)
            /\ WF_vars(Udre)
            /\ WF_vars(Shift)

-----------------------------------------------------------------------------
(* The bytes published and not yet taken by the interrupt, oldest first.   *)

Used == IF head >= tail THEN head - tail ELSE head - tail + Size

Pending == [k \in 1 .. Used |-> buffer[(tail + k - 1) % Size]]

\* Every variable stays in its type; in particular the indices never leave
\* the ring (usart.c:97,105,115).
TypeOK == /\ buffer \in [Slots -> Byte]
          /\ head \in Slots
          /\ tail \in Slots
          /\ udrie \in BOOLEAN
          /\ pc \in {"off", "idle", "wait", "store", "publish", "arm"}
          /\ index \in Slots
          /\ data \in Byte
          /\ udr \in Byte \cup {NoByte}

\* No lost wakeup: whenever a published byte is in the ring, the interrupt is
\* enabled, or the call that published the byte is about to enable it
\* (usart.c:93 against :118).  The busy wait of :109 relies on it.
NoLostWakeup == head # tail => udrie \/ pc = "arm"

\* What usart_send knows between its statements although the interrupt moves
\* the tail meanwhile: the slot after the head stays free once seen free, and
\* the slot at the head still holds the byte when the head moves past it.
SendIntact == /\ pc \in {"wait", "store", "publish"} => index = (head + 1) % Size
              /\ pc \in {"store", "publish"} => index # tail
              /\ pc = "publish" => buffer[head] = data
              /\ pc = "off" => head = tail

\* The ring implements the bounded FIFO: published bytes leave in order, once
\* each, and the ring never holds more than Size - 1 of them (usart.c:89-121).
Channel == INSTANCE ByteChannel WITH queue <- Pending, Capacity <- Size - 1

ImplementsChannel == Channel!Spec

\* ... and every published byte eventually reaches the line.
ImplementsFairChannel == Channel!FairSpec

\* usart_send always returns, also when it has to wait for a slot in a full
\* ring (usart.c:107-111).
SendReturns == pc = "wait" ~> pc = "idle"
=============================================================================
