-------------------------- MODULE UsartRingProofs --------------------------
(***************************************************************************)
(* Proofs about UsartRing, for every ring size and every set of bytes.     *)
(***************************************************************************)
EXTENDS UsartRing, SequenceTheorems, TLAPS

\* The inductive invariant: the types, the enabling of the interrupt, and
\* what a call of usart_send in progress knows.
IInv == TypeOK /\ NoLostWakeup /\ SendIntact

\* An index that leaves the ring by at most one lap is brought back by one
\* subtraction: what "% COM_USART_BUFFER_RING_SIZE" does at usart.c:97,105.
LEMMA ModLap ==
    \A a \in 0 .. 2 * Size - 1 : a % Size = IF a < Size THEN a ELSE a - Size
BY SizeAssumption

\* The successor of a slot is a slot, and another one.
LEMMA NextSlot ==
    ASSUME NEW i \in Slots
    PROVE  /\ (i + 1) % Size \in Slots
           /\ (i + 1) % Size = IF i + 1 < Size THEN i + 1 ELSE 0
           /\ (i + 1) % Size # i
<1>1. i + 1 \in 0 .. 2 * Size - 1
  BY SizeAssumption DEF Slots
<1>2. (i + 1) % Size = IF i + 1 < Size THEN i + 1 ELSE i + 1 - Size
  BY <1>1, ModLap, SizeAssumption DEF Slots
<1> QED
  BY <1>2, SizeAssumption DEF Slots

\* The invariant holds at the start, with an empty ring.
LEMMA InitIInv == Init => IInv
<1> SUFFICES ASSUME Init
             PROVE  IInv
  OBVIOUS
<1>1. TypeOK
  <2>1. 0 \in Slots
    BY SizeAssumption DEF Slots
  <2>2. buffer \in [Slots -> Byte]
    BY BlankAssumption DEF Init
  <2> QED
    BY <2>1, <2>2, BlankAssumption DEF Init, TypeOK
<1>2. NoLostWakeup /\ SendIntact
  BY DEF Init, NoLostWakeup, SendIntact
<1> QED
  BY <1>1, <1>2 DEF IInv

\* Every statement of usart_send and every interrupt keeps it.
LEMMA StepIInv == IInv /\ [Next]_vars => IInv'
<1> SUFFICES ASSUME IInv, [Next]_vars
             PROVE  IInv'
  OBVIOUS
<1> USE DEF IInv, TypeOK, NoLostWakeup, SendIntact
<1>1. CASE UsartInit
  BY <1>1 DEF UsartInit
<1>2. ASSUME NEW b \in Byte, Send(b)
      PROVE  IInv'
  BY <1>2, NextSlot DEF Send
<1>3. CASE WaitSlot
  BY <1>3 DEF WaitSlot
<1>4. CASE Store
  BY <1>4 DEF Store
<1>5. CASE Publish
  BY <1>5 DEF Publish
<1>6. CASE Arm
  BY <1>6 DEF Arm
<1>7. CASE UdreEmpty
  BY <1>7 DEF UdreEmpty, Interrupt
<1>8. CASE UdreSend
  \* The tail moves towards the head: it cannot reach the slot after the head
  \* that a call has seen free, because that lies beyond the head.
  <2>1. tail' \in Slots
    BY <1>8, NextSlot DEF UdreSend
  <2>2. pc \in {"store", "publish"} => index # tail'
    <3> SUFFICES ASSUME pc \in {"store", "publish"}
                 PROVE  (head + 1) % Size # (tail + 1) % Size
      BY <1>8 DEF UdreSend
    <3>1. head # tail
      BY <1>8 DEF UdreSend
    <3>2. /\ (head + 1) % Size = IF head + 1 < Size THEN head + 1 ELSE 0
          /\ (tail + 1) % Size = IF tail + 1 < Size THEN tail + 1 ELSE 0
      BY NextSlot
    <3> QED
      BY <3>1, <3>2, SizeAssumption DEF Slots
  <2>3. udr' \in Byte \cup {NoByte}
    BY <1>8 DEF UdreSend
  <2> QED
    BY <1>8, <2>1, <2>2, <2>3 DEF UdreSend, Interrupt
<1>9. CASE Shift
  BY <1>9 DEF Shift
<1>10. CASE UNCHANGED vars
  BY <1>10 DEF vars
<1> QED
  BY <1>1, <1>2, <1>3, <1>4, <1>5, <1>6, <1>7, <1>8, <1>9, <1>10
  DEF Next, Main, InSend, Udre

\* In every reachable state the indices are inside the ring and every
\* variable is in its type (usart.c:89-121).
THEOREM TypeCorrect == Spec => []TypeOK
<1>1. Init => IInv
  BY InitIInv
<1>2. IInv /\ [Next]_vars => IInv'
  BY StepIInv
<1>3. IInv => TypeOK
  BY DEF IInv
<1> QED
  BY <1>1, <1>2, <1>3, PTL DEF Spec

\* A published byte never waits in the ring with the interrupt disabled for
\* good: enabling at usart.c:118 cannot be lost to the disabling at :93.
THEOREM WakeupNotLost == Spec => []NoLostWakeup
<1>1. Init => IInv
  BY InitIInv
<1>2. IInv /\ [Next]_vars => IInv'
  BY StepIInv
<1>3. IInv => NoLostWakeup
  BY DEF IInv
<1> QED
  BY <1>1, <1>2, <1>3, PTL DEF Spec

\* The slot a call of usart_send found free stays free until it is used, and
\* its byte is in place when the head moves past it (usart.c:105-115).
THEOREM SendStaysIntact == Spec => []SendIntact
<1>1. Init => IInv
  BY InitIInv
<1>2. IInv /\ [Next]_vars => IInv'
  BY StepIInv
<1>3. IInv => SendIntact
  BY DEF IInv
<1> QED
  BY <1>1, <1>2, <1>3, PTL DEF Spec

-----------------------------------------------------------------------------
(* The ring implements the channel.  The two definitions give the contents *)
(* of the ring for any indices, so that one lemma serves a state and its   *)
(* successor.                                                              *)

Between(h, t) == IF h >= t THEN h - t ELSE h - t + Size

Slot(t, k) == (t + k - 1) % Size

Content(b, h, t) == [k \in 1 .. Between(h, t) |-> b[Slot(t, k)]]

\* Pending is the content between the indices, before and after a step.
LEMMA PendingIsContent ==
    /\ Pending = Content(buffer, head, tail)
    /\ Pending' = Content(buffer', head', tail')
BY DEF Pending, Used, Content, Between, Slot

\* Where a pending byte lies: one lap at most is subtracted.
LEMMA SlotLap ==
    ASSUME NEW t \in Slots, NEW k \in 1 .. Size
    PROVE  /\ Slot(t, k) = IF t + k - 1 < Size THEN t + k - 1 ELSE t + k - 1 - Size
           /\ Slot(t, k) \in Slots
<1>1. PICK a \in 0 .. 2 * Size - 1 : a = t + k - 1
  BY SizeAssumption DEF Slots
<1>2. a % Size = IF a < Size THEN a ELSE a - Size
  BY ModLap
<1>3. Slot(t, k) = a % Size
  BY <1>1 DEF Slot
<1> QED
  BY <1>1, <1>2, <1>3, SizeAssumption DEF Slots

\* The content is a sequence of bytes as long as the distance of the indices.
LEMMA ContentSeq ==
    ASSUME NEW b \in [Slots -> Byte], NEW h \in Slots, NEW t \in Slots
    PROVE  /\ Between(h, t) \in 0 .. Size - 1
           /\ \A k \in 1 .. Between(h, t) :
                Content(b, h, t)[k] = b[Slot(t, k)]
           /\ Content(b, h, t) \in Seq(Byte)
           /\ Len(Content(b, h, t)) = Between(h, t)
<1>1. Between(h, t) \in 0 .. Size - 1
  BY SizeAssumption DEF Between, Slots
<1>2. ASSUME NEW k \in 1 .. Between(h, t)
      PROVE  Slot(t, k) \in Slots /\ Content(b, h, t)[k] = b[Slot(t, k)]
  BY <1>1, SlotLap, SizeAssumption DEF Content
<1>3. Content(b, h, t) \in [1 .. Between(h, t) -> Byte]
  BY <1>2 DEF Content
<1>4. Content(b, h, t) \in Seq(Byte) /\ Len(Content(b, h, t)) = Between(h, t)
  BY <1>1, <1>3, SizeAssumption
<1> QED
  BY <1>1, <1>2, <1>4

\* The channel starts empty.
LEMMA InitChannel == Init => Channel!Init
<1> SUFFICES ASSUME Init
             PROVE  Channel!Init
  OBVIOUS
<1>1. head = tail /\ head \in Int
  BY DEF Init
<1>2. Used = 0
  BY <1>1 DEF Used
<1>3. Pending = << >>
  BY <1>2 DEF Pending
<1> QED
  BY <1>3 DEF Init, Channel!Init

\* Every step is one of the channel or leaves it alone.
LEMMA StepChannel == IInv /\ [Next]_vars => [Channel!Next]_(Channel!vars)
<1> SUFFICES ASSUME IInv, [Next]_vars
             PROVE  [Channel!Next]_(Channel!vars)
  OBVIOUS
<1> USE DEF IInv, TypeOK
<1>1. ASSUME UNCHANGED <<buffer, head, tail, udr>>
      PROVE  UNCHANGED Channel!vars
  BY <1>1, PendingIsContent DEF Channel!vars
<1>2. CASE UNCHANGED vars
  BY <1>1, <1>2 DEF vars
<1>3. CASE UsartInit
  BY <1>1, <1>3 DEF UsartInit
<1>4. ASSUME NEW b \in Byte, Send(b)
      PROVE  UNCHANGED Channel!vars
  BY <1>1, <1>4 DEF Send
<1>5. CASE WaitSlot
  BY <1>1, <1>5 DEF WaitSlot
<1>6. CASE Arm
  BY <1>1, <1>6 DEF Arm
<1>7. CASE UdreEmpty
  BY <1>1, <1>7 DEF UdreEmpty
<1>8. CASE Shift
  <2>1. Pending' = Pending
    BY <1>8, PendingIsContent DEF Shift
  <2> QED
    BY <1>8, <2>1 DEF Shift, Channel!Next, Channel!Shift
<1>9. CASE Store
  \* The slot at the head is not one of the pending ones.
  <2> USE <1>9 DEF Store
  <2>1. ASSUME NEW k \in 1 .. Between(head, tail)
        PROVE  Slot(tail, k) # head /\ Slot(tail, k) \in Slots
    <3>1. k \in 1 .. Size
      BY SizeAssumption DEF Between, Slots
    <3>2. /\ Slot(tail, k) = IF tail + k - 1 < Size
                               THEN tail + k - 1 ELSE tail + k - 1 - Size
          /\ Slot(tail, k) \in Slots
      BY <3>1, SlotLap
    <3> QED
      BY <3>2, SizeAssumption DEF Between, Slots
  <2>2. Content(buffer', head, tail) = Content(buffer, head, tail)
    BY <2>1, ContentSeq DEF Content
  <2> QED
    BY <2>2, PendingIsContent DEF Channel!vars
<1>10. CASE Publish
  <2> USE <1>10 DEF Publish
  <2> DEFINE P == Content(buffer, head, tail)
             Q == Content(buffer, head', tail)
  <2>1. head' = (head + 1) % Size /\ head' # tail /\ buffer[head] = data
    BY DEF SendIntact
  <2>2. head' \in Slots
    OBVIOUS
  <2>3. head' = IF head + 1 < Size THEN head + 1 ELSE 0
    BY <2>1, NextSlot
  <2>4. Between(head', tail) = Between(head, tail) + 1
    BY <2>1, <2>3, SizeAssumption DEF Between, Slots
  <2>5. P \in Seq(Byte) /\ Len(P) = Between(head, tail)
    BY ContentSeq
  <2>6. Q \in Seq(Byte) /\ Len(Q) = Between(head', tail)
    BY <2>2, ContentSeq
  <2>7. Between(head', tail) \in 0 .. Size - 1
    BY <2>2, ContentSeq
  <2>8. ASSUME NEW k \in 1 .. Len(Q)
        PROVE  Q[k] = Append(P, data)[k]
    <3>1. CASE k = Len(Q)
      <4>1. k \in 1 .. Size
        BY <2>6, <2>7, SizeAssumption
      <4>2. Slot(tail, k) = head
        <5>1. Slot(tail, k) = IF tail + k - 1 < Size
                              THEN tail + k - 1 ELSE tail + k - 1 - Size
          BY <4>1, SlotLap
        <5> QED
          BY <3>1, <5>1, <2>4, <2>6, SizeAssumption DEF Between, Slots
      <4>3. Q[k] = data
        BY <2>1, <2>2, <2>6, <4>2, ContentSeq
      <4> QED
        BY <3>1, <4>3, <2>4, <2>5, <2>6
    <3>2. CASE k # Len(Q)
      <4>1. k \in 1 .. Len(P)
        BY <3>2, <2>4, <2>5, <2>6
      <4>2. /\ buffer \in [Slots -> Byte] /\ head \in Slots /\ tail \in Slots
            /\ k \in 1 .. Between(head', tail) /\ k \in 1 .. Between(head, tail)
        BY <4>1, <2>5, <2>6
      <4>3. Q[k] = buffer[Slot(tail, k)]
        BY <2>2, <4>2, ContentSeq
      <4>4. P[k] = buffer[Slot(tail, k)]
        BY <4>2, ContentSeq
      <4> QED
        BY <4>1, <4>3, <4>4, <2>5
    <3> QED
      BY <3>1, <3>2
  <2>9. Append(P, data) \in Seq(Byte) /\ Len(Append(P, data)) = Len(P) + 1
    BY <2>5
  <2>10. Q = Append(P, data)
    BY <2>4, <2>5, <2>6, <2>8, <2>9, SeqEqual
  <2>11. Len(Pending) < Size - 1
    BY <2>4, <2>5, <2>7, PendingIsContent, SizeAssumption
  <2>12. Pending' = Append(Pending, data)
    BY <2>10, PendingIsContent
  <2> QED
    BY <2>11, <2>12 DEF Channel!Next, Channel!Put
<1>11. CASE UdreSend
  <2> USE <1>11 DEF UdreSend, Interrupt
  <2> DEFINE P == Content(buffer, head, tail)
             Q == Content(buffer, head, tail')
  <2>1. tail' \in Slots /\ tail' = IF tail + 1 < Size THEN tail + 1 ELSE 0
    BY NextSlot
  <2>2. Between(head, tail) = Between(head, tail') + 1
    BY <2>1, SizeAssumption DEF Between, Slots
  <2>3. P \in Seq(Byte) /\ Len(P) = Between(head, tail)
    BY ContentSeq
  <2>4. Q \in Seq(Byte) /\ Len(Q) = Between(head, tail')
    BY <2>1, ContentSeq
  <2>5. Between(head, tail') \in 0 .. Size - 1
    BY <2>1, ContentSeq
  <2>6. P # << >>
    BY <2>2, <2>3, <2>5, EmptySeq
  <2>7. Head(P) = buffer[tail]
    <3>1. 1 \in 1 .. Between(head, tail)
      BY <2>2, <2>5, SizeAssumption
    <3>2. P[1] = buffer[Slot(tail, 1)]
      BY <3>1, ContentSeq
    <3>3. Slot(tail, 1) = tail
      <4>1. 1 \in 1 .. Size
        BY SizeAssumption
      <4>2. Slot(tail, 1) = IF tail + 1 - 1 < Size
                            THEN tail + 1 - 1 ELSE tail + 1 - 1 - Size
        BY <4>1, SlotLap
      <4> QED
        BY <4>2, SizeAssumption DEF Slots
    <3> QED
      BY <3>2, <3>3, <2>3, <2>6
  <2>8. ASSUME NEW k \in 1 .. Len(Q)
        PROVE  Q[k] = Tail(P)[k]
    <3>1. k \in 1 .. Between(head, tail') /\ k + 1 \in 1 .. Between(head, tail)
      BY <2>2, <2>4, <2>5
    <3>2. Q[k] = buffer[Slot(tail', k)]
      BY <2>1, <3>1, ContentSeq
    <3>3. P[k + 1] = buffer[Slot(tail, k + 1)]
      BY <3>1, ContentSeq
    <3>4. k \in 1 .. Size /\ k + 1 \in 1 .. Size
      BY <3>1, <2>5, SizeAssumption DEF Between, Slots
    <3>5. /\ Slot(tail', k) = IF tail' + k - 1 < Size
                              THEN tail' + k - 1 ELSE tail' + k - 1 - Size
          /\ Slot(tail, k + 1) = IF tail + (k + 1) - 1 < Size
                                 THEN tail + (k + 1) - 1
                                 ELSE tail + (k + 1) - 1 - Size
      BY <2>1, <3>4, SlotLap
    <3>6. Slot(tail', k) = Slot(tail, k + 1)
      BY <2>1, <3>4, <3>5, SizeAssumption DEF Slots
    <3>7. Tail(P)[k] = P[k + 1]
      BY <2>2, <2>3, <2>4, <2>6, HeadTailProperties
    <3> QED
      BY <3>2, <3>3, <3>6, <3>7
  <2>9. Tail(P) \in Seq(Byte) /\ Len(Tail(P)) = Len(P) - 1
    BY <2>3, <2>6, HeadTailProperties
  <2>10. Len(Q) = Len(Tail(P))
    BY <2>2, <2>3, <2>4, <2>5, <2>9
  <2>11. Q = Tail(P)
    BY <2>4, <2>8, <2>9, <2>10, SeqEqual
  <2> QED
    BY <2>6, <2>7, <2>11, PendingIsContent DEF Channel!Next, Channel!Take
<1> QED
  BY <1>2, <1>3, <1>4, <1>5, <1>6, <1>7, <1>8, <1>9, <1>10, <1>11
  DEF Next, Main, InSend, Udre

\* Whatever the interleaving of usart_send and the interrupt, the ring is a
\* FIFO of at most Size - 1 bytes: nothing is lost, repeated, reordered or
\* overwritten (usart.c:89-121).
THEOREM RingImplementsChannel == Spec => ImplementsChannel
<1>1. Init => Channel!Init
  BY InitChannel
<1>2. Init => IInv
  BY InitIInv
<1>3. IInv /\ [Next]_vars => IInv'
  BY StepIInv
<1>4. IInv /\ [Next]_vars => [Channel!Next]_(Channel!vars)
  BY StepChannel
<1> QED
  BY <1>1, <1>2, <1>3, <1>4, PTL DEF Spec, ImplementsChannel, Channel!Spec
=============================================================================
