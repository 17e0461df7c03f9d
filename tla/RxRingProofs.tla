---------------------------- MODULE RxRingProofs ----------------------------
(***************************************************************************)
(* Proofs about RxRing, for every size of the ring, every set of frame     *)
(* sizes and every limit of the packet counter, as long as no frame ends   *)
(* at the last byte of the ring.                                           *)
(***************************************************************************)
EXTENDS RxRing, WellFoundedInduction, SequenceTheorems, TLAPS

-----------------------------------------------------------------------------
(* Addresses.                                                              *)

LEMMA RingFacts ==
    /\ RingSize \in Nat /\ RingSize >= 2 /\ Ring = 0 .. RingSize - 1
    /\ PtrSpace \in Nat /\ PtrSpace > RingSize
    /\ \A n \in Sizes : n \in 2 .. RingSize - 1
<1>1. RXSTOP_INIT # 0
  BY StopAssumption
<1> QED
  BY <1>1, StopAssumption, SizesAssumption, PtrAssumption DEF RingSize, Ring

\* A remainder of a number that is not far away from the ring.
LEMMA ModIs ==
    ASSUME NEW x \in Int, -RingSize <= x, x < 2 * RingSize
    PROVE  x % RingSize = IF x < 0 THEN x + RingSize
                          ELSE IF x < RingSize THEN x ELSE x - RingSize
<1> DEFINE R == RingSize
<1>1. R \in Nat /\ R > 0
  BY RingFacts
<1> HIDE DEF R
<1>2. -R <= x /\ x < 2 * R
  BY DEF R
<1>3. x % R = IF x < 0 THEN x + R ELSE IF x < R THEN x ELSE x - R
  BY <1>1, <1>2
<1> QED
  BY <1>3 DEF R

\* A byte of the ring, counted from an address.
LEMMA ByteIs ==
    ASSUME NEW b \in Ring, NEW x \in 0 .. RingSize - 1
    PROVE  /\ Byte(b, x) = IF b + x < RingSize THEN b + x ELSE b + x - RingSize
           /\ Byte(b, x) \in Ring
<1> DEFINE c == b + x
<1>1. c \in Int /\ -RingSize <= c /\ c < 2 * RingSize /\ 0 <= c
  BY RingFacts
<1>2. Byte(b, x) = IF b + x < RingSize THEN b + x ELSE b + x - RingSize
  <2>1. Byte(b, x) = c % RingSize
    BY DEF Byte
  <2> HIDE DEF c
  <2>2. c % RingSize = IF c < RingSize THEN c ELSE c - RingSize
    BY <1>1, ModIs
  <2> QED
    BY <1>1, <2>1, <2>2, RingFacts DEF c
<1> QED
  BY <1>1, <1>2, RingFacts

\* Going on from a byte.
LEMMA ByteByte ==
    ASSUME NEW b \in Ring, NEW x \in Nat, NEW y \in Nat, x + y <= RingSize - 1
    PROVE  Byte(Byte(b, x), y) = Byte(b, x + y) /\ Byte(b, x) \in Ring
<1>1. x \in 0 .. RingSize - 1 /\ y \in 0 .. RingSize - 1 /\ x + y \in 0 .. RingSize - 1
  BY RingFacts
<1>2. Byte(b, x) = (IF b + x < RingSize THEN b + x ELSE b + x - RingSize)
      /\ Byte(b, x) \in Ring
  BY <1>1, ByteIs
<1> DEFINE a == Byte(b, x)
<1> HIDE DEF a
<1>3. Byte(a, y) = IF a + y < RingSize THEN a + y ELSE a + y - RingSize
  BY <1>1, <1>2, ByteIs DEF a
<1>4. Byte(b, x + y) = IF b + (x + y) < RingSize THEN b + (x + y) ELSE b + (x + y) - RingSize
  BY <1>1, ByteIs
<1> QED
  BY <1>1, <1>2, <1>3, <1>4, RingFacts DEF a

\* How far a byte of the ring is behind another.
LEMMA RingDifference ==
    ASSUME NEW a \in Ring, NEW w \in Ring
    PROVE  (a - w) % RingSize = IF a < w THEN a - w + RingSize ELSE a - w
<1> DEFINE d == a - w
<1>1. d \in Int /\ -RingSize <= d /\ d < RingSize /\ d < 2 * RingSize /\ (d < 0 <=> a < w)
  BY RingFacts
<1> HIDE DEF d
<1>2. d % RingSize = IF d < 0 THEN d + RingSize ELSE d
  BY <1>1, ModIs
<1> QED
  BY <1>1, <1>2 DEF d

\* A byte ahead of the x-th behind b, and one before it.
LEMMA Ahead ==
    ASSUME NEW b \in Ring, NEW x \in 0 .. RingSize - 1, NEW y \in 0 .. RingSize - 1, y >= x
    PROVE  (Byte(b, y) - Byte(b, x)) % RingSize = y - x
<1>1. /\ Byte(b, x) = IF b + x < RingSize THEN b + x ELSE b + x - RingSize
      /\ Byte(b, y) = IF b + y < RingSize THEN b + y ELSE b + y - RingSize
      /\ Byte(b, x) \in Ring /\ Byte(b, y) \in Ring
  BY ByteIs
<1>2. (Byte(b, y) - Byte(b, x)) % RingSize =
          IF Byte(b, y) < Byte(b, x) THEN Byte(b, y) - Byte(b, x) + RingSize
                                     ELSE Byte(b, y) - Byte(b, x)
  BY <1>1, RingDifference
<1> QED
  BY <1>1, <1>2, RingFacts

LEMMA Behind ==
    ASSUME NEW b \in Ring, NEW x \in 0 .. RingSize - 1, NEW y \in 0 .. RingSize - 1, y < x
    PROVE  (Byte(b, y) - Byte(b, x)) % RingSize = y - x + RingSize
<1>1. /\ Byte(b, x) = IF b + x < RingSize THEN b + x ELSE b + x - RingSize
      /\ Byte(b, y) = IF b + y < RingSize THEN b + y ELSE b + y - RingSize
      /\ Byte(b, x) \in Ring /\ Byte(b, y) \in Ring
  BY ByteIs
<1>2. (Byte(b, y) - Byte(b, x)) % RingSize =
          IF Byte(b, y) < Byte(b, x) THEN Byte(b, y) - Byte(b, x) + RingSize
                                     ELSE Byte(b, y) - Byte(b, x)
  BY <1>1, RingDifference
<1> QED
  BY <1>1, <1>2, RingFacts

-----------------------------------------------------------------------------
(* The waiting frames.                                                     *)

\* The address from which the chip may not write, and how many bytes behind it
\* the first waiting frame starts: the frame being read is kept until ERXRDPT
\* has moved.
Held == pc \in {"body", "free"}
Base == IF Held THEN erdpt ELSE next_packet_ptr
Kept == IF Held THEN frame.size ELSE 0

\* In the memory m, the bytes from x to y behind b are a frame, and its header
\* points to the byte after it.
IntactIn(m, f, a) == \A k \in 0 .. f.size - 1 : m[Byte(a, k)] = [of |-> f, at |-> k]
Link(m, b, x, y) ==
    LET f == m[Byte(b, x)].of
    IN  /\ f \in Frame
        /\ y = x + f.size
        /\ f.next = Byte(b, y)
        /\ f.next # 0
        /\ IntactIn(m, f, Byte(b, x))

\* The i-th waiting frame ends off[i] bytes behind Base, and the next begins
\* there, the last before the address at which the chip writes; between that
\* and ERXRDPT a byte stays free.
Laid(off) ==
    /\ off \in [0 .. Waiting -> 0 .. RingSize - 1]
    /\ off[0] = Kept
    /\ next_packet_ptr = Byte(Base, off[0])
    /\ erxwrpt = Byte(Base, off[Waiting])
    /\ erxrdpt # Base => off[Waiting] <= RingSize - 2
    /\ \A i \in 1 .. Waiting : Link(mem, Base, off[i - 1], off[i])

IInv ==
    /\ TypeOK
    /\ pc # "idle" => epktcnt > 0 /\ ~buffer_in_length
    /\ pc \in {"free", "dec"} /\ frame.ok => buffer_in = frame.packet
    /\ Held => /\ frame \in Frame /\ frame.next = next_packet_ptr /\ frame.next # 0
               /\ Intact(frame, erdpt)
    /\ pc = "dec" => frame \in Frame
    /\ erxrdpt = Base \/ erxrdpt = Byte(Base, RingSize - 1)
    /\ \E off : Laid(off)

LEMMA WaitingCount ==
    ASSUME IInv
    PROVE  Waiting \in Nat /\ Waiting <= MaxCount /\ Waiting <= epktcnt /\ epktcnt \in Nat
BY CountAssumption DEF IInv, TypeOK, Waiting, Reading

LEMMA BaseIs == IInv => Base \in Ring
BY DEF IInv, TypeOK, Base

\* The space the chip may write to ends before what is not read.
LEMMA FreeIs ==
    ASSUME IInv, NEW off, Laid(off)
    PROVE  /\ Free = IF erxrdpt = Base THEN RingSize - 1 - off[Waiting]
                                       ELSE RingSize - 2 - off[Waiting]
           /\ Free \in Nat
<1> DEFINE n == off[Waiting]
<1>1. n \in 0 .. RingSize - 1 /\ Base \in Ring /\ erxrdpt \in Ring
  <2>1. off \in [0 .. Waiting -> 0 .. RingSize - 1] /\ Waiting \in 0 .. Waiting
    BY WaitingCount DEF Laid
  <2>2. erxrdpt \in Ring
    BY DEF IInv, TypeOK
  <2> QED
    BY <2>1, <2>2, BaseIs
<1>2. erxwrpt = (IF Base + n < RingSize THEN Base + n ELSE Base + n - RingSize) /\ erxwrpt \in Ring
  BY <1>1, ByteIs DEF Laid
<1>3. erxrdpt # Base => n <= RingSize - 2
  BY DEF Laid
<1> HIDE DEF n
<1>4. erxrdpt # Base => erxrdpt = IF Base = 0 THEN RingSize - 1 ELSE Base - 1
  <2>1. Byte(Base, RingSize - 1) = IF Base + (RingSize - 1) < RingSize
                                     THEN Base + (RingSize - 1) ELSE Base + (RingSize - 1) - RingSize
    <3>1. RingSize - 1 \in 0 .. RingSize - 1
      BY RingFacts
    <3> QED
      BY <1>1, <3>1, ByteIs
  <2>2. erxrdpt = Base \/ erxrdpt = Byte(Base, RingSize - 1)
    BY DEF IInv
  <2> QED
    BY <1>1, <2>1, <2>2, RingFacts
<1>5. Free = IF erxrdpt - erxwrpt - 1 < 0 THEN erxrdpt - erxwrpt - 1 + RingSize
                                         ELSE erxrdpt - erxwrpt - 1
  <2>1. /\ erxrdpt - erxwrpt - 1 \in Int /\ -RingSize <= erxrdpt - erxwrpt - 1
        /\ erxrdpt - erxwrpt - 1 < RingSize
    BY <1>1, <1>2, RingFacts
  <2> QED
    BY <1>1, <2>1, ModIs, RingFacts DEF Free
<1>6. erxrdpt = Base => Free = RingSize - 1 - n
  BY <1>1, <1>2, <1>5, RingFacts
<1>7. erxrdpt # Base => Free = RingSize - 2 - n
  BY <1>1, <1>2, <1>3, <1>4, <1>5, RingFacts
<1>8. RingSize - 1 - n \in Nat /\ (erxrdpt # Base => RingSize - 2 - n \in Nat)
  BY <1>1, <1>3, RingFacts
<1> QED
  BY <1>6, <1>7, <1>8 DEF n

-----------------------------------------------------------------------------
(* From header to header.                                                  *)

\* A non-empty set of natural numbers has a least element: induction, on sets.
LEMMA Least ==
    ASSUME NEW S, S \subseteq Nat, S # {}
    PROVE  \E i \in S : \A j \in S : ~ (j < i)
<1> DEFINE R == {r \in Nat \X Nat : r[1] < r[2]}
<1>1. IsWellFoundedOn(R, Nat)
  BY NatLessThanWellFounded, Zenon DEF OpToRel
<1>2. \A i, j \in Nat : j < i => <<j, i>> \in R
  OBVIOUS
<1>3. PICK i \in S : \A j \in S : ~ (<<j, i>> \in R)
  <2> HIDE DEF R
  <2> QED
    BY <1>1, WFMin
<1> QED
  BY <1>2, <1>3

\* A chain of any length can be followed.
LEMMA ChainExists ==
    ASSUME NEW h \in [Ring -> Ring], NEW a \in Ring, NEW n \in Nat
    PROVE  \E g \in [0 .. n -> Ring] :
               g = [i \in 0 .. n |-> IF i = 0 THEN a ELSE h[g[i - 1]]]
<1> DEFINE Chain(g, m) == /\ g \in [0 .. m -> Ring]
                          /\ g = [i \in 0 .. m |-> IF i = 0 THEN a ELSE h[g[i - 1]]]
           S == {m \in Nat : ~ \E g : Chain(g, m)}
<1>1. S = {}
  <2>1. SUFFICES ASSUME S # {} PROVE FALSE
    OBVIOUS
  <2>2. PICK m \in S : \A j \in S : ~ (j < m)
    BY <2>1, Least
  <2>3. m # 0
    <3>1. Chain([i \in 0 .. 0 |-> a], 0)
      OBVIOUS
    <3> QED
      BY <2>2, <3>1
  <2>4. m \in Nat /\ m - 1 \in Nat /\ m - 1 \notin S
    BY <2>2, <2>3
  <2>5. PICK g : Chain(g, m - 1)
    BY <2>4
  <2> DEFINE k == [i \in 0 .. m |-> IF i = m THEN h[g[m - 1]] ELSE g[i]]
  <2>6. g \in [0 .. m - 1 -> Ring] /\ g[m - 1] \in Ring
    <3>1. g \in [0 .. m - 1 -> Ring]
      BY <2>5
    <3>2. m - 1 \in 0 .. m - 1
      BY <2>4
    <3> QED
      BY <3>1, <3>2
  <2>7. k \in [0 .. m -> Ring]
    BY <2>4, <2>6
  <2>8. \A i \in 0 .. m : k[i] = IF i = 0 THEN a ELSE h[k[i - 1]]
    <3> SUFFICES ASSUME NEW i \in 0 .. m
                 PROVE  k[i] = IF i = 0 THEN a ELSE h[k[i - 1]]
      OBVIOUS
    <3>1. CASE i = m
      <4>1. k[m] = h[g[m - 1]] /\ k[m - 1] = g[m - 1]
        BY <2>4
      <4> QED
        BY <2>3, <3>1, <4>1
    <3>2. CASE i # m /\ i # 0
      <4>1. i \in 0 .. m - 1 /\ i - 1 \in 0 .. m - 1
        BY <2>4, <3>2
      <4>2. g[i] = h[g[i - 1]]
        BY <2>5, <3>2, <4>1
      <4>3. k[i] = g[i] /\ k[i - 1] = g[i - 1]
        BY <2>4, <3>2, <4>1
      <4> QED
        BY <3>2, <4>2, <4>3
    <3>3. CASE i # m /\ i = 0
      <4>1. 0 \in 0 .. m - 1 /\ g[0] = a
        BY <2>4, <2>5
      <4> QED
        BY <2>4, <3>3, <4>1
    <3> QED
      BY <3>1, <3>2, <3>3
  <2>9. k = [i \in 0 .. m |-> IF i = 0 THEN a ELSE h[k[i - 1]]]
    BY <2>7, <2>8
  <2> QED
    BY <2>2, <2>7, <2>9
<1> QED
  BY <1>1

\* The definition of Start is one that a function meets.
LEMMA StartIs ==
    ASSUME TypeOK
    PROVE  /\ Start[0] = next_packet_ptr
           /\ \A i \in 1 .. MaxCount : Start[i] = mem[Start[i - 1]].of.next
<1> DEFINE h == [a \in Ring |-> mem[a].of.next]
<1>1. h \in [Ring -> Ring]
  <2>1. \A a \in Ring : mem[a].of \in Frame \cup {NoFrame}
    BY DEF TypeOK
  <2>2. \A f \in Frame \cup {NoFrame} : f.next \in Ring
    BY RingFacts DEF Frame, NoFrame
  <2> QED
    BY <2>1, <2>2
<1>2. next_packet_ptr \in Ring /\ MaxCount \in Nat
  BY CountAssumption DEF TypeOK
<1>3. PICK g \in [0 .. MaxCount -> Ring] :
          g = [i \in 0 .. MaxCount |-> IF i = 0 THEN next_packet_ptr ELSE h[g[i - 1]]]
  <2> HIDE DEF h
  <2> QED
    BY <1>1, <1>2, ChainExists
<1>4. \A i \in 1 .. MaxCount : i - 1 \in 0 .. MaxCount
  BY <1>2
<1>5. g = [i \in 0 .. MaxCount |-> IF i = 0 THEN next_packet_ptr ELSE mem[g[i - 1]].of.next]
  <2>1. \A i \in 0 .. MaxCount : i = 0 \/ i - 1 \in 0 .. MaxCount
    BY <1>2
  <2>2. \A i \in 0 .. MaxCount : i = 0 \/ h[g[i - 1]] = mem[g[i - 1]].of.next
    BY <1>3, <2>1
  <2> QED
    BY <1>3, <2>2
<1>6. Start = [i \in 0 .. MaxCount |-> IF i = 0 THEN next_packet_ptr ELSE mem[Start[i - 1]].of.next]
  BY <1>5, Zenon DEF Start
<1> HIDE DEF h
<1>7. 0 \in 0 .. MaxCount /\ 1 .. MaxCount \subseteq 0 .. MaxCount /\ 0 \notin 1 .. MaxCount
  BY <1>2
<1> QED
  BY <1>6, <1>7

\* It finds the waiting frames where they are laid.
LEMMA StartsLaid ==
    \A off : IInv /\ Laid(off) => \A i \in 0 .. Waiting : Start[i] = Byte(Base, off[i])
<1> SUFFICES ASSUME IInv, NEW off, Laid(off)
             PROVE  \A i \in 0 .. Waiting : Start[i] = Byte(Base, off[i])
  OBVIOUS
<1> DEFINE S == {i \in 0 .. Waiting : Start[i] # Byte(Base, off[i])}
<1>0. Waiting \in Nat /\ Waiting <= MaxCount /\ MaxCount \in Nat /\ TypeOK
  BY WaitingCount, CountAssumption DEF IInv
<1>1. S = {}
  <2>1. SUFFICES ASSUME S # {} PROVE FALSE
    OBVIOUS
  <2>2. PICK i \in S : \A j \in S : ~ (j < i)
    <3>1. S \subseteq Nat
      BY <1>0
    <3> HIDE DEF S
    <3> QED
      BY <2>1, <3>1, Least
  <2>3. i # 0
    BY <1>0, <2>2, StartIs DEF Laid
  <2>4. i \in 1 .. Waiting /\ i - 1 \in 0 .. Waiting /\ i \in 1 .. MaxCount /\ i - 1 < i
    BY <1>0, <2>2, <2>3
  <2>5. Start[i - 1] = Byte(Base, off[i - 1])
    BY <2>2, <2>4
  <2>6. Start[i] = mem[Byte(Base, off[i - 1])].of.next
    BY <1>0, <2>4, <2>5, StartIs
  <2>7. Link(mem, Base, off[i - 1], off[i])
    BY <2>4 DEF Laid
  <2> QED
    BY <2>2, <2>6, <2>7 DEF Link
<1> QED
  BY <1>1

LEMMA StartsLaidNext ==
    \A off : IInv' /\ Laid(off)' => (\A i \in 0 .. Waiting : Start[i] = Byte(Base, off[i]))'
<1>1. (\A off : IInv /\ Laid(off) => \A i \in 0 .. Waiting : Start[i] = Byte(Base, off[i]))'
  BY StartsLaid, PTL
<1> QED
  BY <1>1

\* The properties, from the invariant.
LEMMA PropertiesHold ==
    ASSUME IInv
    PROVE  UnreadIntact /\ CountFollowsChain /\ SpaceReturned
<1>1. PICK off : Laid(off)
  BY DEF IInv
<1>2. Waiting \in Nat /\ Waiting \in 0 .. Waiting
  BY WaitingCount
<1>3. UnreadIntact
  <2>1. ASSUME NEW i \in 1 .. Waiting
        PROVE  mem[Start[i - 1]].of # NoFrame /\ Intact(mem[Start[i - 1]].of, Start[i - 1])
    <3>1. i - 1 \in 0 .. Waiting /\ Link(mem, Base, off[i - 1], off[i])
      BY <1>1, <1>2 DEF Laid
    <3>2. Start[i - 1] = Byte(Base, off[i - 1])
      BY <1>1, <3>1, StartsLaid
    <3>3. NoFrame \notin Frame
      BY PacketAssumption DEF NoFrame, Frame
    <3> QED
      BY <3>1, <3>2, <3>3 DEF Link, IntactIn, Intact
  <2>2. pc = "body" => Intact(frame, erdpt)
    BY DEF IInv, Held
  <2> QED
    BY <2>1, <2>2 DEF UnreadIntact
<1>4. CountFollowsChain
  BY <1>1, <1>2, StartsLaid DEF Laid, CountFollowsChain
<1>5. SpaceReturned
  <2> SUFFICES ASSUME pc = "idle", epktcnt = 0 PROVE Free >= RingSize - 2
    BY DEF SpaceReturned
  <2>1. Waiting = 0 /\ Kept = 0
    BY DEF Waiting, Reading, Kept, Held
  <2>2. off[Waiting] = 0
    BY <1>1, <2>1 DEF Laid
  <2> QED
    BY <1>1, <2>2, FreeIs, RingFacts
<1> QED
  BY <1>3, <1>4, <1>5

-----------------------------------------------------------------------------
(* The invariant.                                                          *)

\* A frame of the chain, with its distances.
LEMMA LinkBounds ==
    ASSUME NEW m, NEW b, NEW x \in 0 .. RingSize - 1, NEW y \in 0 .. RingSize - 1, Link(m, b, x, y)
    PROVE  y >= x + 2 /\ m[Byte(b, x)].of.size \in 2 .. RingSize - 1
BY RingFacts DEF Link, Frame

\* Each frame is behind the one before it.
LEMMA OffsetsGrow ==
    ASSUME IInv, NEW off, Laid(off), NEW k \in 0 .. Waiting
    PROVE  \A i \in k .. Waiting : off[i] >= off[k]
<1> DEFINE S == {i \in k .. Waiting : ~ (off[i] >= off[k])}
<1>0. Waiting \in Nat /\ off \in [0 .. Waiting -> 0 .. RingSize - 1] /\ k \in Nat
  BY WaitingCount DEF Laid
<1>1. S = {}
  <2>1. SUFFICES ASSUME S # {} PROVE FALSE
    OBVIOUS
  <2>2. PICK i \in S : \A j \in S : ~ (j < i)
    <3>1. S \subseteq Nat
      BY <1>0
    <3> HIDE DEF S
    <3> QED
      BY <2>1, <3>1, Least
  <2>3. i # k
    BY <1>0, <2>2, RingFacts
  <2>4. i \in 1 .. Waiting /\ i - 1 \in k .. Waiting /\ i - 1 \in 0 .. Waiting
        /\ i \in 0 .. Waiting /\ i - 1 < i
    BY <1>0, <2>2, <2>3
  <2>5. off[i - 1] >= off[k]
    BY <2>2, <2>4
  <2> DEFINE x == off[i - 1]
             y == off[i]
             z == off[k]
  <2>6. /\ x \in 0 .. RingSize - 1 /\ y \in 0 .. RingSize - 1 /\ z \in 0 .. RingSize - 1
        /\ x >= z /\ ~ (y >= z) /\ Link(mem, Base, x, y)
    BY <1>0, <2>2, <2>4, <2>5 DEF Laid
  <2> HIDE DEF x, y, z
  <2>7. y >= x + 2
    BY <2>6, LinkBounds
  <2> QED
    BY <2>6, <2>7, RingFacts
<1> QED
  BY <1>1

\* The frames stay where they are when the base moves up to one of them.
LEMMA LinkMoves ==
    ASSUME NEW m, NEW b \in Ring, NEW s \in Nat,
           NEW x \in 0 .. RingSize - 1, NEW y \in 0 .. RingSize - 1,
           s <= x, x <= y, Link(m, b, x, y)
    PROVE  Link(m, Byte(b, s), x - s, y - s)
<1>1. x - s \in Nat /\ y - s \in Nat /\ s + (x - s) = x /\ s + (y - s) = y
  BY RingFacts
<1>2. s + (x - s) <= RingSize - 1 /\ s + (y - s) <= RingSize - 1
  BY <1>1, RingFacts
<1>3. Byte(Byte(b, s), x - s) = Byte(b, x) /\ Byte(Byte(b, s), y - s) = Byte(b, y)
  BY <1>1, <1>2, ByteByte
<1>4. \A n \in Sizes : y = x + n => y - s = x - s + n
  BY RingFacts
<1> QED
  BY <1>3, <1>4 DEF Link, Frame

\* The frames stay intact when nothing is written before their end.
LEMMA LinkStays ==
    ASSUME NEW m, NEW n, NEW b \in Ring,
           NEW x \in 0 .. RingSize - 1, NEW y \in 0 .. RingSize - 1,
           \A z \in 0 .. y - 1 : n[Byte(b, z)] = m[Byte(b, z)],
           Link(m, b, x, y)
    PROVE  Link(n, b, x, y)
<1> DEFINE f == m[Byte(b, x)].of
<1>1. f \in Frame /\ y = x + f.size /\ f.size \in 2 .. RingSize - 1
  BY LinkBounds DEF Link
<1>2. x \in 0 .. y - 1
  BY <1>1, RingFacts
<1>3. n[Byte(b, x)].of = f
  BY <1>2
<1>4. \A k \in 0 .. f.size - 1 : x + k \in 0 .. y - 1 /\ k \in Nat /\ x + k <= RingSize - 1
  <2> SUFFICES ASSUME NEW k \in 0 .. f.size - 1
               PROVE  x + k \in 0 .. y - 1 /\ k \in Nat /\ x + k <= RingSize - 1
    OBVIOUS
  <2>1. PICK size \in 2 .. RingSize - 1 : size = f.size
    BY <1>1
  <2>2. k \in 0 .. size - 1 /\ y = x + size
    BY <1>1, <2>1
  <2> HIDE DEF f
  <2> QED
    BY <2>2, RingFacts
<1>5. \A k \in 0 .. f.size - 1 : Byte(Byte(b, x), k) = Byte(b, x + k)
  BY <1>4, ByteByte
<1>6. IntactIn(n, f, Byte(b, x))
  BY <1>4, <1>5 DEF Link, IntactIn
<1> QED
  BY <1>3, <1>6 DEF Link

LEMMA InitIInv == Init => IInv
<1> SUFFICES ASSUME Init PROVE IInv
  OBVIOUS
<1>1. 0 \in Ring /\ 0 \in 0 .. RingSize - 1 /\ Byte(0, 0) = 0
  BY RingFacts, ByteIs
<1>2. TypeOK
  <2>1. mem \in [Ring -> [of : Frame \cup {NoFrame}, at : Ring]]
    BY <1>1 DEF Init, Blank
  <2>2. epktcnt \in 0 .. MaxCount
    BY CountAssumption DEF Init
  <2> QED
    BY <1>1, <2>1, <2>2 DEF Init, TypeOK
<1>3. Base = 0 /\ Kept = 0 /\ Waiting = 0 /\ ~Held
  BY DEF Init, Base, Kept, Waiting, Reading, Held
<1>4. Laid([i \in 0 .. 0 |-> 0])
  BY <1>1, <1>3 DEF Init, Laid
<1> QED
  BY <1>2, <1>3, <1>4 DEF IInv, Init

\* The call begins.
LEMMA BeginKeeps ==
    ASSUME IInv, Begin
    PROVE  IInv'
<1>1. TypeOK'
  BY DEF IInv, TypeOK, Begin, chip
<1>2. Base' = Base /\ Kept' = Kept /\ Waiting' = Waiting /\ ~Held' /\ pc' # "dec"
      /\ (pc' # "idle" => epktcnt' > 0) /\ ~buffer_in_length' /\ pc' \notin {"free", "dec"}
  BY DEF IInv, TypeOK, Begin, chip, Base, Kept, Waiting, Reading, Held
<1>3. PICK off : Laid(off)
  BY DEF IInv
<1>4. Laid(off)'
  BY <1>2, <1>3 DEF Begin, chip, Laid
<1> QED
  BY <1>1, <1>2, <1>4 DEF IInv, Begin

\* The header is that of the first waiting frame; the others move up.
LEMMA ReadHeaderKeeps ==
    ASSUME IInv, ReadHeader
    PROVE  /\ IInv'
           /\ frame' = mem[Start[0]].of
           /\ \A i \in 0 .. Waiting - 1 : Start'[i] = Start[i + 1]
<1>1. PICK off : Laid(off)
  BY DEF IInv
<1>2. /\ pc = "header" /\ pc' = "body" /\ erdpt' = next_packet_ptr
      /\ frame' \in HeadersAt(next_packet_ptr) /\ next_packet_ptr' = frame'.next
      /\ UNCHANGED <<mem, erxwrpt, epktcnt, erxrdpt, buffer_in, buffer_in_length>>
  BY DEF ReadHeader, chip
<1>3. /\ Base = next_packet_ptr /\ Kept = 0 /\ Waiting = epktcnt /\ epktcnt \in Nat /\ epktcnt > 0
      /\ Base \in Ring /\ Base' = Base /\ Kept' = frame'.size /\ Waiting' = epktcnt - 1
      /\ Held' /\ TypeOK
  BY <1>2 DEF IInv, TypeOK, Base, Kept, Waiting, Reading, Held
<1>4. /\ off \in [0 .. epktcnt -> 0 .. RingSize - 1] /\ off[0] = 0
      /\ 0 \in 0 .. epktcnt /\ 1 \in 1 .. epktcnt /\ 1 \in 0 .. epktcnt
  BY <1>1, <1>3 DEF Laid
<1>5. Byte(Base, 0) = Base
  BY <1>1, <1>3, <1>4 DEF Laid
<1>6. Link(mem, Base, 0, off[1])
  BY <1>1, <1>3, <1>4 DEF Laid
<1>7. mem[Base].of \in Frame /\ mem[Base].at = 0
  <2>1. IntactIn(mem, mem[Base].of, Base) /\ mem[Base].of \in Frame
    BY <1>5, <1>6 DEF Link
  <2>2. 0 \in 0 .. mem[Base].of.size - 1
    BY <2>1, RingFacts DEF Frame
  <2>3. mem[Byte(Base, 0)] = [of |-> mem[Base].of, at |-> 0]
    BY <2>1, <2>2 DEF IntactIn
  <2> QED
    BY <1>5, <2>1, <2>3
<1>8. frame' = mem[Base].of
  <2>1. NoFrame \notin Frame
    BY PacketAssumption DEF NoFrame, Frame
  <2> QED
    BY <1>2, <1>3, <1>7, <2>1 DEF HeadersAt
<1>9. /\ frame' \in Frame /\ frame'.size = off[1] /\ frame'.next = Byte(Base, off[1])
      /\ frame'.next # 0 /\ IntactIn(mem, frame', Base)
  <2>1. off[1] = 0 + frame'.size /\ frame' \in Frame
    BY <1>5, <1>6, <1>8 DEF Link
  <2>2. frame'.size = off[1]
    BY <2>1, RingFacts DEF Frame
  <2> QED
    BY <1>5, <1>6, <1>8, <2>2 DEF Link
<1>10. TypeOK'
  <2>1. frame'.next \in Ring
    BY <1>9 DEF Frame
  <2> QED
    BY <1>2, <1>3, <1>9, <2>1 DEF TypeOK
<1>11. PICK new : /\ new \in [0 .. epktcnt - 1 -> 0 .. RingSize - 1]
                  /\ \A i \in 0 .. epktcnt - 1 : new[i] = off[i + 1]
                  /\ new[0] = off[1] /\ new[epktcnt - 1] = off[epktcnt]
                  /\ \A i \in 1 .. epktcnt - 1 : Link(mem, Base, new[i - 1], new[i])
  <2> DEFINE new == [i \in 0 .. epktcnt - 1 |-> off[i + 1]]
  <2>1. \A i \in 0 .. epktcnt - 1 : i + 1 \in 0 .. epktcnt
    BY <1>3
  <2>2. new \in [0 .. epktcnt - 1 -> 0 .. RingSize - 1] /\ new[0] = off[1]
    BY <1>3, <1>4, <2>1
  <2>3. new[epktcnt - 1] = off[epktcnt] /\ \A i \in 0 .. epktcnt - 1 : new[i] = off[i + 1]
    BY <1>3
  <2>4. \A i \in 1 .. epktcnt - 1 : Link(mem, Base, new[i - 1], new[i])
    <3>1. \A i \in 1 .. epktcnt - 1 : /\ i + 1 \in 1 .. epktcnt /\ (i + 1) - 1 = i /\ (i - 1) + 1 = i
                                      /\ i \in 0 .. epktcnt - 1 /\ i - 1 \in 0 .. epktcnt - 1
      BY <1>3
    <3>2. \A i \in 1 .. epktcnt : Link(mem, Base, off[i - 1], off[i])
      BY <1>1, <1>3 DEF Laid
    <3>3. ASSUME NEW i \in 1 .. epktcnt - 1
          PROVE  Link(mem, Base, new[i - 1], new[i])
      <4>1. new[i - 1] = off[i] /\ new[i] = off[i + 1]
        BY <3>1
      <4>2. Link(mem, Base, off[(i + 1) - 1], off[i + 1])
        BY <3>1, <3>2
      <4> QED
        BY <3>1, <4>1, <4>2
    <3> QED
      BY <3>3
  <2> HIDE DEF new
  <2> QED
    BY <2>2, <2>3, <2>4
<1>12. Laid(new)'
  <2>1. erxwrpt = Byte(Base, off[epktcnt]) /\ (erxrdpt # Base => off[epktcnt] <= RingSize - 2)
    BY <1>1, <1>3 DEF Laid
  <2> QED
    BY <1>2, <1>3, <1>9, <1>11, <2>1 DEF Laid
<1>13. Intact(frame, erdpt)'
  BY <1>2, <1>3, <1>9 DEF Intact, IntactIn
<1>14. IInv'
  BY <1>2, <1>3, <1>9, <1>10, <1>12, <1>13 DEF IInv
<1>15. frame' = mem[Start[0]].of
  BY <1>3, <1>8, StartIs
<1>16. ASSUME NEW i \in 0 .. Waiting - 1
       PROVE  Start'[i] = Start[i + 1]
  <2>1. i \in 0 .. epktcnt - 1 /\ i + 1 \in 0 .. Waiting
    BY <1>3
  <2>2. Start'[i] = Byte(Base, new[i])
    <3>1. \A j \in 0 .. Waiting' : Start'[j] = Byte(Base', new[j])
      BY <1>12, <1>14, StartsLaidNext DEF Byte
    <3> QED
      BY <1>3, <2>1, <3>1
  <2>3. Start[i + 1] = Byte(Base, off[i + 1])
    BY <1>1, <2>1, StartsLaid
  <2> QED
    BY <1>11, <2>1, <2>2, <2>3
<1> QED
  BY <1>14, <1>15, <1>16

LEMMA ReadBodyKeeps ==
    ASSUME IInv, ReadBody
    PROVE  IInv'
<1>1. PICK off : Laid(off)
  BY DEF IInv
<1>2. /\ pc = "body" /\ pc' = "free"
      /\ UNCHANGED <<mem, erxwrpt, epktcnt, erxrdpt, next_packet_ptr, erdpt, frame,
                     buffer_in_length>>
  BY DEF ReadBody, chip
<1>3. frame \in Frame /\ Base' = Base /\ Kept' = Kept /\ Waiting' = Waiting /\ Held /\ Held'
  BY <1>2 DEF IInv, Base, Kept, Waiting, Reading, Held
<1>4. TypeOK'
  <2>1. buffer_in' \in {buffer_in, frame.packet, Garbage}
    BY DEF ReadBody
  <2>2. frame.packet \in Packet
    BY <1>3 DEF Frame
  <2> QED
    BY <1>2, <2>1, <2>2 DEF IInv, TypeOK
<1>5. Laid(off)'
  BY <1>1, <1>2, <1>3 DEF Laid
<1>6. Intact(frame, erdpt)'
  BY <1>2, <1>3 DEF Intact, IInv
<1>7. frame.ok => buffer_in' = frame.packet
  <2>1. \A k \in 0 .. frame.size - 1 : mem[Byte(erdpt, k)].of = frame
    <3>1. \A k \in 0 .. frame.size - 1 : mem[Byte(erdpt, k)] = [of |-> frame, at |-> k]
      BY <1>3 DEF IInv, Intact
    <3> SUFFICES ASSUME NEW k \in 0 .. frame.size - 1
                 PROVE  mem[Byte(erdpt, k)].of = frame
      OBVIOUS
    <3>2. mem[Byte(erdpt, k)] = [of |-> frame, at |-> k]
      BY <3>1
    <3> QED
      BY <3>2
  <2> QED
    BY <2>1 DEF ReadBody
<1> QED
  BY <1>2, <1>3, <1>4, <1>5, <1>6, <1>7 DEF IInv

LEMMA FreeSpaceKeeps ==
    ASSUME IInv, FreeSpace
    PROVE  IInv'
<1>1. PICK off : Laid(off)
  BY DEF IInv
<1>2. /\ pc = "free" /\ pc' = "dec"
      /\ erxrdpt' = IF next_packet_ptr > RXSTOP_INIT THEN RXSTOP_INIT
                                                     ELSE (next_packet_ptr - 1) % PtrSpace
      /\ UNCHANGED <<mem, erxwrpt, epktcnt, next_packet_ptr, erdpt, frame, buffer_in,
                     buffer_in_length>>
  BY DEF FreeSpace, chip
<1> DEFINE size == frame.size
<1>3. /\ frame \in Frame /\ next_packet_ptr \in Ring /\ next_packet_ptr # 0
      /\ Base = erdpt /\ Base \in Ring /\ Kept = size /\ Base' = next_packet_ptr /\ Kept' = 0
      /\ Waiting' = Waiting /\ Waiting \in Nat /\ ~Held'
  BY <1>2, WaitingCount DEF IInv, TypeOK, Base, Kept, Waiting, Reading, Held
<1>4. size \in Nat /\ size >= 2
  BY <1>3, RingFacts DEF Frame
<1>5. erxrdpt' = next_packet_ptr - 1 /\ next_packet_ptr - 1 \in Ring
  <2>1. next_packet_ptr \in 1 .. RXSTOP_INIT
    BY <1>3, StopAssumption DEF Ring
  <2>2. next_packet_ptr - 1 \in 0 .. PtrSpace - 1
    BY <2>1, StopAssumption, PtrAssumption
  <2>3. (next_packet_ptr - 1) % PtrSpace = next_packet_ptr - 1
    <3> DEFINE c == next_packet_ptr - 1
    <3>1. c \in 0 .. PtrSpace - 1 /\ PtrSpace \in Nat
      BY <2>2, PtrAssumption
    <3> HIDE DEF c
    <3>2. c % PtrSpace = c
      BY <3>1
    <3> QED
      BY <3>2 DEF c
  <2> QED
    BY <1>2, <2>1, <2>3, StopAssumption DEF Ring
<1>6. erxrdpt' = Byte(next_packet_ptr, RingSize - 1)
  <2>1. RingSize - 1 \in 0 .. RingSize - 1
    BY RingFacts
  <2>2. Byte(next_packet_ptr, RingSize - 1) =
            IF next_packet_ptr + (RingSize - 1) < RingSize
            THEN next_packet_ptr + (RingSize - 1)
            ELSE next_packet_ptr + (RingSize - 1) - RingSize
    BY <1>3, <2>1, ByteIs
  <2> QED
    BY <1>3, <1>5, <2>2, RingFacts
<1>7. TypeOK'
  BY <1>2, <1>5 DEF IInv, TypeOK
<1>8. /\ off \in [0 .. Waiting -> 0 .. RingSize - 1] /\ off[0] = size
      /\ next_packet_ptr = Byte(Base, size) /\ erxwrpt = Byte(Base, off[Waiting])
      /\ \A i \in 1 .. Waiting : Link(mem, Base, off[i - 1], off[i])
      /\ size \in 0 .. RingSize - 1
  <2>1. off \in [0 .. Waiting -> 0 .. RingSize - 1] /\ off[0] = size /\ 0 \in 0 .. Waiting
    BY <1>1, <1>3 DEF Laid
  <2> QED
    BY <1>1, <1>3, <2>1 DEF Laid
<1>9. \A i \in 0 .. Waiting : off[i] >= size
  <2>1. 0 \in 0 .. Waiting
    BY <1>3
  <2> QED
    BY <1>1, <1>8, <2>1, OffsetsGrow
<1>10. PICK new : /\ new \in [0 .. Waiting -> 0 .. RingSize - 1]
                  /\ new[0] = 0 /\ new[Waiting] <= RingSize - 2
                  /\ erxwrpt = Byte(next_packet_ptr, new[Waiting])
                  /\ \A i \in 1 .. Waiting : Link(mem, next_packet_ptr, new[i - 1], new[i])
  <2> DEFINE new == [i \in 0 .. Waiting |-> off[i] - size]
  <2>1. \A i \in 0 .. Waiting : /\ off[i] \in 0 .. RingSize - 1 /\ off[i] - size \in 0 .. RingSize - 1
                                /\ off[i] - size <= RingSize - 2
    BY <1>4, <1>8, <1>9, RingFacts
  <2>2. new \in [0 .. Waiting -> 0 .. RingSize - 1] /\ 0 \in 0 .. Waiting /\ Waiting \in 0 .. Waiting
    BY <1>3, <2>1
  <2>3. new[0] = 0 /\ new[Waiting] = off[Waiting] - size /\ new[Waiting] <= RingSize - 2
    BY <1>4, <1>8, <2>1, <2>2
  <2>4. erxwrpt = Byte(next_packet_ptr, new[Waiting])
    <3> DEFINE d == off[Waiting] - size
    <3>1. d \in Nat /\ size + d <= RingSize - 1 /\ size + d = off[Waiting]
      BY <1>4, <2>1, <2>2, RingFacts
    <3> HIDE DEF d
    <3>2. Byte(Byte(Base, size), d) = Byte(Base, size + d)
      BY <1>3, <1>4, <3>1, ByteByte
    <3> QED
      BY <1>8, <2>3, <3>1, <3>2 DEF d
  <2>5. \A i \in 1 .. Waiting : Link(mem, next_packet_ptr, new[i - 1], new[i])
    <3> SUFFICES ASSUME NEW i \in 1 .. Waiting
                 PROVE  Link(mem, next_packet_ptr, new[i - 1], new[i])
      OBVIOUS
    <3>1. i \in 0 .. Waiting /\ i - 1 \in 0 .. Waiting
      BY <1>3
    <3> DEFINE x == off[i - 1]
               y == off[i]
    <3>2. x \in 0 .. RingSize - 1 /\ y \in 0 .. RingSize - 1 /\ size <= x
          /\ new[i - 1] = x - size /\ new[i] = y - size /\ Link(mem, Base, x, y)
      BY <1>4, <1>8, <1>9, <2>1, <3>1
    <3> HIDE DEF x, y, new
    <3>3. x <= y
      <4>1. y >= x + 2
        BY <3>2, LinkBounds
      <4> QED
        BY <3>2, <4>1, RingFacts
    <3> QED
      BY <1>3, <1>4, <1>8, <3>2, <3>3, LinkMoves
  <2> HIDE DEF new
  <2> QED
    BY <2>2, <2>3, <2>4, <2>5
<1>11. Laid(new)'
  <2>1. Byte(next_packet_ptr, 0) = next_packet_ptr
    BY <1>3, RingFacts, ByteIs
  <2> QED
    BY <1>2, <1>3, <1>10, <2>1 DEF Laid
<1> QED
  BY <1>2, <1>3, <1>6, <1>7, <1>11 DEF IInv

LEMMA ReleaseKeeps ==
    ASSUME IInv, Release
    PROVE  IInv'
<1>1. PICK off : Laid(off)
  BY DEF IInv
<1>2. /\ pc = "dec" /\ pc' = "idle" /\ epktcnt' = epktcnt - 1 /\ buffer_in_length' = frame.ok
      /\ UNCHANGED <<mem, erxwrpt, erxrdpt, next_packet_ptr, erdpt, frame, buffer_in>>
  BY DEF Release
<1>3. /\ frame \in Frame /\ Base' = Base /\ Kept' = Kept /\ Waiting' = Waiting
      /\ epktcnt \in Nat /\ epktcnt > 0 /\ ~Held'
  BY <1>2, WaitingCount DEF IInv, Base, Kept, Waiting, Reading, Held
<1>4. TypeOK'
  <2>1. frame.ok \in BOOLEAN
    BY <1>3 DEF Frame
  <2>2. epktcnt - 1 \in 0 .. MaxCount
    BY <1>3, CountAssumption DEF IInv, TypeOK
  <2> QED
    BY <1>2, <2>1, <2>2 DEF IInv, TypeOK
<1>5. Laid(off)'
  BY <1>1, <1>2, <1>3 DEF Laid
<1> QED
  BY <1>2, <1>3, <1>4, <1>5 DEF IInv

\* A frame is stored behind the others, and where nothing is kept.
LEMMA ArriveKeeps ==
    ASSUME ~ToEnd, IInv, NEW p \in Packet, NEW n \in Sizes, NEW ok \in BOOLEAN, Arrive(p, n, ok)
    PROVE  /\ IInv'
           /\ \A i \in 0 .. Waiting : Start'[i] = Start[i]
           /\ \A i \in 1 .. Waiting : mem'[Start[i - 1]].of = mem[Start[i - 1]].of
           /\ Content(mem'[Start[Waiting]].of) = [packet |-> p, ok |-> ok]
<1>1. PICK off : Laid(off)
  BY DEF IInv
<1> DEFINE end == Byte(erxwrpt, n)
           f == [packet |-> p, ok |-> ok, size |-> n, next |-> end]
           offset(a) == (a - erxwrpt) % RingSize
           L == off[Waiting]
<1>2. /\ epktcnt < MaxCount /\ n <= Free /\ end # 0
      /\ mem' = [a \in Ring |-> IF offset(a) < n THEN [of |-> f, at |-> offset(a)] ELSE mem[a]]
      /\ erxwrpt' = end /\ epktcnt' = epktcnt + 1
      /\ UNCHANGED <<erxrdpt, next_packet_ptr, pc, erdpt, frame, buffer_in, buffer_in_length>>
  BY DEF Arrive
<1>3. /\ Base \in Ring /\ Base' = Base /\ Kept' = Kept /\ Held' = Held
      /\ Waiting \in Nat /\ Waiting' = Waiting + 1 /\ TypeOK
      /\ epktcnt \in Nat /\ MaxCount \in Nat /\ n \in 2 .. RingSize - 1
  <2>1. Base' = Base /\ Kept' = Kept /\ Held' = Held
    BY <1>2 DEF Base, Kept, Held
  <2>2. epktcnt \in Nat /\ MaxCount \in Nat /\ Waiting \in Nat
    BY WaitingCount, CountAssumption
  <2>3. Waiting' = Waiting + 1
    BY <1>2, <2>2 DEF Waiting, Reading
  <2> QED
    BY <2>1, <2>2, <2>3, BaseIs, RingFacts DEF IInv
<1>4. /\ off \in [0 .. Waiting -> 0 .. RingSize - 1] /\ off[0] = Kept
      /\ next_packet_ptr = Byte(Base, off[0]) /\ erxwrpt = Byte(Base, L)
      /\ \A i \in 1 .. Waiting : Link(mem, Base, off[i - 1], off[i])
      /\ Waiting \in 0 .. Waiting /\ L \in 0 .. RingSize - 1 /\ erxwrpt \in Ring
  BY <1>1, <1>3 DEF Laid, TypeOK
<1>5. L + n \in 0 .. RingSize - 1 /\ (erxrdpt # Base => L + n <= RingSize - 2)
  <2>1. Free = IF erxrdpt = Base THEN RingSize - 1 - L ELSE RingSize - 2 - L
    BY <1>1, FreeIs
  <2>2. n <= Free /\ n \in 2 .. RingSize - 1 /\ L \in 0 .. RingSize - 1
    BY <1>2, <1>3, <1>4
  <2>3. RingSize \in Nat
    BY RingFacts
  <2> HIDE DEF L
  <2>4. CASE erxrdpt = Base
    <3>1. n <= RingSize - 1 - L
      BY <2>1, <2>2, <2>4
    <3> QED
      BY <2>2, <2>3, <2>4, <3>1
  <2>5. CASE erxrdpt # Base
    <3>1. n <= RingSize - 2 - L
      BY <2>1, <2>2, <2>5
    <3> QED
      BY <2>2, <2>3, <3>1
  <2> QED
    BY <2>4, <2>5
<1> HIDE DEF L
<1>6. end = Byte(Base, L + n) /\ end \in Ring
  BY <1>3, <1>4, <1>5, RingFacts, ByteByte, ByteIs
<1>7. f \in Frame
  BY <1>6 DEF Frame
<1>8. \A z \in 0 .. L - 1 : mem'[Byte(Base, z)] = mem[Byte(Base, z)]
  <2> SUFFICES ASSUME NEW z \in 0 .. L - 1 PROVE mem'[Byte(Base, z)] = mem[Byte(Base, z)]
    OBVIOUS
  <2>1. z \in 0 .. RingSize - 1
    BY <1>4, RingFacts
  <2>2. offset(Byte(Base, z)) = z - L + RingSize
    BY <1>3, <1>4, <2>1, Behind
  <2>3. ~ (z - L + RingSize < n)
    BY <1>3, <1>4, <1>5, <2>1, RingFacts
  <2>4. Byte(Base, z) \in Ring
    BY <1>3, <2>1, ByteIs
  <2> QED
    BY <1>2, <2>2, <2>3, <2>4
<1>9. \A z \in 0 .. n - 1 : mem'[Byte(Base, L + z)] = [of |-> f, at |-> z]
  <2> SUFFICES ASSUME NEW z \in 0 .. n - 1 PROVE mem'[Byte(Base, L + z)] = [of |-> f, at |-> z]
    OBVIOUS
  <2>1. L + z \in 0 .. RingSize - 1
    BY <1>3, <1>4, <1>5, RingFacts
  <2>2. offset(Byte(Base, L + z)) = z
    <3> DEFINE y == L + z
    <3>1. y \in 0 .. RingSize - 1 /\ y >= L /\ y - L = z
      BY <1>3, <1>4, <2>1, RingFacts
    <3> HIDE DEF y
    <3>2. offset(Byte(Base, y)) = y - L
      BY <1>3, <1>4, <3>1, Ahead
    <3> QED
      BY <3>1, <3>2 DEF y
  <2>3. Byte(Base, L + z) \in Ring
    BY <1>3, <2>1, ByteIs
  <2>4. z < n
    BY <1>3
  <2> QED
    BY <1>2, <2>2, <2>3, <2>4
<1>10. TypeOK'
  <2>1. mem' \in [Ring -> [of : Frame \cup {NoFrame}, at : Ring]]
    <3>1. \A a \in Ring : offset(a) < n => offset(a) \in Ring
      <4> SUFFICES ASSUME NEW a \in Ring PROVE offset(a) \in Ring
        OBVIOUS
      <4>1. offset(a) = IF a < erxwrpt THEN a - erxwrpt + RingSize ELSE a - erxwrpt
        BY <1>4, RingDifference
      <4>2. PICK w \in 0 .. RingSize - 1 : w = erxwrpt
        BY <1>4, RingFacts
      <4>3. offset(a) = IF a < w THEN a - w + RingSize ELSE a - w
        BY <4>1, <4>2
      <4> HIDE DEF offset
      <4> QED
        BY <4>3, RingFacts
    <3>2. \A a \in Ring : mem[a] \in [of : Frame \cup {NoFrame}, at : Ring]
      BY <1>3 DEF TypeOK
    <3> HIDE DEF f, offset
    <3> QED
      BY <1>2, <1>7, <3>1, <3>2
  <2>2. epktcnt' \in 0 .. MaxCount
    BY <1>2, <1>3
  <2> QED
    BY <1>2, <1>3, <1>6, <2>1, <2>2 DEF TypeOK
<1>11. PICK new : /\ new \in [0 .. Waiting + 1 -> 0 .. RingSize - 1]
                  /\ \A i \in 0 .. Waiting : new[i] = off[i]
                  /\ new[Waiting + 1] = L + n
  <2> DEFINE new == [i \in 0 .. Waiting + 1 |-> IF i = Waiting + 1 THEN L + n ELSE off[i]]
  <2>1. \A i \in 0 .. Waiting + 1 : i = Waiting + 1 \/ i \in 0 .. Waiting
    BY <1>3
  <2>2. new \in [0 .. Waiting + 1 -> 0 .. RingSize - 1]
    BY <1>4, <1>5, <2>1
  <2>3. /\ \A i \in 0 .. Waiting : new[i] = off[i]
        /\ new[Waiting + 1] = L + n
    BY <1>3
  <2> QED
    BY <2>2, <2>3
<1>12. Link(mem', Base, L, L + n)
  <2>1. 0 \in 0 .. n - 1 /\ L + 0 = L
    BY <1>3, <1>4
  <2>2. mem'[Byte(Base, L)].of = f
    <3>1. mem'[Byte(Base, L)] = [of |-> f, at |-> 0]
      <4> HIDE DEF f
      <4> QED
        BY <1>9, <2>1
    <3> QED
      BY <3>1
  <2>3. IntactIn(mem', f, Byte(Base, L))
    <3>1. \A k \in 0 .. n - 1 : k \in Nat /\ L \in Nat /\ L + k <= RingSize - 1
      BY <1>3, <1>4, <1>5, RingFacts
    <3>2. \A k \in 0 .. n - 1 : Byte(Byte(Base, L), k) = Byte(Base, L + k)
      BY <1>3, <3>1, ByteByte
    <3> HIDE DEF end
    <3> QED
      BY <1>9, <3>2 DEF IntactIn
  <2>4. f.size = n /\ f.next = end
    OBVIOUS
  <2> HIDE DEF f, end
  <2> QED
    BY <1>2, <1>6, <1>7, <2>2, <2>3, <2>4 DEF Link
<1>13. \A i \in 1 .. Waiting : Link(mem', Base, off[i - 1], off[i])
  <2> SUFFICES ASSUME NEW i \in 1 .. Waiting PROVE Link(mem', Base, off[i - 1], off[i])
    OBVIOUS
  <2> DEFINE x == off[i - 1]
             y == off[i]
  <2>1. i \in 0 .. Waiting /\ i - 1 \in 0 .. Waiting
    BY <1>3
  <2>2. x \in 0 .. RingSize - 1 /\ y \in 0 .. RingSize - 1 /\ Link(mem, Base, x, y)
    BY <1>4, <2>1
  <2>3. y <= L
    <3>1. Waiting \in i .. Waiting
      BY <1>3
    <3>2. L >= y
      BY <1>1, <2>1, <3>1, OffsetsGrow DEF L
    <3> HIDE DEF y
    <3> QED
      BY <1>4, <2>2, <3>2, RingFacts DEF y
  <2> HIDE DEF x, y
  <2>4. \A z \in 0 .. y - 1 : mem'[Byte(Base, z)] = mem[Byte(Base, z)]
    <3>1. \A z \in 0 .. y - 1 : z \in 0 .. L - 1
      BY <1>4, <2>2, <2>3, RingFacts
    <3> QED
      BY <1>8, <3>1
  <2>5. Link(mem', Base, x, y)
    BY <1>3, <2>2, <2>4, LinkStays
  <2> QED
    BY <2>5 DEF x, y
<1>14. Laid(new)'
  <2>1. \A i \in 1 .. Waiting + 1 : Link(mem', Base, new[i - 1], new[i])
    <3> SUFFICES ASSUME NEW i \in 1 .. Waiting + 1 PROVE Link(mem', Base, new[i - 1], new[i])
      OBVIOUS
    <3>1. CASE i = Waiting + 1
      <4>1. i - 1 = Waiting
        BY <1>3, <3>1
      <4> QED
        BY <1>4, <1>11, <1>12, <3>1, <4>1 DEF L
    <3>2. CASE i # Waiting + 1
      <4>1. i \in 1 .. Waiting /\ i \in 0 .. Waiting /\ i - 1 \in 0 .. Waiting
        BY <1>3, <3>2
      <4> QED
        BY <1>11, <1>13, <4>1
    <3> QED
      BY <3>1, <3>2
  <2>2. new[0] = off[0]
    BY <1>3, <1>11
  <2> QED
    BY <1>2, <1>3, <1>4, <1>5, <1>6, <1>11, <2>1, <2>2 DEF Laid
<1>15. Held => Intact(frame, erdpt)'
  <2> SUFFICES ASSUME Held PROVE Intact(frame, erdpt)'
    OBVIOUS
  <2>1. frame \in Frame /\ Intact(frame, erdpt) /\ Base = erdpt /\ Kept = frame.size
    BY DEF IInv, Base, Kept
  <2>2. frame.size <= L
    <3>1. 0 \in 0 .. Waiting /\ Waiting \in 0 .. Waiting
      BY <1>3
    <3>2. L >= off[0]
      BY <1>1, <3>1, OffsetsGrow DEF L
    <3>3. off[0] = frame.size
      BY <1>4, <2>1
    <3> QED
      BY <1>4, <2>1, <3>2, <3>3, RingFacts DEF Frame
  <2>3. \A k \in 0 .. frame.size - 1 : k \in 0 .. L - 1
    BY <1>4, <2>1, <2>2, RingFacts DEF Frame
  <2> QED
    BY <1>2, <1>8, <2>1, <2>3 DEF Intact
<1>16. IInv'
  BY <1>2, <1>3, <1>10, <1>14, <1>15 DEF IInv
<1>17. \A i \in 0 .. Waiting : Start[i] = Byte(Base, off[i])
  BY <1>1, StartsLaid
<1>18. ASSUME NEW i \in 0 .. Waiting
       PROVE  Start'[i] = Start[i]
  <2>1. \A j \in 0 .. Waiting' : Start'[j] = Byte(Base', new[j])
    BY <1>14, <1>16, StartsLaidNext DEF Byte
  <2>2. i \in 0 .. Waiting'
    BY <1>3
  <2> QED
    BY <1>3, <1>11, <1>17, <2>1, <2>2
<1>19. ASSUME NEW i \in 1 .. Waiting
       PROVE  mem'[Start[i - 1]].of = mem[Start[i - 1]].of
  <2>1. i \in 0 .. Waiting /\ i - 1 \in 0 .. Waiting /\ Waiting \in i .. Waiting
    BY <1>3
  <2> DEFINE x == off[i - 1]
             y == off[i]
  <2>2. /\ x \in 0 .. RingSize - 1 /\ y \in 0 .. RingSize - 1 /\ Link(mem, Base, x, y)
        /\ L >= y /\ Start[i - 1] = Byte(Base, x)
    BY <1>1, <1>4, <1>17, <2>1, OffsetsGrow DEF L
  <2> HIDE DEF x, y
  <2>3. x \in 0 .. L - 1
    <3>1. y >= x + 2
      BY <2>2, LinkBounds
    <3> QED
      BY <1>4, <2>2, <3>1, RingFacts
  <2> QED
    BY <1>8, <2>2, <2>3
<1>20. Content(mem'[Start[Waiting]].of) = [packet |-> p, ok |-> ok]
  <2>1. 0 \in 0 .. n - 1 /\ L + 0 = L
    BY <1>3, <1>4
  <2>2. mem'[Byte(Base, L)] = [of |-> f, at |-> 0]
    <3> HIDE DEF f
    <3> QED
      BY <1>9, <2>1
  <2>3. Start[Waiting] = Byte(Base, L)
    BY <1>4, <1>17 DEF L
  <2>4. mem'[Start[Waiting]].of = f
    BY <2>2, <2>3
  <2>5. f.packet = p /\ f.ok = ok
    OBVIOUS
  <2> HIDE DEF f
  <2> QED
    BY <2>4, <2>5 DEF Content
<1> QED
  BY <1>16, <1>18, <1>19, <1>20

LEMMA StepIInv ==
    ASSUME ~ToEnd, IInv, [Next]_vars
    PROVE  IInv'
<1>1. CASE Begin
  BY <1>1, BeginKeeps
<1>2. CASE ReadHeader
  BY <1>2, ReadHeaderKeeps
<1>3. CASE ReadBody
  BY <1>3, ReadBodyKeeps
<1>4. CASE FreeSpace
  BY <1>4, FreeSpaceKeeps
<1>5. CASE Release
  BY <1>5, ReleaseKeeps
<1>6. ASSUME NEW p \in Packet, NEW n \in Sizes, NEW ok \in BOOLEAN, Arrive(p, n, ok)
      PROVE  IInv'
  BY <1>6, ArriveKeeps
<1>7. CASE UNCHANGED vars
  <2>1. PICK off : Laid(off)
    BY DEF IInv
  <2>2. Base' = Base /\ Kept' = Kept /\ Waiting' = Waiting /\ Held' = Held
    BY <1>7 DEF vars, Base, Kept, Waiting, Reading, Held
  <2>3. Laid(off)'
    BY <1>7, <2>1, <2>2 DEF vars, Laid
  <2>4. TypeOK' /\ (Held => Intact(frame, erdpt)')
    BY <1>7 DEF vars, IInv, TypeOK, Intact
  <2> QED
    BY <1>7, <2>2, <2>3, <2>4 DEF vars, IInv
<1> QED
  BY <1>1, <1>2, <1>3, <1>4, <1>5, <1>6, <1>7 DEF Next

LEMMA Inductive == ~ToEnd => (Spec => []IInv)
<1> SUFFICES ASSUME ~ToEnd PROVE Spec => []IInv
  OBVIOUS
<1>1. Init => IInv
  BY InitIInv
<1>2. IInv /\ [Next]_vars => IInv'
  BY StepIInv
<1> QED
  BY <1>1, <1>2, PTL DEF Spec

\* Every variable keeps its type: neither the chip nor network_receive leaves
\* the ring (network.c:586-659).
THEOREM TypeCorrect ==
    ASSUME ~ToEnd
    PROVE  Spec => []TypeOK
<1>1. IInv => TypeOK
  BY DEF IInv
<1> QED
  BY <1>1, Inductive, PTL

\* However frames arrive between the steps of network_receive, the chip writes
\* over no byte of one that has not been read (network.c:630-647).
THEOREM UnreadStaysIntact ==
    ASSUME ~ToEnd
    PROVE  Spec => []UnreadIntact
<1>1. IInv => UnreadIntact
  BY PropertiesHold
<1> QED
  BY <1>1, Inductive, PTL

\* EPKTCNT counts as many frames as there are between next_packet_ptr and the
\* place where the chip writes (network.c:594,603,647).
THEOREM CountStaysWithChain ==
    ASSUME ~ToEnd
    PROVE  Spec => []CountFollowsChain
<1>1. IInv => CountFollowsChain
  BY PropertiesHold
<1> QED
  BY <1>1, Inductive, PTL

\* When every frame is read the ring is free again, but for a byte or two; no
\* frame, damaged or not, leaks space (network.c:625-647).
THEOREM SpaceIsReturned ==
    ASSUME ~ToEnd
    PROVE  Spec => []SpaceReturned
<1>1. IInv => SpaceReturned
  BY PropertiesHold
<1> QED
  BY <1>1, Inductive, PTL

-----------------------------------------------------------------------------
(* The receive side is a queue.                                            *)

LEMMA HeadTailOfConcat ==
    ASSUME NEW S, NEW e \in S, NEW q \in Seq(S)
    PROVE  <<e>> \o q # << >> /\ Head(<<e>> \o q) = e /\ Tail(<<e>> \o q) = q
OBVIOUS

LEMMA AppendToConcat ==
    ASSUME NEW S, NEW e \in S, NEW c \in S, NEW q \in Seq(S)
    PROVE  <<e>> \o Append(q, c) = Append(<<e>> \o q, c)
OBVIOUS

\* The waiting frames as the queue has them.
Waits == [i \in 1 .. Waiting |-> Content(WaitingFrames[i])]
Taken == IF buffer_in_length THEN buffer_in ELSE NoPacket

LEMMA WaitsIs ==
    ASSUME IInv
    PROVE  /\ Waits = [i \in 1 .. Waiting |-> Content(mem[Start[i - 1]].of)]
           /\ Waits \in Seq(Queue!Frame) /\ Len(Waits) = Waiting
           /\ Pending = IF Reading THEN <<Content(frame)>> \o Waits ELSE Waits
<1>1. Waits = [i \in 1 .. Waiting |-> Content(mem[Start[i - 1]].of)]
  BY DEF Waits, WaitingFrames
<1>2. PICK off : Laid(off)
  BY DEF IInv
<1>3. Waiting \in Nat
  BY WaitingCount
<1>4. \A f \in Frame : Content(f) \in Queue!Frame
  BY DEF Content, Frame, Queue!Frame
<1>5. ASSUME NEW i \in 1 .. Waiting
      PROVE  mem[Start[i - 1]].of \in Frame
  <2>1. i - 1 \in 0 .. Waiting
    BY <1>3
  <2> QED
    BY <1>2, <2>1, StartsLaid DEF Laid, Link
<1>6. Waits \in Seq(Queue!Frame) /\ Len(Waits) = Waiting
  BY <1>1, <1>3, <1>4, <1>5
<1>7. Pending = IF Reading THEN <<Content(frame)>> \o Waits ELSE Waits
  BY DEF Pending, Waits
<1> QED
  BY <1>1, <1>6, <1>7

LEMMA WaitsIsNext ==
    IInv' => /\ Waits' = [i \in 1 .. Waiting' |-> Content(mem'[Start'[i - 1]].of)]
             /\ Waits' \in Seq(Queue!Frame) /\ Len(Waits') = Waiting'
             /\ Pending' = IF Reading' THEN <<Content(frame')>> \o Waits' ELSE Waits'
<1>1. IInv => /\ Waits = [i \in 1 .. Waiting |-> Content(mem[Start[i - 1]].of)]
              /\ Waits \in Seq(Queue!Frame) /\ Len(Waits) = Waiting
              /\ Pending = IF Reading THEN <<Content(frame)>> \o Waits ELSE Waits
  BY WaitsIs
<1>2. (IInv => /\ Waits = [i \in 1 .. Waiting |-> Content(mem[Start[i - 1]].of)]
               /\ Waits \in Seq(Queue!Frame) /\ Len(Waits) = Waiting
               /\ Pending = IF Reading THEN <<Content(frame)>> \o Waits ELSE Waits)'
  BY <1>1, PTL
<1> QED
  BY <1>2 DEF Content

\* The steps that leave the memory and the pointer alone leave the frames.
LEMMA SameWaits ==
    ASSUME UNCHANGED <<mem, next_packet_ptr, Waiting>>
    PROVE  Waits' = Waits
<1>1. Start' = Start
  BY DEF Start
<1> QED
  BY <1>1 DEF Waits, WaitingFrames, Content

LEMMA StepQueue ==
    ASSUME ~ToEnd, IInv, IInv', [Next]_vars
    PROVE  [Queue!Next]_<<Pending, Taken>>
<1> USE DEF Taken
<1>1. CASE Begin
  <2>1. /\ UNCHANGED <<mem, next_packet_ptr, frame, epktcnt>> /\ ~Reading /\ ~Reading'
        /\ buffer_in_length' = FALSE
    BY <1>1 DEF Begin, chip, Reading
  <2>2. Waits' = Waits
    BY <2>1, SameWaits DEF Waiting
  <2>3. Pending' = Pending
    BY <2>1, <2>2, WaitsIs, WaitsIsNext
  <2>4. Taken' = NoPacket
    BY <2>1
  <2> QED
    BY <2>3, <2>4 DEF Queue!Next, Queue!Clear
<1>2. CASE ReadHeader
  <2>1. /\ mem' = mem /\ epktcnt' = epktcnt /\ buffer_in' = buffer_in
        /\ buffer_in_length' = buffer_in_length /\ ~Reading /\ Reading'
        /\ Waiting = epktcnt /\ Waiting' = epktcnt - 1 /\ epktcnt > 0 /\ epktcnt \in Nat
    BY <1>2, WaitingCount DEF ReadHeader, chip, Reading, Waiting, IInv
  <2>2. /\ frame' = mem[Start[0]].of
        /\ \A i \in 0 .. epktcnt - 1 : Start'[i] = Start[i + 1]
    BY <1>2, <2>1, ReadHeaderKeeps
  <2> DEFINE old == Waits
             new == Waits'
             first == Content(mem[Start[0]].of)
  <2>3. /\ old \in Seq(Queue!Frame) /\ Len(old) = epktcnt
        /\ \A i \in 1 .. epktcnt : old[i] = Content(mem[Start[i - 1]].of)
    BY <2>1, WaitsIs
  <2>4. /\ new \in Seq(Queue!Frame) /\ Len(new) = epktcnt - 1
        /\ \A i \in 1 .. epktcnt - 1 : new[i] = old[i + 1]
    <3>1. /\ new = [i \in 1 .. epktcnt - 1 |-> Content(mem[Start'[i - 1]].of)]
          /\ new \in Seq(Queue!Frame) /\ Len(new) = epktcnt - 1
      BY <2>1, WaitsIsNext
    <3>2. ASSUME NEW i \in 1 .. epktcnt - 1
          PROVE  new[i] = old[i + 1]
      <4>1. i - 1 \in 0 .. epktcnt - 1 /\ (i - 1) + 1 = i /\ i + 1 \in 1 .. epktcnt /\ (i + 1) - 1 = i
        BY <2>1
      <4>2. new[i] = Content(mem[Start'[i - 1]].of)
        BY <3>1
      <4>3. Start'[i - 1] = Start[i]
        BY <2>2, <4>1
      <4>4. old[i + 1] = Content(mem[Start[i]].of)
        BY <2>3, <4>1
      <4> QED
        BY <4>2, <4>3, <4>4
    <3> QED
      BY <3>1, <3>2
  <2>5. old[1] = first
    BY <2>1, <2>3
  <2>6. Pending = old /\ Pending' = <<first>> \o new
    BY <2>1, <2>2, WaitsIs, WaitsIsNext DEF Content
  <2> HIDE DEF old, new, first
  <2>7. <<first>> \o new = old
    <3>1. first \in Queue!Frame
      BY <2>1, <2>3, <2>5
    <3>2. Len(<<first>> \o new) = epktcnt
      BY <2>1, <2>4, <3>1
    <3>3. \A i \in 1 .. epktcnt : (<<first>> \o new)[i] = old[i]
      BY <2>1, <2>3, <2>4, <2>5, <3>1
    <3>4. <<first>> \o new \in Seq(Queue!Frame)
      BY <2>4, <3>1
    <3> QED
      BY <2>3, <3>2, <3>3, <3>4, SeqEqual
  <2> QED
    BY <2>1, <2>6, <2>7
<1>3. CASE ReadBody \/ FreeSpace
  <2>1. /\ UNCHANGED <<mem, next_packet_ptr, frame, epktcnt, buffer_in_length>>
        /\ Reading /\ Reading' /\ ~buffer_in_length
    BY <1>3 DEF ReadBody, FreeSpace, chip, Reading, IInv
  <2>2. Waits' = Waits
    BY <2>1, SameWaits DEF Waiting
  <2>3. Pending' = Pending
    BY <2>1, <2>2, WaitsIs, WaitsIsNext DEF Content
  <2> QED
    BY <2>1, <2>3
<1>4. CASE Release
  <2>1. /\ UNCHANGED <<mem, next_packet_ptr, frame, buffer_in>> /\ Reading /\ ~Reading'
        /\ epktcnt' = epktcnt - 1 /\ buffer_in_length' = frame.ok /\ frame \in Frame
        /\ (frame.ok => buffer_in = frame.packet)
    BY <1>4 DEF Release, Reading, IInv
  <2>2. Waits' = Waits
    BY <2>1, SameWaits DEF Waiting
  <2>3. Pending = <<Content(frame)>> \o Waits /\ Pending' = Waits
    BY <2>1, <2>2, WaitsIs, WaitsIsNext
  <2>4. Pending # << >> /\ Head(Pending) = Content(frame) /\ Tail(Pending) = Waits
    <3>1. Content(frame) \in Queue!Frame
      BY <2>1 DEF Content, Frame, Queue!Frame
    <3>2. Waits \in Seq(Queue!Frame)
      BY WaitsIs
    <3> QED
      BY <2>3, <3>1, <3>2, HeadTailOfConcat
  <2>5. Taken' = IF Content(frame).ok THEN Content(frame).packet ELSE NoPacket
    BY <2>1 DEF Content
  <2> QED
    BY <2>3, <2>4, <2>5 DEF Queue!Next, Queue!HandOver
<1>5. ASSUME NEW p \in Packet, NEW n \in Sizes, NEW ok \in BOOLEAN, Arrive(p, n, ok)
      PROVE  [Queue!Next]_<<Pending, Taken>>
  <2> DEFINE c == [packet |-> p, ok |-> ok]
             old == Waits
             new == Waits'
  <2>1. /\ UNCHANGED <<frame, buffer_in, buffer_in_length>> /\ Reading' = Reading
        /\ Waiting' = Waiting + 1 /\ Waiting \in Nat
    <3>1. UNCHANGED <<pc, frame, buffer_in, buffer_in_length>> /\ epktcnt' = epktcnt + 1
      BY <1>5 DEF Arrive
    <3>2. Waiting \in Nat /\ epktcnt \in Nat
      BY WaitingCount
    <3> QED
      BY <3>1, <3>2 DEF Reading, Waiting
  <2>2. /\ \A i \in 0 .. Waiting : Start'[i] = Start[i]
        /\ \A i \in 1 .. Waiting : mem'[Start[i - 1]].of = mem[Start[i - 1]].of
        /\ Content(mem'[Start[Waiting]].of) = c
    BY <1>5, ArriveKeeps
  <2>3. /\ old \in Seq(Queue!Frame) /\ Len(old) = Waiting
        /\ \A i \in 1 .. Waiting : old[i] = Content(mem[Start[i - 1]].of)
    BY WaitsIs
  <2>4. /\ new \in Seq(Queue!Frame) /\ Len(new) = Waiting + 1
        /\ \A i \in 1 .. Waiting + 1 : new[i] = Content(mem'[Start'[i - 1]].of)
    BY <2>1, WaitsIsNext
  <2>5. c \in Queue!Frame
    BY DEF Queue!Frame
  <2>6. \A i \in 1 .. Waiting : new[i] = old[i]
    <3> SUFFICES ASSUME NEW i \in 1 .. Waiting PROVE new[i] = old[i]
      OBVIOUS
    <3>1. i \in 1 .. Waiting + 1 /\ i - 1 \in 0 .. Waiting
      BY <2>1
    <3>2. Start'[i - 1] = Start[i - 1] /\ mem'[Start[i - 1]].of = mem[Start[i - 1]].of
      BY <2>2, <3>1
    <3> HIDE DEF new, old
    <3> QED
      BY <2>3, <2>4, <3>1, <3>2
  <2>7. new[Waiting + 1] = c
    <3>1. Waiting + 1 \in 1 .. Waiting + 1 /\ (Waiting + 1) - 1 = Waiting /\ Waiting \in 0 .. Waiting
      BY <2>1
    <3>2. Start'[Waiting] = Start[Waiting]
      BY <2>2, <3>1
    <3> HIDE DEF new, old, c
    <3> QED
      BY <2>2, <2>4, <3>1, <3>2
  <2>8. /\ Pending = IF Reading THEN <<Content(frame)>> \o old ELSE old
        /\ Pending' = IF Reading THEN <<Content(frame)>> \o new ELSE new
    BY <2>1, WaitsIs, WaitsIsNext DEF Content
  <2> HIDE DEF old, new, c
  <2>9. new = Append(old, c)
    <3>1. Append(old, c) \in Seq(Queue!Frame) /\ Len(Append(old, c)) = Waiting + 1
      BY <2>3, <2>5
    <3>2. \A i \in 1 .. Waiting + 1 : Append(old, c)[i] = new[i]
      BY <2>1, <2>3, <2>5, <2>6, <2>7
    <3> QED
      BY <2>4, <3>1, <3>2, SeqEqual
  <2>10. Pending' = Append(Pending, c)
    <3>1. CASE Reading
      <4>1. Content(frame) \in Queue!Frame
        BY <3>1 DEF Reading, IInv, Held, Content, Frame, Queue!Frame
      <4> QED
        BY <2>3, <2>5, <2>8, <2>9, <3>1, <4>1, AppendToConcat
    <3>2. CASE ~Reading
      BY <2>8, <2>9, <3>2
    <3> QED
      BY <3>1, <3>2
  <2> QED
    BY <2>1, <2>5, <2>10 DEF Queue!Next, Queue!Accept
<1>6. CASE UNCHANGED vars
  <2>1. UNCHANGED <<mem, next_packet_ptr, frame, epktcnt, buffer_in, buffer_in_length>>
        /\ Reading' = Reading
    BY <1>6 DEF vars, Reading
  <2>2. Waits' = Waits
    BY <2>1, SameWaits DEF Waiting
  <2>3. Pending' = Pending
    <3>1. CASE Reading
      BY <2>1, <2>2, <3>1, WaitsIs, WaitsIsNext DEF Content
    <3>2. CASE ~Reading
      BY <2>1, <2>2, <3>2, WaitsIs, WaitsIsNext
    <3> QED
      BY <3>1, <3>2
  <2> QED
    BY <2>1, <2>3
<1> QED
  BY <1>1, <1>2, <1>3, <1>4, <1>5, <1>6 DEF Next

\* Frames are handed over in the order they were accepted, each once and whole,
\* and a damaged one as no frame at all: every step of the chip and of
\* network_receive is one of PacketQueue, or none (network.c:586-659).
THEOREM RingImplementsQueue ==
    ASSUME ~ToEnd
    PROVE  Spec => Queue!Spec
<1>1. Init => Queue!Init
  <2> SUFFICES ASSUME Init PROVE Queue!Init
    OBVIOUS
  <2>1. IInv
    BY InitIInv
  <2>2. Waiting = 0 /\ ~Reading /\ ~buffer_in_length
    BY DEF Init, Waiting, Reading
  <2> QED
    BY <2>1, <2>2, WaitsIs DEF Queue!Init
<1>2. IInv /\ IInv' /\ [Next]_vars => [Queue!Next]_<<Pending, Taken>>
  BY StepQueue
<1>3. Spec => []IInv
  BY Inductive
<1> QED
  BY <1>1, <1>2, <1>3, PTL DEF Spec, Queue!Spec, Taken

=============================================================================
