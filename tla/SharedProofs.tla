---------------------------- MODULE SharedProofs ----------------------------
(***************************************************************************)
(* Proofs about the arithmetic of Shared and the modules that count with   *)
(* it.  MainLoop: the reports lose no byte and tell none twice, and the    *)
(* answers to pings verify.  Tcp: a browser gets one reply, whole, every   *)
(* segment verifies, and the list of paths is the table it is meant to be. *)
(* All for any width of a byte, any numbers, settings, frames and faults.  *)
(***************************************************************************)
EXTENDS MainLoop, Tcp, FiniteSetTheorems, SequenceTheorems, TLAPS

-----------------------------------------------------------------------------
(* Remainders.                                                             *)

\* A number is its quotient and its remainder.
LEMMA Split ==
    ASSUME NEW w \in Nat \ {0}, NEW a \in Int
    PROVE  a % w \in 0 .. w - 1 /\ a \div w \in Int /\ a = w * (a \div w) + (a % w)
OBVIOUS

\* Between -w and w there is no multiple of w but 0.
LEMMA NoMultiple ==
    ASSUME NEW w \in Nat \ {0}, NEW k \in Int, w * k < w, -w < w * k
    PROVE  k = 0
<1>1. k >= 1 => w * k >= w
  OBVIOUS
<1>2. k <= -1 => w * k <= -w
  OBVIOUS
<1> QED
  BY <1>1, <1>2

\* A number has one remainder.
LEMMA Unique ==
    ASSUME NEW w \in Nat \ {0}, NEW p \in Int, NEW q \in Int,
           NEW r \in 0 .. w - 1, NEW s \in 0 .. w - 1, w * p + r = w * q + s
    PROVE  r = s
<1>1. w * p \in Int /\ w * q \in Int /\ w * (p - q) = w * p - w * q
  OBVIOUS
<1>2. w * (p - q) < w /\ -w < w * (p - q)
  BY <1>1
<1>3. p - q = 0
  BY <1>2, NoMultiple
<1> QED
  BY <1>1, <1>3

\* Adding to a number and to its remainder comes to the same.
LEMMA ModPlus ==
    ASSUME NEW w \in Nat \ {0}, NEW a \in Int, NEW b \in Int
    PROVE  ((a % w) + b) % w = (a + b) % w
<1> DEFINE c == (a % w) + b
<1>1. a % w \in Int /\ a \div w \in Int /\ a = w * (a \div w) + (a % w) /\ c \in Int
  BY Split
<1>2. c % w \in 0 .. w - 1 /\ c \div w \in Int /\ c = w * (c \div w) + (c % w)
  BY <1>1, Split
<1>3. /\ (a + b) % w \in 0 .. w - 1 /\ (a + b) \div w \in Int
      /\ a + b = w * ((a + b) \div w) + ((a + b) % w)
  <2> DEFINE d == a + b
  <2>1. d \in Int
    OBVIOUS
  <2> HIDE DEF d
  <2>2. d % w \in 0 .. w - 1 /\ d \div w \in Int /\ d = w * (d \div w) + (d % w)
    BY <2>1, Split
  <2> QED
    BY <2>2 DEF d
<1>4. w * (c \div w) \in Int /\ w * (a \div w) \in Int
  BY <1>1, <1>2
<1>5. a + b = c + w * (a \div w)
  BY <1>1, <1>4
<1> HIDE DEF c
<1>6. w * (c \div w + a \div w) = w * (c \div w) + w * (a \div w)
  BY <1>1, <1>2
<1>7. w * (c \div w + a \div w) + (c % w) = w * ((a + b) \div w) + ((a + b) % w)
  BY <1>2, <1>3, <1>4, <1>5, <1>6
<1>8. c \div w + a \div w \in Int
  BY <1>1, <1>2
<1>9. c % w = (a + b) % w
  BY <1>2, <1>3, <1>7, <1>8, Unique
<1> QED
  BY <1>9 DEF c

\* A remainder is its own remainder.
LEMMA ModSame ==
    ASSUME NEW w \in Nat \ {0}, NEW a \in 0 .. w - 1
    PROVE  a % w = a
OBVIOUS

\* Remainders are words.
LEMMA WordSizeType == WordSize \in Nat \ {0} /\ 0 \in Word /\ \A n \in Int : n % WordSize \in Word
<1>1. WordSize \in Nat \ {0}
  BY BaseAssumption DEF WordSize
<1> HIDE DEF WordSize
<1>2. \A n \in Int : n % WordSize \in 0 .. WordSize - 1
  BY <1>1, Split
<1> QED
  BY <1>1, <1>2 DEF Word

-----------------------------------------------------------------------------
(* Recursive definitions.                                                  *)

\* A non-empty set of natural numbers has a least element.
LEMMA Least ==
    ASSUME NEW S, S \subseteq Nat, S # {}
    PROVE  \E i \in S : \A j \in S : ~ (j < i)
<1> DEFINE R == {r \in Nat \X Nat : r[1] < r[2]}
<1>1. IsWellFoundedOn(R, Nat)
  BY NatLessThanWellFounded, Zenon DEF OpToRel
<1>2. \A i, j \in Nat : j < i => <<j, i>> \in R
  OBVIOUS
<1>3. PICK i \in S : \A j \in S : ~ (<<j, i>> \in R)
  <2> HIDE DEF R
  <2> QED
    BY <1>1, WFMin
<1> QED
  BY <1>2, <1>3

\* A loop makes the k-th number of the one before and of k.
LEMMA ChainExists ==
    ASSUME NEW a \in Int, NEW n \in Nat, NEW h \in [1 .. n -> [Int -> Int]]
    PROVE  \E g \in [0 .. n -> Int] :
               g[0] = a /\ \A k \in 1 .. n : g[k] = h[k][g[k - 1]]
<1> DEFINE Chain(g, m) ==
              /\ g \in [0 .. m -> Int]
              /\ \A k \in 0 .. m : g[k] = IF k = 0 THEN a ELSE h[k][g[k - 1]]
           S == {m \in 0 .. n : ~ \E g : Chain(g, m)}
<1>1. S = {}
  <2>1. SUFFICES ASSUME S # {} PROVE FALSE
    OBVIOUS
  <2>2. PICK m \in S : \A j \in S : ~ (j < m)
    <3>1. S \subseteq Nat
      OBVIOUS
    <3> HIDE DEF S
    <3> QED
      BY <2>1, <3>1, Least
  <2>3. m # 0
    <3>1. Chain([k \in 0 .. 0 |-> a], 0)
      OBVIOUS
    <3> QED
      BY <2>2, <3>1
  <2>4. m \in 1 .. n /\ m - 1 \in 0 .. n /\ m - 1 < m
    BY <2>2, <2>3
  <2>5. PICK g : Chain(g, m - 1)
    BY <2>2, <2>4
  <2>6. g \in [0 .. m - 1 -> Int] /\ g[m - 1] \in Int /\ h[m][g[m - 1]] \in Int
    BY <2>4, <2>5
  <2> DEFINE f == [k \in 0 .. m |-> IF k = m THEN h[m][g[m - 1]] ELSE g[k]]
  <2>7. f \in [0 .. m -> Int]
    <3>1. \A k \in 0 .. m : k = m \/ k \in 0 .. m - 1
      BY <2>4
    <3>2. \A k \in 0 .. m - 1 : g[k] \in Int
      BY <2>6
    <3> QED
      BY <2>6, <3>1, <3>2
  <2>8. ASSUME NEW k \in 0 .. m
        PROVE  f[k] = IF k = 0 THEN a ELSE h[k][f[k - 1]]
    <3>1. CASE k = m
      <4>1. f[m] = h[m][g[m - 1]] /\ f[m - 1] = g[m - 1]
        BY <2>4
      <4> QED
        BY <2>3, <3>1, <4>1
    <3>2. CASE k # m /\ k # 0
      <4>1. k \in 0 .. m - 1 /\ k - 1 \in 0 .. m - 1 /\ k - 1 \in 0 .. m /\ k - 1 # m
        BY <2>4, <3>2
      <4>2. g[k] = h[k][g[k - 1]]
        BY <2>5, <3>2, <4>1
      <4>3. f[k] = g[k] /\ f[k - 1] = g[k - 1]
        BY <3>2, <4>1
      <4> QED
        BY <3>2, <4>2, <4>3
    <3>3. CASE k # m /\ k = 0
      <4>1. 0 \in 0 .. m - 1
        BY <2>4
      <4>2. g[0] = a
        BY <2>5, <4>1
      <4>3. f[0] = a
        BY <2>3, <4>1, <4>2
      <4> QED
        BY <3>3, <4>3
    <3> QED
      BY <3>1, <3>2, <3>3
  <2>9. Chain(f, m)
    BY <2>7, <2>8
  <2> QED
    BY <2>2, <2>9
<1>2. n \in 0 .. n /\ n \notin S
  <2>1. n \in 0 .. n
    OBVIOUS
  <2> HIDE DEF S
  <2> QED
    BY <1>1, <2>1
<1>3. PICK g : Chain(g, n)
  BY <1>2
<1>4. 0 \in 0 .. n /\ \A k \in 1 .. n : k \in 0 .. n /\ k # 0
  OBVIOUS
<1>5. g[0] = a /\ \A k \in 1 .. n : g[k] = h[k][g[k - 1]]
  BY <1>3, <1>4
<1> QED
  BY <1>3, <1>5

\* Induction along a loop.
LEMMA Upward ==
    ASSUME NEW n \in Nat, NEW S, 0 \in S, \A k \in 1 .. n : k - 1 \in S => k \in S
    PROVE  \A k \in 0 .. n : k \in S
<1> DEFINE Out == (0 .. n) \ S
<1>1. Out = {}
  <2>1. SUFFICES ASSUME Out # {} PROVE FALSE
    OBVIOUS
  <2>2. PICK m \in Out : \A j \in Out : ~ (j < m)
    <3>1. Out \subseteq Nat
      OBVIOUS
    <3> HIDE DEF Out
    <3> QED
      BY <2>1, <3>1, Least
  <2>3. m \in 1 .. n /\ m - 1 \in 0 .. n /\ m - 1 < m
    BY <2>2
  <2>4. m - 1 \in S
    BY <2>2, <2>3
  <2> QED
    BY <2>2, <2>3, <2>4
<1> QED
  BY <1>1

-----------------------------------------------------------------------------
(* Numbers in buffers.                                                     *)

\* A number as it is sent: some bytes.
Numeral == Seq(Byte) \ {<< >>}

\* The quotient of a natural number is one.
LEMMA Quotient ==
    ASSUME NEW w \in Nat \ {0}, NEW a \in Nat
    PROVE  a \div w \in Nat
<1>1. a % w \in 0 .. w - 1 /\ a \div w \in Int /\ a = w * (a \div w) + (a % w)
  BY Split
<1>2. a \div w < 0 => w * (a \div w) <= -w
  <2> DEFINE q == a \div w
  <2> HIDE DEF q
  <2>1. q \in Int => (q < 0 => w * q <= -w)
    OBVIOUS
  <2> QED
    BY <1>1, <2>1 DEF q
<1>3. w * (a \div w) \in Int
  BY <1>1
<1> QED
  BY <1>1, <1>2, <1>3

\* The bytes of a number.
LEMMA NumeralIs ==
    ASSUME NEW b \in Numeral
    PROVE  /\ Len(b) \in Nat \ {0} /\ DOMAIN b = 1 .. Len(b)
           /\ \A i \in 1 .. Len(b) : b[i] \in Byte /\ b[i] \in Nat
BY BaseAssumption DEF Numeral, Byte

\* A sequence of as many bytes is a number.
LEMMA IsNumeral ==
    ASSUME NEW n \in Nat \ {0}, NEW f \in [1 .. n -> Byte]
    PROVE  f \in Numeral /\ Len(f) = n
<1>1. f \in Seq(Byte) /\ Len(f) = n
  OBVIOUS
<1> QED
  BY <1>1 DEF Numeral

\* A remainder by Base is a byte.
LEMMA ByteType == Base \in Nat \ {0} /\ \A n \in Int : n % Base \in Byte
<1>1. Base \in Nat \ {0}
  BY BaseAssumption
<1> QED
  BY <1>1, Split DEF Byte

\* The device adds to a number, and it stays one.
LEMMA AddType ==
    ASSUME NEW buff \in Numeral, NEW value \in Nat
    PROVE  add_value_to_buffer(value, buff) \in Numeral
<1> DEFINE n == Len(buff)
           left[k \in 0 .. n] ==
             IF k = 0 THEN value
             ELSE ((left[k - 1] + buff[n - k + 1]) % WordSize) \div Base
           h == [k \in 1 .. n |-> [v \in Int |-> ((v + buff[n - k + 1]) % WordSize) \div Base]]
<1>1. n \in Nat \ {0} /\ DOMAIN buff = 1 .. n /\ \A i \in 1 .. n : buff[i] \in Nat
  BY NumeralIs
<1>2. ASSUME NEW v \in Int, NEW k \in 1 .. n
      PROVE  ((v + buff[n - k + 1]) % WordSize) \div Base \in Nat
  <2>1. n - k + 1 \in 1 .. n
    BY <1>1
  <2>2. v + buff[n - k + 1] \in Int
    BY <1>1, <2>1
  <2> DEFINE s == v + buff[n - k + 1]
             r == s % WordSize
  <2> HIDE DEF s
  <2>3. r \in Word
    <3>1. s \in Int
      BY <2>2 DEF s
    <3> HIDE DEF WordSize, Word
    <3> QED
      BY <3>1, WordSizeType
  <2> HIDE DEF r
  <2>4. r \in Nat
    BY <2>3 DEF Word
  <2> QED
    BY <2>4, ByteType, Quotient DEF s, r
<1>3. left = [k \in 0 .. n |-> IF k = 0 THEN value
                               ELSE ((left[k - 1] + buff[n - k + 1]) % WordSize) \div Base]
  <2>1. h \in [1 .. n -> [Int -> Int]]
    <3>1. \A k \in 1 .. n, v \in Int : ((v + buff[n - k + 1]) % WordSize) \div Base \in Int
      <4> HIDE DEF n, WordSize
      <4> QED
        BY <1>2
    <3> HIDE DEF n, WordSize
    <3>2. \A k \in 1 .. n :
             [v \in Int |-> ((v + buff[n - k + 1]) % WordSize) \div Base] \in [Int -> Int]
      BY <3>1
    <3> QED
      BY <3>2
  <2> HIDE DEF h, left, n
  <2>2. PICK g \in [0 .. n -> Int] :
           g[0] = value /\ \A k \in 1 .. n : g[k] = h[k][g[k - 1]]
    <3>1. value \in Int /\ n \in Nat
      BY <1>1
    <3> QED
      BY <2>1, <3>1, ChainExists, ZenonT(30)
  <2>3. g = [k \in 0 .. n |-> IF k = 0 THEN value
                               ELSE ((g[k - 1] + buff[n - k + 1]) % WordSize) \div Base]
    <3>1. ASSUME NEW k \in 1 .. n
          PROVE  g[k] = ((g[k - 1] + buff[n - k + 1]) % WordSize) \div Base
      <4>1. k - 1 \in 0 .. n
        BY <1>1
      <4>2. g[k - 1] \in Int
        BY <2>2, <4>1
      <4> QED
        BY <2>2, <4>2 DEF h
    <3>2. \A k \in 0 .. n : k = 0 \/ k \in 1 .. n
      BY <1>1
    <3> QED
      BY <2>2, <3>1, <3>2
  <2> QED
    BY <2>3, Zenon DEF left
<1> HIDE DEF left
<1>4. \A k \in 0 .. n : left[k] \in Nat
  <2> DEFINE S == {k \in 0 .. n : left[k] \in Nat}
  <2>1. 0 \in S
    <3>1. 0 \in 0 .. n
      BY <1>1
    <3> QED
      BY <1>3, <3>1
  <2>2. ASSUME NEW k \in 1 .. n, k - 1 \in S
        PROVE  k \in S
    <3>1. k \in 0 .. n /\ k # 0
      BY <1>1
    <3>2. left[k] = ((left[k - 1] + buff[n - k + 1]) % WordSize) \div Base
      BY <1>3, <3>1
    <3>3. left[k - 1] \in Int
      BY <2>2
    <3>4. left[k] \in Nat
      <4> HIDE DEF n, WordSize
      <4> QED
        BY <1>2, <3>2, <3>3
    <3> QED
      BY <3>1, <3>4
  <2> HIDE DEF S
  <2>3. \A k \in 0 .. n : k \in S
    BY <1>1, <2>1, <2>2, Upward
  <2> QED
    BY <2>3 DEF S
<1>5. add_value_to_buffer(value, buff)
         = [i \in DOMAIN buff |-> (left[n - i] + buff[i]) % Base]
  BY DEF add_value_to_buffer, left
<1>6. \A i \in 1 .. n : (left[n - i] + buff[i]) % Base \in Byte
  <2> SUFFICES ASSUME NEW i \in 1 .. n
               PROVE  (left[n - i] + buff[i]) % Base \in Byte
    OBVIOUS
  <2>1. n - i \in 0 .. n
    BY <1>1
  <2>2. left[n - i] + buff[i] \in Int
    BY <1>1, <1>4, <2>1
  <2> QED
    BY <2>2, ByteType
<1>7. [i \in 1 .. n |-> (left[n - i] + buff[i]) % Base] \in [1 .. n -> Byte]
  BY <1>6
<1> QED
  BY <1>1, <1>5, <1>7, IsNumeral

\* The client's number is made of the number before its last byte and of that.
LEMMA NumberIs ==
    ASSUME NEW b \in Numeral
    PROVE  \E r \in Nat : Number(b) = r * Base + b[Len(b)]
<1> DEFINE n == Len(b)
           num[k \in 0 .. n] == IF k = 0 THEN 0 ELSE num[k - 1] * Base + b[k]
           h == [k \in 1 .. n |-> [v \in Int |-> v * Base + b[k]]]
<1>1. n \in Nat \ {0} /\ Base \in Nat /\ \A i \in 1 .. n : b[i] \in Nat
  BY NumeralIs, ByteType
<1>2. num = [k \in 0 .. n |-> IF k = 0 THEN 0 ELSE num[k - 1] * Base + b[k]]
  <2>1. h \in [1 .. n -> [Int -> Int]]
    BY <1>1
  <2> HIDE DEF h, num, n
  <2>2. PICK g \in [0 .. n -> Int] : g[0] = 0 /\ \A k \in 1 .. n : g[k] = h[k][g[k - 1]]
    <3>1. 0 \in Int /\ n \in Nat
      BY <1>1
    <3> QED
      BY <2>1, <3>1, ChainExists
  <2>3. g = [k \in 0 .. n |-> IF k = 0 THEN 0 ELSE g[k - 1] * Base + b[k]]
    <3>1. ASSUME NEW k \in 1 .. n
          PROVE  g[k] = g[k - 1] * Base + b[k]
      <4>1. g[k - 1] \in Int
        BY <1>1, <2>2
      <4> QED
        BY <2>2, <4>1 DEF h
    <3>2. \A k \in 0 .. n : k = 0 \/ k \in 1 .. n
      BY <1>1
    <3> QED
      BY <2>2, <3>1, <3>2
  <2> QED
    BY <2>3, Zenon DEF num
<1> HIDE DEF num
<1>3. \A k \in 0 .. n : num[k] \in Nat
  <2> DEFINE S == {k \in 0 .. n : num[k] \in Nat}
  <2>1. 0 \in S
    <3>1. 0 \in 0 .. n
      BY <1>1
    <3> QED
      BY <1>2, <3>1
  <2>2. ASSUME NEW k \in 1 .. n, k - 1 \in S
        PROVE  k \in S
    <3>1. k \in 0 .. n /\ k # 0
      BY <1>1
    <3>2. num[k] = num[k - 1] * Base + b[k]
      BY <1>2, <3>1
    <3>3. num[k - 1] \in Nat
      BY <2>2
    <3>4. num[k] \in Nat
      <4>1. b[k] \in Nat
        BY <1>1
      <4>2. \A x, y \in Nat : x * Base + y \in Nat
        BY <1>1
      <4>3. num[k - 1] * Base + b[k] \in Nat
        BY <3>3, <4>1, <4>2
      <4> QED
        BY <3>2, <4>3
    <3> QED
      BY <3>1, <3>4
  <2> HIDE DEF S
  <2>3. \A k \in 0 .. n : k \in S
    BY <1>1, <2>1, <2>2, Upward
  <2> QED
    BY <2>3 DEF S
<1>4. Number(b) = num[n]
  BY DEF Number, num
<1>5. n \in 0 .. n /\ n # 0 /\ n - 1 \in 0 .. n
  BY <1>1
<1>6. num[n] = num[n - 1] * Base + b[n] /\ num[n - 1] \in Nat
  BY <1>2, <1>3, <1>5
<1> QED
  BY <1>4, <1>6

\* The last byte counts one, the others more.
LEMMA WeightIs ==
    ASSUME NEW n \in Nat
    PROVE  Weight(n) \in Nat \ {0} /\ (n = 0 => Weight(n) = 1)
<1> DEFINE w[k \in 0 .. n] == IF k = 0 THEN 1 ELSE Base * w[k - 1]
           h == [k \in 1 .. n |-> [v \in Int |-> Base * v]]
<1>1. Base \in Nat \ {0}
  BY ByteType
<1>2. w = [k \in 0 .. n |-> IF k = 0 THEN 1 ELSE Base * w[k - 1]]
  <2>1. h \in [1 .. n -> [Int -> Int]]
    BY <1>1
  <2> HIDE DEF h, w
  <2>2. PICK g \in [0 .. n -> Int] : g[0] = 1 /\ \A k \in 1 .. n : g[k] = h[k][g[k - 1]]
    <3>1. 1 \in Int
      OBVIOUS
    <3> QED
      BY <2>1, <3>1, ChainExists
  <2>3. g = [k \in 0 .. n |-> IF k = 0 THEN 1 ELSE Base * g[k - 1]]
    <3>1. ASSUME NEW k \in 1 .. n
          PROVE  g[k] = Base * g[k - 1]
      <4>1. g[k - 1] \in Int
        BY <2>2
      <4> QED
        BY <2>2, <4>1 DEF h
    <3>2. \A k \in 0 .. n : k = 0 \/ k \in 1 .. n
      OBVIOUS
    <3> QED
      BY <2>2, <3>1, <3>2
  <2> QED
    BY <2>3, Zenon DEF w
<1> HIDE DEF w
<1>3. 0 \in 0 .. n /\ w[0] = 1
  <2>1. 0 \in 0 .. n
    OBVIOUS
  <2> QED
    BY <1>2, <2>1
<1>4. \A k \in 0 .. n : w[k] \in Nat \ {0}
  <2> DEFINE S == {k \in 0 .. n : w[k] \in Nat \ {0}}
  <2>1. 0 \in S
    BY <1>3
  <2>2. ASSUME NEW k \in 1 .. n, k - 1 \in S
        PROVE  k \in S
    <3>1. k \in 0 .. n /\ k # 0
      OBVIOUS
    <3>2. w[k] = Base * w[k - 1] /\ w[k - 1] \in Nat \ {0}
      BY <1>2, <2>2, <3>1
    <3>3. ASSUME NEW x \in Nat \ {0}
          PROVE  Base * x \in Nat \ {0}
      <4>1. Base * x \in Nat /\ Base * x >= Base
        BY <1>1
      <4> QED
        BY <1>1, <4>1
    <3>4. Base * w[k - 1] \in Nat \ {0}
      BY <3>2, <3>3
    <3>5. w[k] \in Nat \ {0}
      BY <3>2, <3>4
    <3> QED
      BY <3>1, <3>5
  <2> HIDE DEF S
  <2>3. \A k \in 0 .. n : k \in S
    BY <2>1, <2>2, Upward
  <2> QED
    BY <2>3 DEF S
<1>5. Weight(n) = w[n]
  BY DEF Weight, w
<1> QED
  BY <1>3, <1>4, <1>5

\* The client adds to a number, and it stays one.
LEMMA PlusType ==
    ASSUME NEW b \in Numeral, NEW n \in Nat
    PROVE  Plus(b, n) \in Numeral
<1> DEFINE sum == Number(b) + n
<1>1. Len(b) \in Nat \ {0} /\ DOMAIN b = 1 .. Len(b) /\ b[Len(b)] \in Nat /\ Base \in Nat
  <2>1. Len(b) \in Nat \ {0} /\ DOMAIN b = 1 .. Len(b)
    BY NumeralIs
  <2>2. Len(b) \in 1 .. Len(b)
    BY <2>1
  <2> QED
    BY <2>1, <2>2, NumeralIs, ByteType
<1>2. sum \in Nat
  <2>1. PICK r \in Nat : Number(b) = r * Base + b[Len(b)]
    BY NumberIs
  <2> QED
    BY <1>1, <2>1
<1> HIDE DEF sum
<1>3. ASSUME NEW i \in 1 .. Len(b)
      PROVE  (sum \div Weight(Len(b) - i)) % Base \in Byte
  <2>1. PICK place \in Nat : place = Len(b) - i
    <3>1. PICK len \in Nat : len = Len(b)
      BY <1>1
    <3>2. i \in 1 .. len /\ len - i \in Nat
      BY <3>1
    <3> QED
      BY <3>1, <3>2
  <2>2. PICK weight \in Nat \ {0} : weight = Weight(place)
    BY WeightIs
  <2>3. sum \div weight \in Int
    BY <1>2, <2>2, Quotient
  <2> QED
    BY <2>1, <2>2, <2>3, ByteType
<1>4. Plus(b, n) = [i \in 1 .. Len(b) |-> (sum \div Weight(Len(b) - i)) % Base]
  BY <1>1 DEF Plus, sum
<1>5. [i \in 1 .. Len(b) |-> (sum \div Weight(Len(b) - i)) % Base] \in [1 .. Len(b) -> Byte]
  BY <1>3
<1> QED
  BY <1>1, <1>4, <1>5, IsNumeral

\* A few more is another number.
LEMMA PlusMoves ==
    ASSUME NEW b \in Numeral
    PROVE  Plus(b, 3) # b
<1> DEFINE l == Len(b)
           sum == Number(b) + 3
<1>1. l \in 1 .. l /\ DOMAIN b = 1 .. l /\ b[l] \in 0 .. Base - 1 /\ Base \in Nat \ {0} /\ Base > 3
  <2>1. Len(b) \in Nat \ {0} /\ DOMAIN b = 1 .. Len(b)
    BY NumeralIs
  <2>2. Len(b) \in 1 .. Len(b)
    BY <2>1
  <2>3. b[Len(b)] \in 0 .. Base - 1
    BY <2>2, NumeralIs DEF Byte
  <2>4. Base \in Nat \ {0} /\ Base > 3
    BY ByteType, TcpAssumption
  <2> QED
    BY <2>1, <2>2, <2>3, <2>4
<1>2. PICK r \in Nat : Number(b) = r * Base + b[l]
  BY NumberIs
<1>3. sum \in Nat /\ sum = r * Base + b[l] + 3
  BY <1>1, <1>2
<1> HIDE DEF sum
<1>4. sum \div Weight(l - l) = sum
  <2>1. l - l = 0
    BY <1>1
  <2>2. Weight(0) = 1
    BY WeightIs
  <2> QED
    BY <1>3, <2>1, <2>2
<1>5. Plus(b, 3)[l] = sum % Base
  <2>1. Plus(b, 3) = [i \in 1 .. l |-> (sum \div Weight(l - i)) % Base]
    BY <1>1 DEF Plus, sum
  <2> QED
    BY <1>1, <1>4, <2>1
<1>6. sum % Base # b[l]
  <2> SUFFICES ASSUME sum % Base = b[l]
               PROVE  FALSE
    OBVIOUS
  <2> DEFINE q == sum \div Base
  <2>0. sum \in Int
    BY <1>3
  <2>1. q \in Int /\ sum = Base * q + b[l]
    <3>1. q \in Int /\ sum = Base * q + (sum % Base)
      BY <1>1, <2>0, Split
    <3> HIDE DEF q
    <3> QED
      BY <3>1
  <2> HIDE DEF q
  <2>2. Base * q \in Int /\ r * Base \in Int /\ b[l] \in Int
    BY <1>1, <1>2, <2>1
  <2>3. Base * q = r * Base + 3
    BY <1>3, <2>1, <2>2
  <2>4. q - r \in Int /\ Base * (q - r) = Base * q - r * Base
    BY <1>1, <1>2, <2>1
  <2>5. Base * (q - r) = 3
    BY <2>2, <2>3, <2>4
  <2>6. q - r = 0
    BY <1>1, <2>4, <2>5, NoMultiple
  <2> QED
    BY <1>1, <2>5, <2>6
<1> QED
  BY <1>5, <1>6

-----------------------------------------------------------------------------
(* The checksum.                                                           *)

\* What a byte at place k counts in a sum of words.
Place(k) == IF k % 2 = 1 THEN Base ELSE 1

\* The sum of words, byte by byte.
LEMMA SumIs ==
    ASSUME NEW s \in Seq(Int)
    PROVE  \E g \in [0 .. Len(s) -> Int] :
              /\ g[0] = 0 /\ \A k \in 1 .. Len(s) : g[k] = g[k - 1] + s[k] * Place(k)
              /\ SumWords(s) = g[Len(s)]
<1> DEFINE n == Len(s)
           sum[k \in 0 .. n] ==
             IF k = 0 THEN 0 ELSE sum[k - 1] + s[k] * (IF k % 2 = 1 THEN Base ELSE 1)
           h == [k \in 1 .. n |-> [v \in Int |-> v + s[k] * Place(k)]]
<1>1. n \in Nat /\ 0 \in Int /\ \A k \in 1 .. n : s[k] \in Int /\ Place(k) \in Int
  <2>1. n \in Nat /\ \A k \in 1 .. n : s[k] \in Int
    OBVIOUS
  <2> QED
    BY <2>1, ByteType DEF Place
<1>2. h \in [1 .. n -> [Int -> Int]]
  <2>1. \A k \in 1 .. n, v \in Int : v + s[k] * Place(k) \in Int
    BY <1>1
  <2> HIDE DEF n
  <2>2. \A k \in 1 .. n : [v \in Int |-> v + s[k] * Place(k)] \in [Int -> Int]
    BY <2>1
  <2> QED
    BY <2>2
<1> HIDE DEF h, n
<1>3. PICK g \in [0 .. n -> Int] : g[0] = 0 /\ \A k \in 1 .. n : g[k] = h[k][g[k - 1]]
  BY <1>1, <1>2, ChainExists
<1>4. ASSUME NEW k \in 1 .. n
      PROVE  g[k] = g[k - 1] + s[k] * Place(k)
  <2>1. g[k - 1] \in Int
    BY <1>1, <1>3
  <2> QED
    BY <1>3, <2>1 DEF h
<1>5. sum = [k \in 0 .. n |->
               IF k = 0 THEN 0 ELSE sum[k - 1] + s[k] * (IF k % 2 = 1 THEN Base ELSE 1)]
  <2> HIDE DEF sum
  <2>1. g = [k \in 0 .. n |->
               IF k = 0 THEN 0 ELSE g[k - 1] + s[k] * (IF k % 2 = 1 THEN Base ELSE 1)]
    <3>1. \A k \in 0 .. n : k = 0 \/ k \in 1 .. n
      BY <1>1
    <3> QED
      BY <1>3, <1>4, <3>1 DEF Place
  <2> QED
    BY <2>1, Zenon DEF sum
<1> HIDE DEF sum
<1>6. \A k \in 0 .. n : sum[k] = g[k]
  <2> DEFINE S == {k \in 0 .. n : sum[k] = g[k]}
  <2>1. 0 \in S
    <3>1. 0 \in 0 .. n
      BY <1>1
    <3>2. sum[0] = 0
      BY <1>5, <3>1
    <3> QED
      BY <1>3, <3>1, <3>2
  <2>2. ASSUME NEW k \in 1 .. n, k - 1 \in S
        PROVE  k \in S
    <3>1. k \in 0 .. n /\ k # 0
      BY <1>1
    <3>2. sum[k] = sum[k - 1] + s[k] * Place(k)
      BY <1>5, <3>1 DEF Place
    <3>3. sum[k] = g[k]
      BY <1>4, <2>2, <3>2
    <3> QED
      BY <3>1, <3>3
  <2> HIDE DEF S
  <2>3. \A k \in 0 .. n : k \in S
    BY <1>1, <2>1, <2>2, Upward
  <2> QED
    BY <2>3 DEF S
<1>7. SumWords(s) = sum[n]
  BY DEF SumWords, sum, n
<1>8. SumWords(s) = g[n]
  <2>1. n \in 0 .. n
    BY <1>1
  <2> QED
    BY <1>6, <1>7, <2>1
<1> QED
  BY <1>3, <1>4, <1>8 DEF n

\* One more byte adds what it counts.
LEMMA SumAppend ==
    ASSUME NEW s \in Seq(Int), NEW x \in Int
    PROVE  /\ Append(s, x) \in Seq(Int) /\ Len(Append(s, x)) = Len(s) + 1
           /\ SumWords(s) \in Int
           /\ SumWords(Append(s, x)) = SumWords(s) + x * Place(Len(s) + 1)
<1> DEFINE n == Len(s)
           t == Append(s, x)
<1>1. n \in Nat /\ t \in Seq(Int) /\ Len(t) = n + 1 /\ t[n + 1] = x
      /\ \A k \in 1 .. n : t[k] = s[k]
  OBVIOUS
<1>2. PICK f \in [0 .. n -> Int] :
         /\ f[0] = 0 /\ \A k \in 1 .. n : f[k] = f[k - 1] + s[k] * Place(k)
         /\ SumWords(s) = f[n]
  BY SumIs
<1> HIDE DEF t, n
<1>3. PICK g \in [0 .. Len(t) -> Int] :
         /\ g[0] = 0 /\ \A k \in 1 .. Len(t) : g[k] = g[k - 1] + t[k] * Place(k)
         /\ SumWords(t) = g[Len(t)]
  BY <1>1, SumIs
<1>4. \A k \in 0 .. n : f[k] = g[k]
  <2> DEFINE S == {k \in 0 .. n : f[k] = g[k]}
  <2>1. 0 \in S
    BY <1>1, <1>2, <1>3
  <2>2. ASSUME NEW k \in 1 .. n, k - 1 \in S
        PROVE  k \in S
    <3>1. k \in 0 .. n /\ k \in 1 .. Len(t) /\ f[k - 1] = g[k - 1]
      BY <1>1, <2>2
    <3>2. f[k] = g[k]
      BY <1>1, <1>2, <1>3, <3>1
    <3> QED
      BY <3>1, <3>2
  <2> HIDE DEF S
  <2>3. \A k \in 0 .. n : k \in S
    BY <1>1, <2>1, <2>2, Upward
  <2> QED
    BY <2>3 DEF S
<1>5. n + 1 \in 1 .. Len(t) /\ (n + 1) - 1 = n /\ n \in 0 .. n
  BY <1>1
<1>6. g[n + 1] = g[n] + x * Place(n + 1)
  BY <1>1, <1>3, <1>5
<1>7. SumWords(t) = f[n] + x * Place(n + 1)
  BY <1>1, <1>3, <1>4, <1>5, <1>6
<1>8. f[n] \in Int
  BY <1>2, <1>5
<1> QED
  BY <1>1, <1>2, <1>7, <1>8 DEF t, n

\* A last single byte is padded with zero, which adds nothing.
LEMMA SumPadded ==
    ASSUME NEW s \in Seq(Int)
    PROVE  LET p == s \o (IF Len(s) % 2 = 1 THEN <<0>> ELSE << >>)
           IN  p \in Seq(Int) /\ Len(p) % 2 = 0 /\ SumWords(p) = SumWords(s)
<1>1. CASE Len(s) % 2 = 1
  <2>1. s \o <<0>> = Append(s, 0)
    OBVIOUS
  <2>2. SumWords(Append(s, 0)) = SumWords(s)
    <3>1. 0 * Place(Len(s) + 1) = 0
      <4>1. Place(Len(s) + 1) \in Int
        BY ByteType DEF Place
      <4> QED
        BY <4>1
    <3>2. 0 \in Int
      OBVIOUS
    <3> QED
      BY <3>1, <3>2, SumAppend
  <2>3. Append(s, 0) \in Seq(Int) /\ Len(Append(s, 0)) % 2 = 0
    BY <1>1
  <2> QED
    BY <1>1, <2>1, <2>2, <2>3
<1>2. CASE Len(s) % 2 # 1
  <2>1. Len(s) % 2 = 0
    BY <1>2
  <2>2. s \o << >> = s
    OBVIOUS
  <2> QED
    BY <1>2, <2>1, <2>2
<1> QED
  BY <1>1, <1>2

\* A word at an even place adds itself.
LEMMA SumBytes ==
    ASSUME NEW s \in Seq(Int), Len(s) % 2 = 0, NEW h \in Int, NEW l \in Int
    PROVE  /\ s \o <<h, l>> \in Seq(Int) /\ Len(s \o <<h, l>>) % 2 = 0
           /\ SumWords(s \o <<h, l>>) = SumWords(s) + (h * Base + l)
<1> DEFINE t == Append(s, h)
<1>1. t \in Seq(Int) /\ Len(t) = Len(s) + 1 /\ SumWords(s) \in Int
      /\ SumWords(t) = SumWords(s) + h * Place(Len(s) + 1)
  BY SumAppend
<1>2. s \o <<h, l>> = Append(t, l)
  OBVIOUS
<1>3. Len(s) \in Nat
  OBVIOUS
<1> HIDE DEF t
<1>4. Append(t, l) \in Seq(Int) /\ Len(Append(t, l)) = Len(t) + 1 /\ SumWords(t) \in Int
      /\ SumWords(Append(t, l)) = SumWords(t) + l * Place(Len(t) + 1)
  BY <1>1, SumAppend
<1>5. Place(Len(s) + 1) = Base /\ Place(Len(t) + 1) = 1
  BY <1>1, <1>3 DEF Place
<1>6. Base \in Int /\ h * Base \in Int /\ l * 1 = l
  BY ByteType
<1>7. SumWords(Append(t, l)) = (SumWords(s) + h * Base) + l
  BY <1>1, <1>4, <1>5, <1>6
<1>8. (Len(t) + 1) % 2 = 0
  BY <1>1, <1>3
<1>9. (SumWords(s) + h * Base) + l = SumWords(s) + (h * Base + l)
  BY <1>1, <1>6
<1> DEFINE u == Append(t, l)
<1>10. u \in Seq(Int) /\ Len(u) % 2 = 0 /\ SumWords(u) = SumWords(s) + (h * Base + l)
  BY <1>4, <1>7, <1>8, <1>9
<1> HIDE DEF u
<1>11. s \o <<h, l>> = u
  BY <1>2 DEF u
<1> QED
  BY <1>10, <1>11

\* The bytes of a word make it up again.
LEMMA BytesMake ==
    ASSUME NEW w \in Int
    PROVE  /\ w \div Base \in Int /\ w % Base \in Byte
           /\ Bytes(w) = <<w \div Base, w % Base>>
           /\ (w \div Base) * Base + (w % Base) = w
<1>1. w % Base \in 0 .. Base - 1 /\ w \div Base \in Int
      /\ w = Base * (w \div Base) + (w % Base) /\ Base \in Int
  BY ByteType, Split
<1> QED
  BY <1>1 DEF Bytes, Byte

\* What folding takes away is a multiple of the greatest word.
LEMMA FoldedIs ==
    ASSUME NEW x \in Int
    PROVE  \E q \in Int : Folded(x) = x - (WordSize - 1) * q
<1> DEFINE once == (x % WordSize) + (x \div WordSize)
<1>1. WordSize \in Nat \ {0}
  BY WordSizeType
<1> HIDE DEF WordSize
<1>2. x % WordSize \in Int /\ x \div WordSize \in Int
      /\ x = WordSize * (x \div WordSize) + (x % WordSize)
  BY <1>1, Split
<1>3. once \in Int
  BY <1>2
<1> DEFINE p == x \div WordSize
           r == once \div WordSize
<1>4. \A a, b, c \in Int : a = WordSize * b + c => c + b = a - (WordSize - 1) * b
  BY <1>1
<1>5. once = x - (WordSize - 1) * p
  BY <1>2, <1>4
<1> HIDE DEF once
<1>6. once % WordSize \in Int /\ r \in Int /\ once = WordSize * r + (once % WordSize)
  BY <1>1, <1>3, Split
<1>7. (once % WordSize) + r = once - (WordSize - 1) * r
  BY <1>3, <1>4, <1>6
<1>8. p \in Int
  BY <1>2
<1>9. Folded(x) = (once % WordSize) + r
  BY DEF Folded, once
<1> HIDE DEF p, r
<1>10. \A a, b, c, d \in Int : (a - d * b) - d * c = a - d * (b + c)
  OBVIOUS
<1>11. WordSize - 1 \in Int
  BY <1>1
<1>12. Folded(x) = x - (WordSize - 1) * (p + r)
  BY <1>5, <1>6, <1>7, <1>8, <1>9, <1>10, <1>11
<1> QED
  BY <1>6, <1>8, <1>12

\* A multiple has no remainder.
LEMMA MultipleIs ==
    ASSUME NEW w \in Nat \ {0}, NEW k \in Int
    PROVE  (w * k) % w = 0
<1> DEFINE a == w * k
<1>1. a \in Int
  OBVIOUS
<1> HIDE DEF a
<1>2. a % w \in 0 .. w - 1 /\ a \div w \in Int /\ a = w * (a \div w) + (a % w)
  BY <1>1, Split
<1>3. 0 \in 0 .. w - 1 /\ w * k + 0 = w * (a \div w) + (a % w)
  BY <1>2 DEF a
<1>4. a % w = 0
  BY <1>2, <1>3, Unique
<1> QED
  BY <1>4 DEF a

\* With its complement, a sum makes a multiple of the greatest word.
LEMMA ComplementVerifies ==
    ASSUME NEW x \in Int, NEW k \in Int
    PROVE  /\ Complement(Folded(x)) \in Int
           /\ (x + Complement(Folded(x)) + (WordSize - 1) * k) % (WordSize - 1) = 0
<1> DEFINE w == WordSize - 1
<1>1. w \in Nat \ {0}
  <2>1. Base \in Nat /\ Base >= 2 /\ Base * Base >= 2 * Base
    BY BaseAssumption
  <2>2. Base * Base \in Nat
    BY <2>1
  <2> QED
    BY <2>1, <2>2 DEF WordSize
<1>2. PICK q \in Int : Folded(x) = x - w * q
  BY FoldedIs
<1> DEFINE c == Complement(Folded(x))
<1>3. c = w - Folded(x)
  BY DEF Complement
<1> HIDE DEF w, c
<1>4. w * q \in Int /\ w * k \in Int
  BY <1>1
<1>5. x - w * q \in Int
  BY <1>4
<1>6. c \in Int /\ x + c + w * k = w + w * q + w * k
  BY <1>1, <1>2, <1>3, <1>4, <1>5
<1>7. w + w * q + w * k = w * (1 + q + k)
  BY <1>1
<1>8. 1 + q + k \in Int
  BY <1>2
<1>9. (x + c + w * k) % w = 0
  BY <1>1, <1>6, <1>7, <1>8, MultipleIs
<1> QED
  BY <1>6, <1>9 DEF w, c

\* Two rounds are enough: whatever fits into two words is folded into one.
LEMMA FoldedFits ==
    ASSUME NEW x \in 0 .. WordSize * WordSize - 1
    PROVE  Folded(x) \in Word
<1> DEFINE W == WordSize
<1>1. W \in Nat \ {0}
  BY WordSizeType
<1> HIDE DEF W
<1>2. x \in Nat /\ x < W * W /\ W * W \in Nat
  BY <1>1 DEF W
<1> DEFINE r == x % W
           q == x \div W
<1>3. r \in 0 .. W - 1 /\ q \in Nat /\ x = W * q + r
  <2>1. r \in 0 .. W - 1 /\ x = W * q + r
    BY <1>1, <1>2, Split, x \in Int
  <2>2. q \in Nat
    BY <1>1, <1>2, Quotient
  <2> QED
    BY <2>1, <2>2
<1> HIDE DEF r, q
<1>4. q < W
  <2>1. q >= W => W * q >= W * W
    BY <1>1, <1>3
  <2>2. W * q \in Nat
    BY <1>1, <1>3
  <2> QED
    BY <1>1, <1>2, <1>3, <2>1, <2>2
<1> DEFINE once == r + q
           s == once % W
           p == once \div W
<1>5. once \in Nat /\ once <= 2 * W - 2
  BY <1>1, <1>3, <1>4
<1> HIDE DEF once
<1>6. s \in 0 .. W - 1 /\ p \in Nat /\ once = W * p + s
  <2>1. s \in 0 .. W - 1 /\ once = W * p + s
    BY <1>1, <1>5, Split, once \in Int
  <2>2. p \in Nat
    BY <1>1, <1>5, Quotient
  <2> QED
    BY <2>1, <2>2
<1> HIDE DEF s, p
<1>7. p = 0 \/ (p = 1 /\ W * p = W)
  <2>1. p >= 2 => W * p >= 2 * W
    BY <1>1, <1>6
  <2>2. W * p \in Nat
    BY <1>1, <1>6
  <2>3. ~ (p >= 2)
    BY <1>1, <1>5, <1>6, <2>1, <2>2
  <2> QED
    BY <1>1, <1>6, <2>3
<1>8. s + p \in 0 .. W - 1
  BY <1>1, <1>5, <1>6, <1>7
<1>9. Folded(x) = s + p
  BY DEF Folded, W, r, q, once, s, p
<1> QED
  BY <1>8, <1>9 DEF Word, W

\* The receiver of a buffer with its checksum finds that it verifies.
LEMMA ChecksumVerifies ==
    ASSUME NEW s \in Seq(Int), NEW extra \in Int
    PROVE  Verifies(s \o (IF Len(s) % 2 = 1 THEN <<0>> ELSE << >>)
                      \o Bytes(checksum(s, extra)), extra)
<1> DEFINE p == s \o (IF Len(s) % 2 = 1 THEN <<0>> ELSE << >>)
           x == extra + SumWords(s)
           c == Complement(Folded(x))
<1>1. p \in Seq(Int) /\ Len(p) % 2 = 0 /\ SumWords(p) = SumWords(s)
  BY SumPadded
<1>2. SumWords(s) \in Int
  BY SumAppend, 0 \in Int
<1>3. x \in Int
  BY <1>2
<1>4. checksum(s, extra) = c
  BY DEF checksum
<1> HIDE DEF p, x, c
<1>5. c \in Int /\ (x + c) % (WordSize - 1) = 0
  <2>1. 0 \in Int /\ (WordSize - 1) * 0 = 0
    <3>1. WordSize - 1 \in Int
      BY WordSizeType
    <3> QED
      BY <3>1
  <2>2. c \in Int /\ (x + c + (WordSize - 1) * 0) % (WordSize - 1) = 0
    BY <1>3, <2>1, ComplementVerifies DEF c
  <2> QED
    BY <1>3, <2>1, <2>2
<1> DEFINE h == c \div Base
           l == c % Base
<1>6. h \in Int /\ l \in Int /\ Bytes(c) = <<h, l>> /\ h * Base + l = c
  BY <1>5, BytesMake DEF Byte
<1> HIDE DEF h, l
<1>7. SumWords(p \o <<h, l>>) = SumWords(s) + c
  BY <1>1, <1>6, SumBytes
<1>8. extra + (SumWords(s) + c) = x + c
  BY <1>2, <1>5 DEF x
<1>9. Verifies(p \o <<h, l>>, extra)
  BY <1>5, <1>7, <1>8 DEF Verifies
<1> QED
  BY <1>4, <1>6, <1>9 DEF p

-----------------------------------------------------------------------------
(* The counters of the main loop.                                         *)

\* Both sides of a sum of words can grow by the same.
LEMMA AddBoth ==
    ASSUME NEW c \in Word, NEW s \in Word, NEW u \in Word, NEW n \in Nat,
           u = (c + s) % WordSize
    PROVE  (u + n) % WordSize = (((c + n) % WordSize) + s) % WordSize
<1>1. WordSize \in Nat \ {0} /\ c \in Int /\ s \in Int /\ n \in Int
  BY WordSizeType DEF Word
<1> HIDE DEF WordSize
<1>2. c + s \in Int /\ c + n \in Int /\ (c + s) + n = (c + n) + s
  BY <1>1
<1>3. (((c + s) % WordSize) + n) % WordSize = ((c + s) + n) % WordSize
  BY <1>1, <1>2, ModPlus
<1>4. (((c + n) % WordSize) + s) % WordSize = ((c + n) + s) % WordSize
  BY <1>1, <1>2, ModPlus
<1> QED
  BY <1>2, <1>3, <1>4

\* What is taken away from a sum leaves the rest.
LEMMA TakeAway ==
    ASSUME NEW c \in Word, NEW s \in Word, NEW u \in Word, u = (c + s) % WordSize
    PROVE  (u - s) % WordSize = c
<1>1. WordSize \in Nat \ {0} /\ c \in 0 .. WordSize - 1 /\ s \in Int /\ -s \in Int
  BY WordSizeType DEF Word
<1> HIDE DEF WordSize
<1>2. c \in Int /\ c + s \in Int
  BY <1>1
<1>3. (((c + s) % WordSize) + (-s)) % WordSize = ((c + s) + (-s)) % WordSize
  BY <1>1, <1>2, ModPlus
<1>4. (c + s) + (-s) = c
  BY <1>1, <1>2
<1>5. u \in Int /\ u - s = u + (-s)
  BY <1>1 DEF Word
<1>6. c % WordSize = c
  BY <1>1, ModSame
<1> QED
  BY <1>3, <1>4, <1>5, <1>6

-----------------------------------------------------------------------------
(* The invariant.                                                          *)

\* The counters and the history have their types.
CountsType == /\ counts \in [Counter -> Word]
              /\ unreported \in [Exact -> Word]
              /\ saved \in [all : Word, udp : Word]

\* What werkti_maybe_report puts aside is gone once it has been told.
SavedTold == /\ saved.all # 0 => pc = "all"
             /\ saved.udp # 0 => pc \in {"all", "arp", "icmp", "udp"}

IInv == CountsType /\ SavedTold /\ BytesConserved

\* What is put aside for a counter.
Aside(k) == IF k = <<"all", "out">> THEN saved.all
            ELSE IF k = <<"udp", "out">> THEN saved.udp
            ELSE 0

\* What is due in reports is in the counters of c and put aside.
Balanced(c, u) == \A k \in Exact : u[k] = (c[k] + Aside(k)) % WordSize

\* The property, for the counters as they are.
LEMMA ConservedIsBalanced == BytesConserved <=> Balanced(counts, unreported)
BY DEF BytesConserved, Balanced, Aside

\* Words are put aside.
LEMMA AsideType == CountsType => \A k : Aside(k) \in Word
BY WordSizeType DEF CountsType, Aside

\* The exact counters are counters.
LEMMA ExactCounters == Exact \subseteq Counter
BY DEF Exact

\* Counts that grow stay words, what they did not grow by included.
LEMMA CountedType ==
    ASSUME NEW D, NEW f \in [D -> Word], NEW ks, NEW n \in Nat
    PROVE  /\ Counted(f, ks, n) \in [D -> Word]
           /\ \A k \in D : Counted(f, ks, n)[k] =
                             IF k \in ks THEN (f[k] + n) % WordSize ELSE f[k]
<1>1. \A k \in D : (f[k] + n) % WordSize \in Word
  <2> SUFFICES ASSUME NEW k \in D
               PROVE  (f[k] + n) % WordSize \in Word
    OBVIOUS
  <2>1. f[k] + n \in Int
    BY DEF Word
  <2> QED
    BY <2>1, WordSizeType
<1> HIDE DEF Word, WordSize
<1> QED
  BY <1>1 DEF Counted

\* Counting the same on both sides keeps the balance.
LEMMA CountedBalance ==
    ASSUME CountsType, NEW c \in [Counter -> Word], NEW u \in [Exact -> Word],
           Balanced(c, u), NEW ks, NEW n \in Nat
    PROVE  Balanced(Counted(c, ks, n), Counted(u, ks, n))
<1> SUFFICES ASSUME NEW k \in Exact
             PROVE  Counted(u, ks, n)[k] = (Counted(c, ks, n)[k] + Aside(k)) % WordSize
  BY DEF Balanced
<1>1. c[k] \in Word /\ u[k] \in Word /\ Aside(k) \in Word
  BY AsideType, ExactCounters
<1>2. u[k] = (c[k] + Aside(k)) % WordSize
  BY DEF Balanced
<1>3. (u[k] + n) % WordSize = (((c[k] + n) % WordSize) + Aside(k)) % WordSize
  BY <1>1, <1>2, AddBoth
<1>4. /\ Counted(u, ks, n)[k] = IF k \in ks THEN (u[k] + n) % WordSize ELSE u[k]
      /\ Counted(c, ks, n)[k] = IF k \in ks THEN (c[k] + n) % WordSize ELSE c[k]
  BY CountedType, ExactCounters
<1> QED
  BY <1>2, <1>3, <1>4

\* An exchange is two such counts.
LEMMA ExchangeBalance ==
    ASSUME CountsType, Balanced(counts, unreported),
           NEW class, NEW in \in Nat, NEW out \in Nat
    PROVE  /\ Exchange(counts, class, in, out) \in [Counter -> Word]
           /\ Exchange(unreported, class, in, out) \in [Exact -> Word]
           /\ Balanced(Exchange(counts, class, in, out), Exchange(unreported, class, in, out))
<1> DEFINE received == {<<"all", "in">>, <<class, "in">>}
           sent == {<<"all", "out">>, <<class, "out">>}
           c == Counted(counts, received, in)
           u == Counted(unreported, received, in)
<1>1. c \in [Counter -> Word] /\ u \in [Exact -> Word]
  BY CountedType DEF CountsType
<1>2. Balanced(c, u)
  BY CountedBalance DEF CountsType
<1> HIDE DEF c, u
<1>3. /\ Counted(c, sent, out) \in [Counter -> Word]
      /\ Counted(u, sent, out) \in [Exact -> Word]
      /\ Balanced(Counted(c, sent, out), Counted(u, sent, out))
  BY <1>1, <1>2, CountedType, CountedBalance
<1> QED
  BY <1>3 DEF Exchange, c, u

\* The loop starts with nothing counted.
LEMMA InitIInv == Init => IInv
<1> SUFFICES ASSUME Init
             PROVE  IInv
  OBVIOUS
<1>1. CountsType /\ SavedTold
  BY WordSizeType DEF Init, CountsType, SavedTold
<1>2. (0 + 0) % WordSize = 0
  BY WordSizeType, ModSame
<1>3. Balanced(counts, unreported)
  BY <1>2, ExactCounters DEF Init, Balanced, Aside
<1> QED
  BY <1>1, <1>3, ConservedIsBalanced DEF IInv


\* Lengths are natural numbers.
LEMMA LengthTypes ==
    /\ FrameLengths \subseteq Nat
    /\ {0, SegmentLen, 2 * SegmentLen, ReportLen} \subseteq Nat
BY LoopAssumption DEF Word

\* A frame that is counted the same for the report as for the counters.
LEMMA TallyIInv ==
    ASSUME IInv, NEW class, NEW in \in Nat, NEW out \in Nat, Tally(class, in, out),
           pc = "backbone", pc' \in {"read", "copying"}, UNCHANGED saved
    PROVE  IInv'
<1>1. /\ counts' \in [Counter -> Word] /\ unreported' \in [Exact -> Word]
      /\ Balanced(counts', unreported')
  BY ExchangeBalance, ConservedIsBalanced DEF IInv, Tally
<1>2. CountsType' /\ SavedTold'
  BY <1>1 DEF IInv, CountsType, SavedTold
<1> QED
  BY <1>1, <1>2 DEF IInv, Balanced, Aside, BytesConserved

\* Every kind of frame keeps it; a DHCP answer counts twice for the one counter
\* that is not exact.
LEMMA FrameIInv ==
    ASSUME IInv, NEW n \in FrameLengths,
           \/ OtherFrame(n) \/ ArpFrame(n) \/ IcmpFrame(n)
           \/ UdpFrame(n) \/ DhcpFrame(n) \/ TcpFrame(n)
           \/ \E rest \in Word : PingFrame(n, rest)
    PROVE  IInv'
<1>0. n \in Nat
  BY LengthTypes
<1>1. pc = "backbone" /\ pc' \in {"read", "copying"} /\ UNCHANGED saved
  BY DEF OtherFrame, ArpFrame, IcmpFrame, UdpFrame, DhcpFrame, TcpFrame, PingFrame, Taken
<1>2. CASE OtherFrame(n)
  BY <1>0, <1>1, <1>2, TallyIInv DEF OtherFrame
<1>3. CASE ArpFrame(n)
  BY <1>0, <1>1, <1>3, LengthTypes, TallyIInv DEF ArpFrame
<1>4. CASE IcmpFrame(n)
  BY <1>0, <1>1, <1>4, TallyIInv DEF IcmpFrame
<1>5. CASE UdpFrame(n)
  BY <1>0, <1>1, <1>5, LengthTypes, TallyIInv DEF UdpFrame
<1>6. CASE TcpFrame(n)
  BY <1>0, <1>1, <1>6, LengthTypes, TallyIInv DEF TcpFrame
<1>7. CASE \E rest \in Word : PingFrame(n, rest)
  <2>1. \E out \in {0, n} : Tally("icmp", n, out)
    BY <1>7 DEF PingFrame
  <2> QED
    BY <1>0, <1>1, <2>1, TallyIInv
<1>8. CASE DhcpFrame(n)
  <2> DEFINE c == Exchange(counts, "udp", n, 0)
             u == Exchange(unreported, "udp", n, 0)
  <2>1. c \in [Counter -> Word] /\ u \in [Exact -> Word] /\ Balanced(c, u)
    BY <1>0, ExchangeBalance, ConservedIsBalanced DEF IInv
  <2>2. counts' = Counted(c, {<<"udp", "in">>}, n) /\ unreported' = u
    BY <1>8 DEF DhcpFrame
  <2> HIDE DEF c, u
  <2>3. counts' \in [Counter -> Word] /\ \A k \in Exact : counts'[k] = c[k]
    BY <1>0, <2>1, <2>2, CountedType, ExactCounters DEF Exact
  <2>4. Balanced(counts', unreported')
    BY <2>1, <2>2, <2>3 DEF Balanced
  <2>5. CountsType' /\ SavedTold'
    BY <1>1, <2>1, <2>2, <2>3 DEF IInv, CountsType, SavedTold
  <2> QED
    BY <1>1, <2>4, <2>5 DEF IInv, Balanced, Aside, BytesConserved
<1> QED
  BY <1>2, <1>3, <1>4, <1>5, <1>6, <1>7, <1>8

\* What is put aside is what the counters lose.
LEMMA SaveOutIInv == IInv /\ SaveOut => IInv'
<1> SUFFICES ASSUME IInv, SaveOut
             PROVE  IInv'
  OBVIOUS
<1>1. saved.all = 0 /\ saved.udp = 0 /\ pc' = "all"
  BY DEF IInv, SavedTold, SaveOut
<1>2. <<"all", "out">> \in Exact /\ <<"udp", "out">> \in Exact
  BY DEF Exact, Counter, Class
<1>3. CountsType' /\ SavedTold'
  BY <1>1, <1>2, ExactCounters, WordSizeType DEF IInv, CountsType, SavedTold, SaveOut
<1>4. ASSUME NEW k \in Exact
      PROVE  unreported'[k] = (counts'[k] + Aside(k)') % WordSize
  <2>1. unreported'[k] = (counts[k] + 0) % WordSize
    BY <1>1, ConservedIsBalanced DEF IInv, Balanced, Aside, SaveOut
  <2>2. counts'[k] + Aside(k)' = counts[k] + 0
    BY <1>2, <1>4, ExactCounters DEF IInv, CountsType, SaveOut, Aside, Word
  <2> QED
    BY <2>1, <2>2
<1> QED
  BY <1>3, <1>4 DEF IInv, BytesConserved, Aside


\* A report tells what is due of its class, no more and no less, and is itself
\* due in the next one.
LEMMA ReportIInv ==
    ASSUME IInv, NEW class \in Class, Report(class)
    PROVE  IInv'
<1> DEFINE own == {<<"all", "out">>, <<"udp", "out">>}
           sent == Counted(counts, own, ReportLen)
           settled == [k \in Exact |->
                        CASE k = <<class, "in">>  -> (unreported[k] - counts[k]) % WordSize
                          [] k = <<class, "out">> -> (unreported[k] - Told(class)) % WordSize
                          [] OTHER                -> unreported[k]]
           told == IF class \in {"all", "udp"} THEN {<<class, "in">>}
                                               ELSE {<<class, "in">>, <<class, "out">>}
<1>1. /\ pc = class /\ pc' = Following(class)
      /\ counts' = IF class \in {"all", "udp"}
                     THEN [sent EXCEPT ![<<class, "in">>] = 0]
                     ELSE [sent EXCEPT ![<<class, "in">>] = 0, ![<<class, "out">>] = 0]
      /\ unreported' = Counted(settled, own, ReportLen)
      /\ saved' = IF class \in {"all", "udp"} THEN [saved EXCEPT ![class] = 0] ELSE saved
  BY DEF Report
<1>2. ReportLen \in Nat /\ 0 \in Word /\ CountsType /\ own \subseteq Exact
  BY LengthTypes, WordSizeType DEF IInv, Exact, Counter, Class
<1>3. sent \in [Counter -> Word]
      /\ \A k \in Counter : sent[k] = IF k \in own THEN (counts[k] + ReportLen) % WordSize
                                                   ELSE counts[k]
  BY <1>2, CountedType DEF CountsType
<1>4. \A k \in Exact : settled[k] \in Word
  <2> SUFFICES ASSUME NEW k \in Exact
               PROVE  settled[k] \in Word
    OBVIOUS
  <2>1. counts[k] \in Word /\ unreported[k] \in Word
    BY <1>2, ExactCounters DEF CountsType
  <2>2. k = <<class, "out">> => Told(class) \in Word
    BY <1>2, <2>1 DEF Told, CountsType
  <2>3. \A a, b \in Word : (a - b) % WordSize \in Word
    <3> SUFFICES ASSUME NEW a \in Word, NEW b \in Word
                 PROVE  (a - b) % WordSize \in Word
      OBVIOUS
    <3>1. a - b \in Int
      BY DEF Word
    <3> QED
      BY <3>1, WordSizeType
  <2> QED
    BY <2>1, <2>2, <2>3
<1>5. settled \in [Exact -> Word]
  BY <1>4
<1> HIDE DEF sent, settled
<1>6. /\ unreported' \in [Exact -> Word]
      /\ \A k \in Exact : unreported'[k] = IF k \in own THEN (settled[k] + ReportLen) % WordSize
                                                        ELSE settled[k]
  BY <1>1, <1>2, <1>5, CountedType
<1>7. /\ counts' \in [Counter -> Word]
      /\ \A k \in Counter : counts'[k] = IF k \in told THEN 0 ELSE sent[k]
  BY <1>1, <1>2, <1>3
<1>8. saved' \in [all : Word, udp : Word]
  BY <1>1, <1>2 DEF CountsType
<1>9. SavedTold'
  BY <1>1, <1>2 DEF IInv, SavedTold, CountsType, Following, Class
<1>10. ASSUME NEW k \in Exact
       PROVE  unreported'[k] = (counts'[k] + Aside(k)') % WordSize
  <2>1. /\ counts[k] \in Word /\ unreported[k] \in Word /\ Aside(k) \in Word
        /\ unreported[k] = (counts[k] + Aside(k)) % WordSize
        /\ k \in Counter
    BY <1>2, AsideType, ExactCounters, ConservedIsBalanced DEF IInv, CountsType, Balanced
  <2>2. (0 + 0) % WordSize = 0
    BY WordSizeType, ModSame
  \* What came in, and what was sent by a protocol that reports do not use.
  <2>3. CASE k \in told
    <3>1. k \notin own /\ Aside(k) = 0 /\ Aside(k)' = 0
      BY <2>3 DEF Aside, Class
    <3>2. unreported[k] = counts[k]
      <4>1. counts[k] + 0 = counts[k] /\ counts[k] \in 0 .. WordSize - 1
        BY <2>1 DEF Word
      <4> QED
        BY <2>1, <3>1, <4>1, ModSame, WordSizeType
    <3>3. settled[k] = (unreported[k] - counts[k]) % WordSize
      BY <2>3 DEF settled, Told
    <3>4. unreported[k] - counts[k] = 0 /\ 0 + 0 = 0
      BY <2>1, <3>2 DEF Word
    <3>5. settled[k] = 0
      BY <2>2, <3>3, <3>4
    <3> QED
      BY <1>6, <1>7, <2>1, <2>2, <2>3, <3>1, <3>5
  \* What was put aside: the report itself stays in the counter.
  <2>4. CASE k = <<class, "out">> /\ k \notin told
    <3>1. k \in own /\ Aside(k) = Told(class) /\ Aside(k)' = 0
      BY <1>1, <1>2, <2>4 DEF Aside, Told, CountsType
    <3>2. settled[k] = (unreported[k] - Aside(k)) % WordSize
      BY <2>4, <3>1 DEF settled
    <3>3. settled[k] = counts[k]
      BY <2>1, <3>2, TakeAway
    <3>4. counts'[k] = (counts[k] + ReportLen) % WordSize
      BY <1>3, <1>7, <2>1, <2>4, <3>1
    <3>5. counts'[k] + 0 = counts'[k] /\ counts'[k] \in 0 .. WordSize - 1
      BY <1>7, <2>1 DEF Word
    <3>6. (counts'[k] + 0) % WordSize = counts'[k]
      BY <3>5, ModSame, WordSizeType
    <3> QED
      BY <1>6, <3>1, <3>3, <3>4, <3>6
  \* The rest, of which the other counter of bytes sent grows by the report.
  <2>5. CASE k # <<class, "out">> /\ k # <<class, "in">>
    <3>1. settled[k] = unreported[k] /\ k \notin told
      BY <2>5 DEF settled
    <3>2. Aside(k)' = Aside(k)
      BY <1>1, <1>2, <2>5 DEF Aside, CountsType
    <3>3. counts'[k] = IF k \in own THEN (counts[k] + ReportLen) % WordSize ELSE counts[k]
      BY <1>3, <1>7, <2>1, <3>1
    <3>4. (unreported[k] + ReportLen) % WordSize
             = (((counts[k] + ReportLen) % WordSize) + Aside(k)) % WordSize
      BY <1>2, <2>1, AddBoth
    <3> QED
      BY <1>6, <2>1, <3>1, <3>2, <3>3, <3>4
  <2> QED
    BY <2>3, <2>4, <2>5
<1> QED
  BY <1>6, <1>7, <1>8, <1>9, <1>10 DEF IInv, CountsType, BytesConserved, Aside

\* The invariant holds along every step; the clock is none of its business.
LEMMA StepIInv == IInv /\ [Next]_vars => IInv'
<1> SUFFICES ASSUME IInv, [Next]_vars
             PROVE  IInv'
  OBVIOUS
<1>1. CASE \E n \in FrameLengths :
             \/ OtherFrame(n) \/ ArpFrame(n) \/ IcmpFrame(n)
             \/ UdpFrame(n) \/ DhcpFrame(n) \/ TcpFrame(n)
  BY <1>1, FrameIInv
<1>2. CASE \E n \in FrameLengths, rest \in Word : PingFrame(n, rest)
  BY <1>2, FrameIInv
<1>3. CASE SaveOut
  BY <1>3, SaveOutIInv
<1>4. CASE \E class \in Class : Report(class)
  BY <1>4, ReportIInv
<1>5. CASE \/ Tick \/ NoFrame \/ ReadFirst \/ NotYet \/ ZeroFirst \/ ZeroSecond
           \/ UNCHANGED vars
  <2>1. /\ UNCHANGED <<counts, unreported, saved>>
        /\ pc' = pc \/ pc \notin {"all", "arp", "icmp", "udp"}
    BY <1>5 DEF Tick, NoFrame, ReadFirst, NotYet, ZeroFirst, ZeroSecond, vars
  <2> QED
    BY <2>1 DEF IInv, CountsType, SavedTold, BytesConserved
<1>6. CASE SendRenewal
  BY <1>6, LengthTypes, TallyIInv DEF SendRenewal, Taken
<1> QED
  BY <1>1, <1>2, <1>3, <1>4, <1>5, <1>6 DEF Next

\* Each byte received or sent is told by exactly one report, modulo the width
\* of the counters, although every report is itself traffic that is counted
\* while the counters are being reset (utils/werkti.c, werkti_maybe_report).
THEOREM BytesStayConserved == Spec => []BytesConserved
<1>1. Init => IInv
  BY InitIInv
<1>2. IInv /\ [Next]_vars => IInv'
  BY StepIInv
<1>3. IInv => BytesConserved
  BY DEF IInv
<1> QED
  BY <1>1, <1>2, <1>3, PTL DEF Spec

-----------------------------------------------------------------------------
(* The answer to a ping.                                                   *)

\* Three words add up.
LEMMA SumThree ==
    ASSUME NEW a \in Int, NEW b \in Int, NEW c \in Int,
           NEW d \in Int, NEW e \in Int, NEW f \in Int
    PROVE  SumWords(<<a, b, c, d, e, f>>)
                = ((a * Base + b) + (c * Base + d)) + (e * Base + f)
<1> DEFINE s == <<a, b, c, d, e, f>>
<1>1. /\ s \in Seq(Int) /\ Len(s) = 6
      /\ s[1] = a /\ s[2] = b /\ s[3] = c /\ s[4] = d /\ s[5] = e /\ s[6] = f
  OBVIOUS
<1> HIDE DEF s
<1>2. PICK g \in [0 .. Len(s) -> Int] :
         /\ g[0] = 0 /\ \A k \in 1 .. Len(s) : g[k] = g[k - 1] + s[k] * Place(k)
         /\ SumWords(s) = g[Len(s)]
  BY <1>1, SumIs
<1>3. /\ Place(1) = Base /\ Place(2) = 1 /\ Place(3) = Base
      /\ Place(4) = 1 /\ Place(5) = Base /\ Place(6) = 1
  BY DEF Place
<1>4. /\ g[1] = g[0] + a * Base /\ g[2] = g[1] + b * 1 /\ g[3] = g[2] + c * Base
      /\ g[4] = g[3] + d * 1 /\ g[5] = g[4] + e * Base /\ g[6] = g[5] + f * 1
  BY <1>1, <1>2, <1>3
<1> DEFINE A == a * Base
           C == c * Base
           E == e * Base
<1>5. A \in Int /\ C \in Int /\ E \in Int
  BY ByteType
<1> HIDE DEF A, C, E
<1>6. g[1] = A /\ g[2] = A + b
  BY <1>2, <1>4, <1>5 DEF A
<1>7. g[3] = A + b + C /\ g[4] = A + b + C + d
  BY <1>4, <1>5, <1>6 DEF C
<1>8. g[5] = A + b + C + d + E /\ g[6] = A + b + C + d + E + f
  BY <1>4, <1>5, <1>7 DEF E
<1>9. g[6] = ((A + b) + (C + d)) + (E + f)
  BY <1>5, <1>8
<1> QED
  BY <1>1, <1>2, <1>9 DEF s, A, C, E

\* The bytes of a word are bytes.
LEMMA BytesOfWord ==
    ASSUME NEW w \in Word
    PROVE  w \div Base \in Byte
<1> DEFINE h == w \div Base
           l == w % Base
<1>1. w \in Nat /\ w < Base * Base /\ Base \in Nat \ {0}
  BY ByteType DEF Word, WordSize
<1>2. h \in Nat /\ l \in Nat /\ h * Base + l = w
  <2>1. h \in Nat
    BY <1>1, Quotient
  <2>2. w \in Int
    BY <1>1
  <2>3. l \in Byte /\ h * Base + l = w
    BY <2>2, BytesMake
  <2> QED
    BY <2>1, <2>3 DEF Byte
<1> HIDE DEF h, l
<1>3. h >= Base => h * Base >= Base * Base
  BY <1>1, <1>2
<1>4. h * Base \in Nat /\ Base * Base \in Nat
  BY <1>1, <1>2
<1>5. h < Base
  BY <1>1, <1>2, <1>3, <1>4
<1>6. h \in Byte
  BY <1>1, <1>2, <1>5 DEF Byte
<1> QED
  BY <1>6 DEF h

\* The adjusted checksum is that of the answer, unless the low byte carries.
LEMMA PingVerifies ==
    ASSUME NEW rest \in Word
    PROVE  LET request == PingRequest(rest)
           IN  \/ Verifies(icmp_ping_reply(request), 0)
               \/ CarryLost(request[3], request[4])
<1> DEFINE E == EchoRequest
           e == rest \div Base
           f == rest % Base
           x == E * Base + rest
           c == Complement(Folded(x))
           h == c \div Base
           l == c % Base
           B == Base
<1>1. E \in 0 .. B - 1 /\ B \in Nat \ {0} /\ B >= 2
  BY LoopAssumption, BaseAssumption DEF Byte
<1>2. rest \in Nat /\ rest < B * B
  BY <1>1 DEF Word, WordSize
<1>3. e \in Int /\ f \in Int /\ Bytes(rest) = <<e, f>> /\ e * Base + f = rest
  BY <1>2, BytesMake DEF Byte
<1> HIDE DEF e, f
<1>4. x \in 0 .. WordSize * WordSize - 1
  <2>1. E * B <= B * B /\ E * B \in Nat /\ B * B \in Nat
    BY <1>1
  <2>2. x \in Nat /\ x < 2 * (B * B)
    BY <1>1, <1>2, <2>1
  <2>3. B * B >= 4
    <3>1. B * B >= 2 * B
      BY <1>1
    <3> QED
      BY <1>1, <2>1, <3>1
  <2> DEFINE W == B * B
  <2>4. W \in Nat /\ W >= 4 /\ x < 2 * W
    BY <2>1, <2>2, <2>3
  <2> HIDE DEF W
  <2>5. W * W >= 4 * W /\ W * W \in Nat
    BY <2>4
  <2>6. x < W * W
    BY <2>2, <2>4, <2>5
  <2> HIDE DEF x
  <2>7. x \in 0 .. W * W - 1
    BY <2>2, <2>5, <2>6
  <2> QED
    BY <2>7 DEF W, WordSize
<1>5. checksum(Icmp(E, <<0, 0>>, rest), 0) = c
  <2>1. SumWords(<<E, 0, 0, 0, e, f>>)
          = ((E * Base + 0) + (0 * Base + 0)) + (e * Base + f)
    <3>1. E \in Int /\ 0 \in Int
      BY <1>1
    <3> HIDE DEF E
    <3> QED
      BY <1>3, <3>1, SumThree
  <2>2. E * Base \in Int /\ 0 * Base = 0
    BY <1>1
  <2>3. 0 + SumWords(<<E, 0, 0, 0, e, f>>) = x
    BY <1>2, <1>3, <2>1, <2>2
  <2>4. Icmp(E, <<0, 0>>, rest) = <<E, 0, 0, 0, e, f>>
    BY DEF Icmp, e, f
  <2> QED
    BY <2>3, <2>4 DEF checksum
<1>6. x \in Int /\ E * Base \in Int
  BY <1>1, <1>2
<1> HIDE DEF x
<1>7. c \in Word
  <2>1. Folded(x) \in 0 .. WordSize - 1
    BY <1>4, FoldedFits DEF Word
  <2>2. WordSize \in Nat
    BY WordSizeType
  <2> HIDE DEF WordSize
  <2> QED
    BY <2>1, <2>2 DEF Complement, Word
<1> HIDE DEF c
<1>8. c \in Int /\ \A k \in Int : (x + c + (WordSize - 1) * k) % (WordSize - 1) = 0
  BY <1>6, ComplementVerifies DEF c
<1>9. h \in Byte /\ l \in Byte /\ Bytes(c) = <<h, l>> /\ h * Base + l = c
  BY <1>7, <1>8, BytesMake, BytesOfWord
<1>10. h \in 0 .. B - 1 /\ l \in 0 .. B - 1
  BY <1>9 DEF Byte
<1> HIDE DEF h, l
<1>11. PingRequest(rest) = <<E, 0, h, l, e, f>>
  BY <1>5, <1>9 DEF PingRequest, Icmp, e, f
<1> DEFINE h2 == (h + E) % B
           l2 == IF h > B - 1 - E THEN (l + 1) % B ELSE l
           reply == icmp_ping_reply(PingRequest(rest))
<1>12. reply = <<0, 0, h2, l2, e, f>>
  BY <1>11 DEF icmp_ping_reply, AdjustChecksum
<1>13. h2 \in Int /\ l2 \in Int
  BY <1>1, <1>10
<1> HIDE DEF reply
<1>14. 0 + SumWords(reply) = (h2 * B + l2) + rest
  <2> HIDE DEF h2, l2
  <2>1. SumWords(reply) = ((0 * Base + 0) + (h2 * Base + l2)) + (e * Base + f)
    BY <1>3, <1>12, <1>13, SumThree, 0 \in Int
  <2>2. h2 * Base \in Int /\ 0 * Base = 0
    BY <1>1, <1>13
  <2> QED
    BY <1>2, <1>3, <1>13, <2>1, <2>2
<1>15. CASE ~ (h > B - 1 - E)
  <2>1. h2 = h + E /\ l2 = l
    BY <1>1, <1>10, <1>15
  <2>2. (h + E) * B = h * B + E * B /\ h * B \in Int
    BY <1>1, <1>10
  <2>3. (h2 * B + l2) + rest = x + c
    <3> HIDE DEF h2, l2
    <3> QED
      BY <1>2, <1>6, <1>9, <1>10, <2>1, <2>2 DEF x
  <2>4. (x + c) % (WordSize - 1) = 0
    <3>1. 0 \in Int /\ (WordSize - 1) * 0 = 0
      <4>1. WordSize - 1 \in Int
        BY WordSizeType
      <4> QED
        BY <4>1
    <3>2. (x + c + (WordSize - 1) * 0) % (WordSize - 1) = 0
      BY <1>8, <3>1
    <3> QED
      BY <1>6, <1>8, <3>1, <3>2
  <2>5. Verifies(reply, 0)
    <3> HIDE DEF h2, l2
    <3> QED
      BY <1>14, <2>3, <2>4 DEF Verifies
  <2> QED
    BY <2>5 DEF reply
<1>16. CASE h > B - 1 - E /\ l # B - 1
  <2>1. l2 = l + 1
    BY <1>1, <1>10, <1>16
  <2>2. h2 = h + E - B
    BY <1>1, <1>10, <1>16
  <2>3. (h + E - B) * B = h * B + E * B - B * B /\ h * B \in Int /\ B * B \in Int
    BY <1>1, <1>10
  <2>4. (h2 * B + l2) + rest = x + c + (WordSize - 1) * (-1)
    <3> HIDE DEF h2, l2
    <3>1. (WordSize - 1) * (-1) = 1 - B * B
      BY <2>3 DEF WordSize
    <3> QED
      BY <1>2, <1>6, <1>9, <1>10, <2>1, <2>2, <2>3, <3>1 DEF x
  <2>5. -1 \in Int
    OBVIOUS
  <2>6. Verifies(reply, 0)
    <3> HIDE DEF h2, l2
    <3> QED
      BY <1>8, <1>14, <2>4, <2>5 DEF Verifies
  <2> QED
    BY <2>6 DEF reply
<1>17. CASE h > B - 1 - E /\ l = B - 1
  <2>1. CarryLost(h, l)
    BY <1>17 DEF CarryLost
  <2>2. PingRequest(rest)[3] = h /\ PingRequest(rest)[4] = l
    BY <1>11
  <2> QED
    BY <2>1, <2>2
<1> QED
  BY <1>15, <1>16, <1>17

\* The last ping answered is one that the sender made, with its checksum.
EchoOK == echo # NoEcho =>
    \E rest \in Word : echo = [request |-> PingRequest(rest),
                               reply |-> icmp_ping_reply(PingRequest(rest))]

\* It is answered whole, or forgotten.
LEMMA StepEchoOK == EchoOK /\ [Next]_vars => EchoOK'
<1> SUFFICES ASSUME EchoOK, [Next]_vars
             PROVE  EchoOK'
  OBVIOUS
<1> USE DEF EchoOK
<1>1. CASE \E n \in FrameLengths, rest \in Word : PingFrame(n, rest)
  <2>1. PICK n \in FrameLengths, rest \in Word : PingFrame(n, rest)
    BY <1>1
  <2>2. \/ UNCHANGED echo
        \/ echo' = [request |-> PingRequest(rest), reply |-> icmp_ping_reply(PingRequest(rest))]
    BY <2>1 DEF PingFrame
  <2> HIDE DEF Word
  <2> QED
    BY <2>2
<1>2. CASE echo' = NoEcho
  BY <1>2
<1>3. CASE UNCHANGED echo
  BY <1>3
<1>4. CASE \E n \in FrameLengths :
             \/ OtherFrame(n) \/ ArpFrame(n) \/ IcmpFrame(n)
             \/ UdpFrame(n) \/ DhcpFrame(n) \/ TcpFrame(n)
  BY <1>3, <1>4 DEF OtherFrame, ArpFrame, IcmpFrame, UdpFrame, DhcpFrame, TcpFrame
<1>5. CASE \/ Tick \/ NoFrame \/ SendRenewal \/ ReadFirst \/ SaveOut \/ ZeroFirst
           \/ (\E class \in Class : Report(class)) \/ UNCHANGED vars
  BY <1>3, <1>5 DEF Tick, NoFrame, SendRenewal, ReadFirst, SaveOut, ZeroFirst, Report, vars
<1>6. CASE NotYet \/ ZeroSecond
  BY <1>2, <1>6 DEF NotYet, ZeroSecond
<1> QED
  BY <1>1, <1>4, <1>5, <1>6 DEF Next

\* The checksum of an answer to a ping, adjusted in two bytes instead of
\* computed (net/icmp.c, icmp_ping_reply), verifies at the receiver but where
\* the low byte carries.
THEOREM EchoesVerify == Spec => []EchoVerifies
<1>1. Init => EchoOK
  BY DEF Init, EchoOK
<1>2. EchoOK /\ [Next]_vars => EchoOK'
  BY StepEchoOK
<1>3. EchoOK => EchoVerifies
  <2> SUFFICES ASSUME NEW rest \in Word,
                      echo = [request |-> PingRequest(rest),
                              reply |-> icmp_ping_reply(PingRequest(rest))]
               PROVE  EchoVerifies
    BY DEF EchoOK, EchoVerifies
  <2> DEFINE request == PingRequest(rest)
             reply == icmp_ping_reply(request)
  <2>1. Verifies(reply, 0) \/ CarryLost(request[3], request[4])
    BY PingVerifies
  <2>2. echo.reply = reply /\ echo.request = request
    OBVIOUS
  <2> HIDE DEF request, reply
  <2> QED
    BY <2>1, <2>2 DEF EchoVerifies
<1> QED
  BY <1>1, <1>2, <1>3, PTL DEF Spec

-----------------------------------------------------------------------------
(* The interval between two reports.                                       *)

\* What the settings are like: the interval takes both bytes, and two passes
\* of the loop after it the high byte of time is still 1 at most.
Spacious == Base < Interval /\ Interval + 2 * MaxTicks <= 2 * Base

\* The variables have their types.
ClockType ==
    /\ lowFirst \in [read : BOOLEAN, zero : BOOLEAN]
    /\ time \in [high : Byte, low : Byte]
    /\ passed \in Nat
    /\ busy \in 0 .. MaxTicks
    /\ pc \in {"backbone", "read", "compare", "copying", "zero", "zeroed"} \cup Class

\* A pass starts before the interval and one pass more are over.
InTime == Now(time) <= busy + (Interval - 1) + MaxTicks

\* Time is not ahead of the seconds that have passed, unless the high byte
\* ticked while time was zeroed: then by less than a byte, and since before r.
Ahead(r) == \/ Now(time) <= passed
            \/ Base <= Now(r) /\ Now(time) <= passed + (Base - 1)

\* Until the next report, time is what has passed but for what was lost and won
\* when time was zeroed.
Counting == pc \in {"backbone", "read", "compare"} =>
                passed <= Now(time) + MaxTicks /\ Ahead(time)

\* One byte has been read at an earlier time r of this pass.
HalfRead == pc = "compare" =>
    \E r \in [high : Byte, low : Byte] :
        /\ Now(r) <= Now(time) /\ Now(time) <= Now(r) + busy
        /\ half = IF lowFirst.read THEN r.low ELSE r.high
        /\ Ahead(r)

\* A report is sent, and time zeroed, in the pass that found it due.
Reporting == pc \in Class \cup {"zero", "zeroed"} => passed <= busy

\* One byte is zero, but for what has ticked since.
HalfZeroed == pc = "zeroed" =>
    IF lowFirst.zero THEN time.low <= passed ELSE Now(time) <= passed + (Base - 1)

SpaceInv == /\ ClockType
            /\ pc # "copying" =>
                 InTime /\ Counting /\ HalfRead /\ Reporting /\ HalfZeroed

\* A time of two bytes, and what its high byte makes of it.
LEMMA NowIs ==
    ASSUME NEW t \in [high : Byte, low : Byte]
    PROVE  /\ Now(t) \in Nat /\ t.high \in Nat /\ t.low \in Nat /\ t.low <= Base - 1
           /\ t.high = 0 => Now(t) = t.low
           /\ t.high = 1 => Now(t) = Base + t.low
           /\ Now(t) < 2 * Base => t.high = 0 \/ t.high = 1
<1>1. t.high \in Nat /\ t.low \in 0 .. Base - 1 /\ Base \in Nat \ {0}
  BY BaseAssumption DEF Byte
<1> DEFINE h == t.high
           l == t.low
<1>2. Now(t) = h * Base + l
  BY DEF Now
<1>3. h \in Nat /\ l \in Nat /\ l <= Base - 1
  BY <1>1
<1> HIDE DEF h, l
<1>4. h * Base \in Nat
  BY <1>1, <1>3
<1>5. (h = 0 => h * Base = 0) /\ (h = 1 => h * Base = Base)
  BY <1>1, <1>3
<1>6. h >= 2 => h * Base >= 2 * Base
  BY <1>1, <1>3
<1>7. /\ Now(t) \in Nat
      /\ h = 0 => Now(t) = l
      /\ h = 1 => Now(t) = Base + l
      /\ Now(t) < 2 * Base => h = 0 \/ h = 1
  BY <1>1, <1>2, <1>3, <1>4, <1>5, <1>6
<1> QED
  BY <1>3, <1>7 DEF h, l

\* A word in two bytes.
LEMMA TwoBytes ==
    ASSUME NEW w \in Word
    PROVE  /\ [high |-> w \div Base, low |-> w % Base] \in [high : Byte, low : Byte]
           /\ Now([high |-> w \div Base, low |-> w % Base]) = w
<1>1. w \div Base \in Byte /\ w \in Int
  BY BytesOfWord DEF Word
<1>2. w % Base \in Byte /\ (w \div Base) * Base + (w % Base) = w
  BY <1>1, BytesMake
<1> QED
  BY <1>1, <1>2 DEF Now

\* A tick moves time by one, before it wraps.
LEMMA TickIs ==
    ASSUME ClockType, Tick
    PROVE  /\ time' \in [high : Byte, low : Byte]
           /\ Now(time) < 2 * Base - 1 => Now(time)' = Now(time) + 1
<1>1. Now(time) \in Nat
  BY NowIs DEF ClockType
<1> DEFINE n == Now(time)
           next == (n + 1) % WordSize
<1>2. n + 1 \in Int
  BY <1>1
<1>3. next \in Word
  BY <1>2, WordSizeType
<1>4. time' = [high |-> next \div Base, low |-> next % Base]
  BY DEF Tick
<1>5. n < 2 * Base - 1 => next = n + 1
  <2>1. WordSize \in Nat \ {0} /\ Base \in Nat /\ Base >= 2
    BY WordSizeType, BaseAssumption
  <2>2. WordSize >= 2 * Base
    BY <2>1 DEF WordSize
  <2>3. n < 2 * Base - 1 => n + 1 \in 0 .. WordSize - 1
    BY <1>1, <2>1, <2>2
  <2> HIDE DEF n
  <2> QED
    BY <1>2, <2>1, <2>3, ModSame
<1>6. Now(time)' = next
  <2>1. Now(time)' = Now(time')
    BY DEF Now
  <2> HIDE DEF next
  <2> QED
    BY <1>3, <1>4, <2>1, TwoBytes
<1> HIDE DEF next
<1> QED
  BY <1>3, <1>4, <1>5, <1>6, TwoBytes

\* What is assumed of the settings.
LEMMA SettingsType ==
    /\ Base \in Nat /\ Base >= 2
    /\ Interval \in Nat /\ Interval >= 1
    /\ MaxTicks \in Nat
BY BaseAssumption, LoopAssumption, WordSizeType DEF Word

\* Another tick fits into the pass, so time does not wrap and the bound of the
\* model is not reached.
LEMMA RoomForTick ==
    ASSUME Spacious, SpaceInv, Tick, pc # "copying"
    PROVE  /\ Now(time)' = Now(time) + 1
           /\ passed' = passed + 1 /\ busy' = busy + 1 /\ busy < MaxTicks
<1>1. /\ busy \in Nat /\ busy < MaxTicks /\ busy' = busy + 1
      /\ passed' = IF passed < Ceiling THEN passed + 1 ELSE passed
  BY SettingsType DEF Tick, SpaceInv, ClockType
<1>2. Now(time) \in Nat /\ Now(time) <= busy + (Interval - 1) + MaxTicks /\ passed \in Nat
  BY NowIs DEF SpaceInv, ClockType, InTime
<1>3. Now(time) < 2 * Base - 1
  BY <1>1, <1>2, SettingsType DEF Spacious
<1>4. passed <= Now(time) + MaxTicks \/ passed <= busy
  BY DEF SpaceInv, ClockType, Counting, Reporting
<1>5. passed < Ceiling
  BY <1>1, <1>2, <1>4, SettingsType DEF Ceiling
<1> QED
  BY <1>1, <1>3, <1>5, TickIs DEF SpaceInv

\* A tick keeps the invariant: everything is a second later.
LEMMA TickSpaceInv ==
    ASSUME Spacious, SpaceInv, Tick
    PROVE  SpaceInv'
<1>1. /\ pc' = pc /\ lowFirst' = lowFirst /\ half' = half
      /\ time' \in [high : Byte, low : Byte]
  BY TickIs DEF Tick, SpaceInv
<1>2. CASE pc = "copying"
  <2>1. passed' \in Nat /\ busy' \in 0 .. MaxTicks
    BY <1>2, SettingsType DEF Tick, SpaceInv, ClockType
  <2> QED
    BY <1>1, <1>2, <2>1 DEF SpaceInv, ClockType
<1>3. CASE pc # "copying"
  <2>1. /\ Now(time)' = Now(time) + 1
        /\ passed' = passed + 1 /\ busy' = busy + 1 /\ busy < MaxTicks
    BY <1>3, RoomForTick
  <2>2. /\ Now(time) \in Nat /\ passed \in Nat /\ busy \in 0 .. MaxTicks
        /\ InTime /\ Counting /\ HalfRead /\ Reporting /\ HalfZeroed
    BY <1>3, NowIs DEF SpaceInv, ClockType
  <2>3. ClockType'
    BY <1>1, <2>1, <2>2, SettingsType DEF SpaceInv, ClockType
  <2>4. InTime' /\ Reporting'
    BY <1>1, <2>1, <2>2, SettingsType DEF InTime, Reporting
  <2>5. ASSUME NEW r \in [high : Byte, low : Byte], Ahead(r)
        PROVE  Ahead(r)'
    <3>1. Now(r)' = Now(r) /\ Now(r) \in Nat
      BY NowIs DEF Now
    <3> QED
      BY <2>1, <2>2, <2>5, <3>1, SettingsType DEF Ahead
  <2>6. Counting'
    <3>1. pc \in {"backbone", "read", "compare"} => Ahead(time)'
      BY <2>1, <2>2, SettingsType DEF Counting, Ahead
    <3> QED
      BY <1>1, <2>1, <2>2, <3>1, SettingsType DEF Counting
  <2>7. HalfRead'
    <3> SUFFICES ASSUME pc = "compare"
                 PROVE  HalfRead'
      BY <1>1 DEF HalfRead
    <3>1. PICK r \in [high : Byte, low : Byte] :
             /\ Now(r) <= Now(time) /\ Now(time) <= Now(r) + busy
             /\ half = IF lowFirst.read THEN r.low ELSE r.high
             /\ Ahead(r)
      BY <2>2 DEF HalfRead
    <3>2. Now(r)' = Now(r) /\ Now(r) \in Nat
      BY NowIs DEF Now
    <3>3. /\ Now(r)' <= Now(time)' /\ Now(time)' <= Now(r)' + busy'
          /\ half' = IF lowFirst.read' THEN r.low ELSE r.high
          /\ Ahead(r)'
      BY <1>1, <2>1, <2>2, <2>5, <3>1, <3>2
    <3> QED
      BY <3>3 DEF HalfRead
  <2>8. HalfZeroed'
    <3>1. Now(time) < 2 * Base /\ Now(time)' < 2 * Base
      BY <2>1, <2>2, SettingsType DEF InTime, Spacious
    <3>2. Now(time') = Now(time)'
      BY DEF Now
    <3>3. time.low \in Nat /\ time'.low \in Nat /\ time'.low <= time.low + 1
      BY <1>1, <2>1, <2>2, <3>1, <3>2, NowIs, SettingsType DEF SpaceInv, ClockType
    <3> QED
      BY <1>1, <2>1, <2>2, <3>3, SettingsType DEF HalfZeroed
  <2> QED
    BY <2>3, <2>4, <2>6, <2>7, <2>8 DEF SpaceInv
<1> QED
  BY <1>2, <1>3

\* Looking at a frame, or finding none, takes no time of its own.
LEMMA FrameSpaceInv ==
    ASSUME SpaceInv, UNCHANGED <<time, lowFirst, passed, busy>>,
           pc = "backbone", pc' \in {"read", "copying"}
    PROVE  SpaceInv'
<1>1. ClockType'
  BY DEF SpaceInv, ClockType
<1>2. pc' = "read" => InTime' /\ Counting' /\ HalfRead' /\ Reporting' /\ HalfZeroed'
  BY DEF SpaceInv, InTime, Counting, Ahead, HalfRead, Reporting, HalfZeroed, Now, Class
<1> QED
  BY <1>1, <1>2 DEF SpaceInv

\* The first byte is read at the time it is.
LEMMA ReadSpaceInv ==
    ASSUME SpaceInv, ReadFirst
    PROVE  SpaceInv'
<1>1. /\ pc = "read" /\ pc' = "compare" /\ half' = FirstByte
      /\ UNCHANGED <<time, lowFirst, passed, busy>>
  BY DEF ReadFirst
<1>2. ClockType' /\ time \in [high : Byte, low : Byte] /\ busy \in Nat /\ Now(time) \in Nat
  BY <1>1, NowIs, SettingsType DEF SpaceInv, ClockType
<1>3. InTime' /\ Counting' /\ Reporting' /\ HalfZeroed'
  BY <1>1 DEF SpaceInv, InTime, Counting, Ahead, Reporting, HalfZeroed, Now, Class
<1>4. PICK r \in [high : Byte, low : Byte] : r = time
  BY <1>2
<1>5. /\ Now(r) <= Now(time') /\ Now(time') <= Now(r) + busy'
      /\ half' = IF lowFirst.read' THEN r.low ELSE r.high
  BY <1>1, <1>2, <1>4 DEF FirstByte
<1>6. Ahead(r)'
  BY <1>1, <1>4 DEF SpaceInv, Counting, Ahead, Now
<1>7. HalfRead'
  BY <1>5, <1>6 DEF HalfRead, Now
<1> QED
  BY <1>2, <1>3, <1>7 DEF SpaceInv

\* What the loop sees when a byte has been read at an earlier time of the pass:
\* enough to put off a report by no more than this pass, and not so much that
\* it comes a byte early.
LEMMA SeenIs ==
    ASSUME Spacious, SpaceInv, pc = "compare"
    PROVE  /\ Seen \in Nat
           /\ Seen < Interval => Now(time) <= (Interval - 1) + MaxTicks
           /\ Seen >= Interval => passed > Interval - Base
<1>1. PICK r \in [high : Byte, low : Byte] :
         /\ Now(r) <= Now(time) /\ Now(time) <= Now(r) + busy
         /\ half = IF lowFirst.read THEN r.low ELSE r.high
         /\ Ahead(r)
  BY DEF SpaceInv, HalfRead
<1>2. /\ Now(time) <= busy + (Interval - 1) + MaxTicks
      /\ time \in [high : Byte, low : Byte] /\ passed \in Nat /\ busy \in 0 .. MaxTicks
      /\ lowFirst.read \in BOOLEAN
  BY DEF SpaceInv, ClockType, InTime
<1>3. /\ Now(r) \in Nat /\ Now(time) \in Nat
      /\ r.low \in Nat /\ r.low <= Base - 1 /\ time.low \in Nat /\ time.low <= Base - 1
  BY <1>2, NowIs
<1>4. Now(r) < 2 * Base /\ Now(time) < 2 * Base
  BY <1>1, <1>2, <1>3, SettingsType DEF Spacious
<1>5. /\ \/ r.high = 0 /\ Now(r) = r.low
         \/ r.high = 1 /\ Now(r) = Base + r.low
      /\ \/ time.high = 0 /\ Now(time) = time.low
         \/ time.high = 1 /\ Now(time) = Base + time.low
  BY <1>2, <1>4, NowIs
<1>6. r.high <= time.high
  BY <1>1, <1>3, <1>5, SettingsType
<1>7. Seen = IF lowFirst.read
             THEN (IF time.high = 0 THEN r.low ELSE Base + r.low)
             ELSE (IF r.high = 0 THEN time.low ELSE Base + time.low)
  BY <1>1, <1>3, <1>5, SettingsType DEF Seen
<1> HIDE DEF Seen
<1>8. Seen \in Nat
  BY <1>3, <1>7, SettingsType
<1>9. Seen < Interval => Now(time) <= (Interval - 1) + MaxTicks
  BY <1>1, <1>2, <1>3, <1>5, <1>6, <1>7, SettingsType DEF Spacious
<1>10. Seen >= Interval => passed > Interval - Base
  BY <1>1, <1>2, <1>3, <1>5, <1>6, <1>7, SettingsType DEF Ahead
<1> QED
  BY <1>8, <1>9, <1>10

\* The interval is not over: the next pass begins in time.
LEMMA NotYetSpaceInv ==
    ASSUME Spacious, SpaceInv, NotYet
    PROVE  SpaceInv'
<1>1. /\ pc = "compare" /\ pc' = "backbone" /\ busy' = 0
      /\ UNCHANGED <<time, lowFirst, passed>>
  BY DEF NotYet
<1>2. Now(time) <= (Interval - 1) + MaxTicks /\ Now(time) \in Nat
  BY <1>1, SeenIs, NowIs DEF NotYet, SpaceInv, ClockType
<1>3. ClockType' /\ HalfRead' /\ Reporting' /\ HalfZeroed'
  BY <1>1, SettingsType DEF SpaceInv, ClockType, HalfRead, Reporting, HalfZeroed, Class
<1>4. Now(time)' = Now(time)
  BY <1>1 DEF Now
<1>5. InTime'
  BY <1>1, <1>2, <1>4, SettingsType DEF InTime
<1>6. Counting'
  BY <1>1, <1>4 DEF SpaceInv, Counting, Ahead
<1> QED
  BY <1>3, <1>5, <1>6 DEF SpaceInv

\* It is over: the seconds are counted anew, and reports are sent.
LEMMA SaveOutSpaceInv ==
    ASSUME SpaceInv, SaveOut
    PROVE  SpaceInv'
<1>1. /\ pc = "compare" /\ pc' = "all" /\ passed' = 0
      /\ UNCHANGED <<time, lowFirst, busy>>
  BY DEF SaveOut
<1>2. ClockType' /\ Reporting'
  BY <1>1 DEF SpaceInv, ClockType, Reporting, Class
<1>3. InTime' /\ Counting' /\ HalfRead' /\ HalfZeroed'
  BY <1>1 DEF SpaceInv, InTime, Counting, HalfRead, HalfZeroed, Now
<1> QED
  BY <1>2, <1>3 DEF SpaceInv

\* After one report comes another, and then time is zeroed.
LEMMA ReportSpaceInv ==
    ASSUME SpaceInv, NEW class \in Class, Report(class)
    PROVE  SpaceInv'
<1>1. /\ pc = class /\ pc' = Following(class)
      /\ UNCHANGED <<time, lowFirst, passed, busy>>
  BY DEF Report
<1>2. pc \in Class /\ pc' \in {"arp", "icmp", "udp", "tcp", "zero"}
  BY <1>1 DEF Class, Following
<1>3. ClockType' /\ Reporting'
  BY <1>1, <1>2 DEF SpaceInv, ClockType, Reporting, Class
<1>4. InTime' /\ Counting' /\ HalfRead' /\ HalfZeroed'
  BY <1>1, <1>2 DEF SpaceInv, InTime, Counting, HalfRead, HalfZeroed, Now, Class
<1> QED
  BY <1>3, <1>4 DEF SpaceInv

\* One byte of time is zeroed: what is left is no more than a byte.
LEMMA ZeroFirstSpaceInv ==
    ASSUME Spacious, SpaceInv, ZeroFirst
    PROVE  SpaceInv'
<1>1. /\ pc = "zero" /\ pc' = "zeroed"
      /\ time' = IF lowFirst.zero THEN [time EXCEPT !.low = 0] ELSE [time EXCEPT !.high = 0]
      /\ UNCHANGED <<lowFirst, passed, busy>>
  BY DEF ZeroFirst
<1>2. /\ Now(time) <= busy + (Interval - 1) + MaxTicks
      /\ time \in [high : Byte, low : Byte] /\ passed \in Nat /\ busy \in 0 .. MaxTicks
      /\ passed <= busy
  BY <1>1 DEF SpaceInv, ClockType, InTime, Reporting
<1>3. 0 \in Byte /\ 0 <= Base - 1
  BY SettingsType DEF Byte
<1>4. /\ time' \in [high : Byte, low : Byte]
      /\ lowFirst.zero => time'.high = time.high /\ time'.low = 0
      /\ ~lowFirst.zero => time'.high = 0 /\ time'.low = time.low
  BY <1>1, <1>2, <1>3
<1>5. /\ Now(time) \in Nat /\ Now(time') \in Nat /\ time.low <= Base - 1
      /\ time.low \in Nat
  BY <1>2, <1>4, NowIs
<1>6. Now(time) < 2 * Base
  BY <1>2, <1>5, SettingsType DEF Spacious
<1>7. \/ time.high = 0 /\ Now(time) = time.low
      \/ time.high = 1 /\ Now(time) = Base + time.low
  BY <1>2, <1>6, NowIs
<1>8. /\ time'.high = 0 => Now(time') = time'.low
      /\ time'.high = 1 => Now(time') = Base + time'.low
  BY <1>4, NowIs
<1>9. Now(time') <= Now(time) /\ (~lowFirst.zero => Now(time') <= Base - 1)
  BY <1>4, <1>5, <1>7, <1>8, SettingsType
<1>10. Now(time)' = Now(time')
  BY DEF Now
<1>11. ClockType' /\ Reporting'
  BY <1>1, <1>4 DEF SpaceInv, ClockType, Reporting, Class
<1>12. InTime'
  BY <1>1, <1>2, <1>5, <1>9, <1>10, SettingsType DEF InTime
<1>13. HalfZeroed'
  BY <1>1, <1>2, <1>4, <1>5, <1>9, <1>10, SettingsType DEF HalfZeroed
<1>14. Counting' /\ HalfRead'
  BY <1>1 DEF Counting, HalfRead
<1> QED
  BY <1>11, <1>12, <1>13, <1>14 DEF SpaceInv

\* The other byte is zeroed: what is left is what ticked into the first one.
LEMMA ZeroSecondSpaceInv ==
    ASSUME Spacious, SpaceInv, ZeroSecond
    PROVE  SpaceInv'
<1>1. /\ pc = "zeroed" /\ pc' = "backbone" /\ busy' = 0
      /\ time' = IF lowFirst.zero THEN [time EXCEPT !.high = 0] ELSE [time EXCEPT !.low = 0]
      /\ UNCHANGED <<lowFirst, passed>>
  BY DEF ZeroSecond
<1>2. /\ Now(time) <= busy + (Interval - 1) + MaxTicks
      /\ time \in [high : Byte, low : Byte] /\ passed \in Nat /\ busy \in 0 .. MaxTicks
      /\ passed <= busy
      /\ IF lowFirst.zero THEN time.low <= passed ELSE Now(time) <= passed + (Base - 1)
  BY <1>1 DEF SpaceInv, ClockType, InTime, Reporting, HalfZeroed
<1>3. 0 \in Byte /\ 0 <= Base - 1
  BY SettingsType DEF Byte
<1>4. /\ time' \in [high : Byte, low : Byte]
      /\ lowFirst.zero => time'.high = 0 /\ time'.low = time.low
      /\ ~lowFirst.zero => time'.high = time.high /\ time'.low = 0
  BY <1>1, <1>2, <1>3
<1>5. /\ Now(time) \in Nat /\ Now(time') \in Nat /\ time.low <= Base - 1
      /\ time.low \in Nat
  BY <1>2, <1>4, NowIs
<1>6. Now(time) < 2 * Base
  BY <1>2, <1>5, SettingsType DEF Spacious
<1>7. \/ time.high = 0 /\ Now(time) = time.low
      \/ time.high = 1 /\ Now(time) = Base + time.low
  BY <1>2, <1>6, NowIs
<1>8. /\ time'.high = 0 => Now(time') = time'.low
      /\ time'.high = 1 => Now(time') = Base + time'.low
  BY <1>4, NowIs
<1>9. \/ Now(time') <= passed
      \/ Now(time') = Base /\ passed >= 1
  BY <1>2, <1>4, <1>5, <1>7, <1>8, SettingsType
<1>10. Now(time)' = Now(time')
  BY DEF Now
<1>11. ClockType' /\ HalfRead' /\ Reporting' /\ HalfZeroed'
  BY <1>1, <1>4, SettingsType
  DEF SpaceInv, ClockType, HalfRead, Reporting, HalfZeroed, Class
<1>12. InTime'
  BY <1>1, <1>2, <1>5, <1>9, <1>10, SettingsType DEF InTime, Spacious
<1>13. Counting'
  BY <1>1, <1>2, <1>5, <1>9, <1>10, SettingsType DEF Counting, Ahead
<1> QED
  BY <1>11, <1>12, <1>13 DEF SpaceInv

\* The loop starts with no second passed.
LEMMA InitSpaceInv == Init => SpaceInv
<1> SUFFICES ASSUME Init
             PROVE  SpaceInv
  OBVIOUS
<1>1. 0 \in Byte /\ time \in [high : Byte, low : Byte] /\ time.high = 0 /\ time.low = 0
  BY SettingsType DEF Init, Byte
<1>2. Now(time) = 0
  BY <1>1, NowIs
<1>3. ClockType
  BY <1>1, SettingsType DEF Init, ClockType
<1>4. InTime /\ Counting /\ HalfRead /\ Reporting /\ HalfZeroed
  BY <1>2, SettingsType
  DEF Init, InTime, Counting, Ahead, HalfRead, Reporting, HalfZeroed, Class
<1> QED
  BY <1>3, <1>4 DEF SpaceInv

\* Every step keeps the invariant.
LEMMA StepSpaceInv == ASSUME Spacious PROVE SpaceInv /\ [Next]_vars => SpaceInv'
<1> SUFFICES ASSUME SpaceInv, [Next]_vars
             PROVE  SpaceInv'
  OBVIOUS
<1>1. CASE Tick
  BY <1>1, TickSpaceInv
<1>2. CASE NoFrame \/ SendRenewal \/ \E n \in FrameLengths :
             \/ OtherFrame(n) \/ ArpFrame(n) \/ IcmpFrame(n)
             \/ UdpFrame(n) \/ DhcpFrame(n) \/ TcpFrame(n)
  <2>1. /\ pc = "backbone" /\ pc' = "read"
        /\ UNCHANGED <<time, lowFirst, passed, busy>>
    BY <1>2 DEF NoFrame, SendRenewal, OtherFrame, ArpFrame, IcmpFrame, UdpFrame, DhcpFrame,
                TcpFrame, Taken
  <2> QED
    BY <2>1, FrameSpaceInv
<1>3. CASE \E n \in FrameLengths, rest \in Word : PingFrame(n, rest)
  <2>1. /\ pc = "backbone" /\ pc' \in {"read", "copying"}
        /\ UNCHANGED <<time, lowFirst, passed, busy>>
    BY <1>3 DEF PingFrame, Taken
  <2> QED
    BY <2>1, FrameSpaceInv
<1>4. CASE ReadFirst
  BY <1>4, ReadSpaceInv
<1>5. CASE NotYet
  BY <1>5, NotYetSpaceInv
<1>6. CASE SaveOut
  BY <1>6, SaveOutSpaceInv
<1>7. CASE \E class \in Class : Report(class)
  BY <1>7, ReportSpaceInv
<1>8. CASE ZeroFirst
  BY <1>8, ZeroFirstSpaceInv
<1>9. CASE ZeroSecond
  BY <1>9, ZeroSecondSpaceInv
<1>10. CASE UNCHANGED vars
  BY <1>10 DEF vars, SpaceInv, ClockType, InTime, Counting, Ahead, HalfRead,
               Reporting, HalfZeroed, Now
<1> QED
  BY <1>1, <1>2, <1>3, <1>4, <1>5, <1>6, <1>7, <1>8, <1>9, <1>10 DEF Next

\* Two reports are at least the interval less a byte apart, and at most the
\* interval and three passes, with an interval that takes both bytes of time
\* and passes that are short to the rest of the second byte
\* (utils/werkti.c, werkti_maybe_report with the interrupt of werkti_tick).
THEOREM ReportsStaySpaced ==
    ASSUME Base < Interval, Interval + 2 * MaxTicks <= 2 * Base
    PROVE  Spec => ReportsSpaced
<1>1. Spacious
  BY DEF Spacious
<1>2. Init => SpaceInv
  BY InitSpaceInv
<1>3. SpaceInv /\ [Next]_vars => SpaceInv'
  BY <1>1, StepSpaceInv
<1>4. SpaceInv => (pc # "copying" => passed <= Interval + 3 * MaxTicks)
  <2> SUFFICES ASSUME SpaceInv, pc # "copying"
               PROVE  passed <= Interval + 3 * MaxTicks
    OBVIOUS
  <2>1. /\ Now(time) \in Nat /\ passed \in Nat /\ busy \in 0 .. MaxTicks
        /\ Now(time) <= busy + (Interval - 1) + MaxTicks
    BY NowIs DEF SpaceInv, ClockType, InTime
  <2>2. passed <= Now(time) + MaxTicks \/ passed <= busy
    BY DEF SpaceInv, ClockType, Counting, Reporting
  <2> QED
    BY <2>1, <2>2, SettingsType
<1>5. SpaceInv /\ [Next]_vars =>
        [pc = "compare" /\ pc' = "all" => passed > Interval - Base]_vars
  <2> SUFFICES ASSUME SpaceInv, [Next]_vars, pc = "compare", pc' = "all"
               PROVE  passed > Interval - Base
    OBVIOUS
  <2>1. SaveOut
    BY DEF Next, vars, Tick, NoFrame, SendRenewal, OtherFrame, ArpFrame, IcmpFrame, UdpFrame,
           DhcpFrame, TcpFrame, PingFrame, Taken, ReadFirst, NotYet, Report,
           ZeroFirst, ZeroSecond, Class
  <2> QED
    BY <1>1, <2>1, SeenIs DEF SaveOut
<1> QED
  BY <1>2, <1>3, <1>4, <1>5, PTL DEF Spec, ReportsSpaced

-----------------------------------------------------------------------------
(* The list of paths is a table of registrations.                          *)

\* A slot is free or holds a registration.
Registration(x) == [path |-> x[1], callback |-> x[2]]
Pairs == Path \X Callback
ListOK == path_services \in [Slots -> {Empty} \cup [path : Path, callback : Callback]]

\* The slots of a registration.
SlotsOf(x) == {i \in Slots : path_services[i] = Registration(x)}

\* There are Size slots, and a registration has some of them.
LEMMA SlotFacts ==
    /\ Slots \subseteq Nat
    /\ IsFiniteSet(Slots) /\ Cardinality(Slots) = Size
    /\ \A S \in SUBSET Slots : IsFiniteSet(S) /\ Cardinality(S) \in Nat
                               /\ (Cardinality(S) = 0 <=> S = {})
<1>1. Slots \subseteq Nat /\ Size \in Nat
  BY PathAssumption DEF Slots
<1>2. IsFiniteSet(Slots) /\ Cardinality(Slots) = Size
  BY <1>1, FS_Interval DEF Slots
<1>3. ASSUME NEW S \in SUBSET Slots
      PROVE  IsFiniteSet(S) /\ Cardinality(S) \in Nat /\ (Cardinality(S) = 0 <=> S = {})
  <2>1. IsFiniteSet(S)
    BY <1>2, FS_Subset
  <2> QED
    BY <2>1, FS_CardinalityType, FS_EmptySet
<1> QED
  BY <1>1, <1>2, <1>3

\* How often a pair is registered.
LEMMA RegistrationsAre ==
    /\ Registrations = [x \in Pairs |-> Cardinality(SlotsOf(x))]
    /\ \A x : SlotsOf(x) \in SUBSET Slots
    /\ \A x \in Pairs : Registrations[x] = Cardinality(SlotsOf(x)) /\ Registrations[x] \in Nat
<1>1. Registrations = [x \in Pairs |-> Cardinality(SlotsOf(x))]
  BY DEF Registrations, SlotsOf, Registration, Pairs
<1>2. \A x : SlotsOf(x) \in SUBSET Slots
  BY DEF SlotsOf
<1> QED
  BY <1>1, <1>2, SlotFacts

\* The search ends at a slot with the path.
LEMMA FirstSlotIs ==
    ASSUME NEW p, Holding(p) # {}
    PROVE  FirstSlot(p) \in Slots /\ path_services[FirstSlot(p)].path = p
<1>1. Holding(p) \subseteq Nat
  BY SlotFacts DEF Holding
<1>2. PICK i \in Holding(p) : \A j \in Holding(p) : ~ (j < i)
  BY <1>1, Least
<1>3. \A j \in Holding(p) : i <= j
  BY <1>1, <1>2
<1>4. FirstSlot(p) \in Holding(p)
  BY <1>2, <1>3 DEF FirstSlot, Min
<1> QED
  BY <1>4 DEF Holding

\* The callbacks registered for a path.
LEMMA ServingIs ==
    ASSUME ListOK, NEW p \in Path
    PROVE  Table!Serving(p) = {path_services[i].callback : i \in Holding(p)}
<1>1. ASSUME NEW c \in Callback
      PROVE  Registrations[<<p, c>>] > 0 <=> \E i \in Holding(p) : path_services[i].callback = c
  <2>1. <<p, c>> \in Pairs
    BY DEF Pairs
  <2>2. Registrations[<<p, c>>] > 0 <=> SlotsOf(<<p, c>>) # {}
    <3> DEFINE x == <<p, c>>
    <3> HIDE DEF x
    <3>1. /\ Registrations[x] = Cardinality(SlotsOf(x)) /\ Cardinality(SlotsOf(x)) \in Nat
          /\ Cardinality(SlotsOf(x)) = 0 <=> SlotsOf(x) = {}
      BY <2>1, RegistrationsAre, SlotFacts DEF x
    <3> QED
      BY <3>1 DEF x
  <2>3. \A i \in Slots : path_services[i] = Registration(<<p, c>>)
                           <=> path_services[i].path = p /\ path_services[i].callback = c
    <3> SUFFICES ASSUME NEW i \in Slots
                 PROVE  path_services[i] = Registration(<<p, c>>)
                           <=> path_services[i].path = p /\ path_services[i].callback = c
      OBVIOUS
    <3>1. path_services[i] \in {Empty} \cup [path : Path, callback : Callback]
      BY DEF ListOK
    <3>2. Empty.path = NoPath /\ NoPath # p
      BY PathAssumption DEF Empty
    <3> QED
      BY <3>1, <3>2 DEF Registration
  <2> QED
    BY <2>2, <2>3 DEF SlotsOf, Holding
<1>2. \A i \in Holding(p) : path_services[i].callback \in Callback
  <2> SUFFICES ASSUME NEW i \in Holding(p)
               PROVE  path_services[i].callback \in Callback
    OBVIOUS
  <2>1. path_services[i] \in {Empty} \cup [path : Path, callback : Callback]
        /\ path_services[i].path = p
    BY DEF ListOK, Holding
  <2>2. Empty.path = NoPath /\ NoPath # p
    BY PathAssumption DEF Empty
  <2> QED
    BY <2>1, <2>2
<1> QED
  BY <1>1, <1>2 DEF Table!Serving

\* The table counts as the list does.
LEMMA SameCardinality == \A S : Table!Cardinality(S) = Cardinality(S)
BY DEF Table!Cardinality, Cardinality

\* Counted one by one, the registrations are the slots that are not free.
LEMMA HeldIs ==
    ASSUME ListOK
    PROVE  Table!Held = Cardinality(Slots \ Holding(NoPath))
<1> DEFINE Used == Slots \ Holding(NoPath)
           Count(x) == 1 .. Cardinality(SlotsOf(x))
           Numbered == UNION {{x} \X Count(x) : x \in Pairs}
           number == [x \in Pairs |-> CHOOSE f : f \in Bijection(Count(x), SlotsOf(x))]
           slot == [q \in Numbered |-> number[q[1]][q[2]]]
<1>1. Table!Held = Cardinality(Numbered)
  <2>1. Table!Held = Cardinality(UNION {{x} \X (1 .. Registrations[x]) :
                                            x \in DOMAIN Registrations})
    BY SameCardinality DEF Table!Held
  <2>2. DOMAIN Registrations = Pairs
    BY RegistrationsAre
  <2>3. UNION {{x} \X (1 .. Registrations[x]) : x \in Pairs} = Numbered
    BY RegistrationsAre
  <2> QED
    BY <2>1, <2>2, <2>3
<1>2. ASSUME NEW x \in Pairs
      PROVE  /\ number[x] \in [Count(x) -> SlotsOf(x)]
             /\ \A i, j \in Count(x) : number[x][i] = number[x][j] => i = j
             /\ \A s \in SlotsOf(x) : \E i \in Count(x) : number[x][i] = s
  <2>1. ExistsBijection(Count(x), SlotsOf(x))
    <3>1. IsFiniteSet(SlotsOf(x))
      BY RegistrationsAre, SlotFacts
    <3> QED
      BY <3>1, FS_CardinalityType
  <2>2. number[x] \in Bijection(Count(x), SlotsOf(x))
    BY <2>1 DEF ExistsBijection
  <2> HIDE DEF number, Count
  <2> QED
    BY <2>2 DEF Bijection, Injection, Surjection, IsInjective
<1>3. \A x \in Pairs : SlotsOf(x) \subseteq Used
  <2> SUFFICES ASSUME NEW x \in Pairs, NEW s \in SlotsOf(x)
               PROVE  s \in Used
    OBVIOUS
  <2>1. path_services[s].path = x[1] /\ x[1] \in Path
    BY DEF SlotsOf, Registration, Pairs
  <2> QED
    BY <2>1, PathAssumption DEF SlotsOf, Holding
<1>4. \A x, y \in Pairs : SlotsOf(x) \cap SlotsOf(y) # {} => x = y
  <2> SUFFICES ASSUME NEW x \in Pairs, NEW y \in Pairs, SlotsOf(x) \cap SlotsOf(y) # {}
               PROVE  x = y
    OBVIOUS
  <2>1. Registration(x) = Registration(y)
    BY DEF SlotsOf
  <2>2. x[1] = y[1] /\ x[2] = y[2]
    BY <2>1 DEF Registration
  <2> QED
    BY <2>2 DEF Pairs
<1>5. \A q \in Numbered : q[1] \in Pairs /\ q[2] \in Count(q[1]) /\ q = <<q[1], q[2]>>
  OBVIOUS
<1>6. \A s \in Used : \E x \in Pairs : s \in SlotsOf(x)
  <2> SUFFICES ASSUME NEW s \in Used
               PROVE  \E x \in Pairs : s \in SlotsOf(x)
    OBVIOUS
  <2>1. /\ path_services[s] \in {Empty} \cup [path : Path, callback : Callback]
        /\ path_services[s].path # NoPath /\ s \in Slots
    BY DEF ListOK, Holding
  <2>2. path_services[s] \in [path : Path, callback : Callback]
    BY <2>1 DEF Empty
  <2> DEFINE x == <<path_services[s].path, path_services[s].callback>>
  <2>3. x \in Pairs /\ path_services[s] = Registration(x)
    BY <2>2 DEF Pairs, Registration
  <2> HIDE DEF x
  <2> QED
    BY <2>1, <2>3 DEF SlotsOf
<1> HIDE DEF number, Count, Used
<1>7. slot \in [Numbered -> Used]
  BY <1>2, <1>3, <1>5
<1>8. ASSUME NEW q \in Numbered, NEW r \in Numbered, slot[q] = slot[r]
      PROVE  q = r
  <2>1. /\ q[1] \in Pairs /\ q[2] \in Count(q[1]) /\ q = <<q[1], q[2]>>
        /\ r[1] \in Pairs /\ r[2] \in Count(r[1]) /\ r = <<r[1], r[2]>>
    BY <1>5
  <2>2. number[q[1]][q[2]] = number[r[1]][r[2]]
    BY <1>8
  <2>3. number[q[1]][q[2]] \in SlotsOf(q[1]) /\ number[r[1]][r[2]] \in SlotsOf(r[1])
    BY <1>2, <2>1
  <2>4. q[1] = r[1]
    BY <1>4, <2>1, <2>2, <2>3
  <2>5. q[2] = r[2]
    BY <1>2, <2>1, <2>2, <2>4
  <2> QED
    BY <2>1, <2>4, <2>5
<1>9. ASSUME NEW s \in Used
      PROVE  \E q \in Numbered : slot[q] = s
  <2>1. PICK x \in Pairs : s \in SlotsOf(x)
    BY <1>6
  <2>2. PICK i \in Count(x) : number[x][i] = s
    BY <1>2, <2>1
  <2>3. <<x, i>> \in Numbered
    OBVIOUS
  <2>4. slot[<<x, i>>] = s
    BY <2>2, <2>3
  <2> QED
    BY <2>3, <2>4
<1> HIDE DEF slot, Numbered
<1>10. slot \in Injection(Numbered, Used) /\ slot \in Surjection(Numbered, Used)
  BY <1>7, <1>8, <1>9 DEF Injection, Surjection, IsInjective
<1>11. IsFiniteSet(Used)
  BY SlotFacts DEF Used
<1>12. Cardinality(Numbered) = Cardinality(Used)
  BY <1>10, <1>11, FS_Injection
<1> QED
  BY <1>1, <1>12 DEF Used

\* There is room in the table exactly when a slot is free.
LEMMA RoomIs ==
    ASSUME ListOK
    PROVE  Table!Held < Size <=> Holding(NoPath) # {}
<1> DEFINE F == Holding(NoPath)
           Used == Slots \ F
<1>1. F \in SUBSET Slots /\ Used \in SUBSET Slots /\ F = Slots \ Used
  BY DEF Holding
<1>2. Table!Held = Cardinality(Used)
  BY HeldIs
<1> HIDE DEF F, Used
<1>3. Cardinality(Used) \in Nat /\ Size \in Nat
  BY <1>1, SlotFacts, PathAssumption
<1>4. Cardinality(Used) <= Size /\ (Cardinality(Used) = Size => Used = Slots)
  BY <1>1, SlotFacts, FS_Subset
<1>5. Used = Slots => Cardinality(Used) = Size
  BY SlotFacts
<1> QED
  BY <1>1, <1>2, <1>3, <1>4, <1>5 DEF F

\* A step of the list changes the slots of one registration by one.
LEMMA SlotsMove ==
    ASSUME ListOK, NEW e \in Slots,
           NEW new \in {Empty} \cup [path : Path, callback : Callback],
           path_services' = [path_services EXCEPT ![e] = new]
    PROVE  /\ ListOK'
           /\ \A x \in Pairs : SlotsOf(x)' = IF new = Registration(x)
                                                THEN SlotsOf(x) \cup {e}
                                                ELSE SlotsOf(x) \ {e}
<1>1. ListOK'
  BY DEF ListOK
<1>2. \A i \in Slots : path_services'[i] = IF i = e THEN new ELSE path_services[i]
  BY DEF ListOK
<1> QED
  BY <1>1, <1>2 DEF SlotsOf

\* The free slot is that of no pair.
LEMMA EmptyIsNone == \A x \in Pairs : Empty # Registration(x)
<1> SUFFICES ASSUME NEW x \in Pairs
             PROVE  Empty # Registration(x)
  OBVIOUS
<1>1. Registration(x).path = x[1] /\ x[1] \in Path /\ Empty.path = NoPath
  BY DEF Registration, Pairs, Empty
<1> QED
  BY <1>1, PathAssumption

\* Registering takes a free slot if there is one (www_server.c).
LEMMA RegisterIs ==
    ASSUME ListOK, NEW p \in Path, NEW c \in Callback, www_server_register_path(p, c)
    PROVE  ListOK' /\ Table!Register(p, c)
<1>1. CASE Holding(NoPath) = {}
  <2>1. UNCHANGED <<path_services, found>>
    BY <1>1 DEF www_server_register_path
  <2>2. Registrations' = Registrations
    BY <2>1 DEF Registrations
  <2>3. ~ (Table!Held < Size)
    BY <1>1, RoomIs
  <2> QED
    BY <2>1, <2>2, <2>3 DEF ListOK, Table!Register
<1>2. CASE Holding(NoPath) # {}
  <2> DEFINE e == FirstSlot(NoPath)
             q == <<p, c>>
             new == [path |-> p, callback |-> c]
  <2>1. e \in Slots /\ path_services[e].path = NoPath
    BY <1>2, FirstSlotIs
  <2>2. path_services' = [path_services EXCEPT ![e] = new] /\ found' = found
    BY <1>2 DEF www_server_register_path
  <2>3. q \in Pairs /\ new = Registration(q) /\ \A x \in Pairs : new = Registration(x) => x = q
    BY DEF Pairs, Registration
  <2>4. new \in {Empty} \cup [path : Path, callback : Callback]
    OBVIOUS
  <2> HIDE DEF e, q, new
  <2>5. ListOK' /\ \A x \in Pairs : SlotsOf(x)' = IF x = q THEN SlotsOf(x) \cup {e}
                                                              ELSE SlotsOf(x) \ {e}
    BY <2>1, <2>2, <2>3, <2>4, SlotsMove
  <2>6. \A x \in Pairs : e \notin SlotsOf(x)
    <3>1. \A x \in Pairs : Registration(x).path # NoPath
      BY PathAssumption DEF Registration, Pairs
    <3> QED
      BY <2>1, <3>1 DEF SlotsOf
  <2>7. \A x \in Pairs : Cardinality(SlotsOf(x)') = IF x = q THEN Registrations[x] + 1
                                                              ELSE Registrations[x]
    <3> SUFFICES ASSUME NEW x \in Pairs
                 PROVE  Cardinality(SlotsOf(x)') = IF x = q THEN Registrations[x] + 1
                                                            ELSE Registrations[x]
      OBVIOUS
    <3>1. IsFiniteSet(SlotsOf(x)) /\ Registrations[x] = Cardinality(SlotsOf(x))
      BY RegistrationsAre, SlotFacts
    <3>2. Cardinality(SlotsOf(x) \cup {e}) = Cardinality(SlotsOf(x)) + 1
      BY <2>6, <3>1, FS_AddElement
    <3>3. SlotsOf(x) \ {e} = SlotsOf(x)
      BY <2>6
    <3> QED
      BY <2>5, <3>1, <3>2, <3>3
  <2>8. Registrations' = [x \in Pairs |-> Cardinality(SlotsOf(x)')]
    BY DEF Registrations, SlotsOf, Registration, Pairs
  <2>9. Registrations' = [Registrations EXCEPT ![q] = Registrations[q] + 1]
    BY <2>3, <2>7, <2>8, RegistrationsAre
  <2>10. Table!Held < Size
    BY <1>2, RoomIs
  <2> QED
    BY <2>2, <2>5, <2>9, <2>10 DEF Table!Register, q
<1> QED
  BY <1>1, <1>2

\* Removing takes one registration of the path away, if there is one.
LEMMA UnregisterIs ==
    ASSUME ListOK, NEW p \in Path, www_server_unregister_path(p)
    PROVE  ListOK' /\ Table!Unregister(p)
<1>0. Table!Serving(p) = {path_services[i].callback : i \in Holding(p)}
  BY ServingIs
<1>1. CASE Holding(p) = {}
  <2>1. UNCHANGED <<path_services, found>>
    BY <1>1 DEF www_server_unregister_path
  <2>2. Registrations' = Registrations
    BY <2>1 DEF Registrations
  <2> QED
    BY <1>0, <1>1, <2>1, <2>2 DEF ListOK, Table!Unregister
<1>2. CASE Holding(p) # {}
  <2> DEFINE e == FirstSlot(p)
             c == path_services[e].callback
             q == <<p, c>>
  <2>1. e \in Slots /\ e \in Holding(p) /\ path_services[e].path = p
    BY <1>2, FirstSlotIs DEF Holding
  <2>2. path_services' = [path_services EXCEPT ![e] = Empty] /\ found' = found
    BY <1>2 DEF www_server_unregister_path
  <2>3. q \in Pairs /\ path_services[e] = Registration(q) /\ c \in Table!Serving(p)
    <3>1. path_services[e] \in {Empty} \cup [path : Path, callback : Callback]
      BY <2>1 DEF ListOK
    <3>2. path_services[e] # Empty
      BY <2>1, PathAssumption DEF Empty
    <3>3. c \in Table!Serving(p)
      BY <1>0, <2>1
    <3> QED
      BY <2>1, <3>1, <3>2, <3>3 DEF Pairs, Registration
  <2> HIDE DEF e, c
  <2>4. ListOK' /\ \A x \in Pairs : SlotsOf(x)' = SlotsOf(x) \ {e}
    BY <2>1, <2>2, SlotsMove, EmptyIsNone
  <2>5. \A x \in Pairs : e \in SlotsOf(x) <=> x = q
    <3>1. \A x \in Pairs : Registration(x) = Registration(q) <=> x = q
      BY <2>3 DEF Registration, Pairs
    <3> QED
      BY <2>1, <2>3, <3>1 DEF SlotsOf
  <2> HIDE DEF q
  <2>6. \A x \in Pairs : Cardinality(SlotsOf(x)') = IF x = q THEN Registrations[x] - 1
                                                              ELSE Registrations[x]
    <3> SUFFICES ASSUME NEW x \in Pairs
                 PROVE  Cardinality(SlotsOf(x)') = IF x = q THEN Registrations[x] - 1
                                                            ELSE Registrations[x]
      OBVIOUS
    <3>1. IsFiniteSet(SlotsOf(x)) /\ Registrations[x] = Cardinality(SlotsOf(x))
      BY RegistrationsAre, SlotFacts
    <3>2. Cardinality(SlotsOf(x) \ {e}) = IF x = q THEN Cardinality(SlotsOf(x)) - 1
                                                   ELSE Cardinality(SlotsOf(x))
      BY <2>5, <3>1, FS_RemoveElement
    <3> QED
      BY <2>4, <3>1, <3>2
  <2>7. Registrations' = [x \in Pairs |-> Cardinality(SlotsOf(x)')]
    BY DEF Registrations, SlotsOf, Registration, Pairs
  <2>8. Registrations' = [Registrations EXCEPT ![q] = Registrations[q] - 1]
    BY <2>3, <2>6, <2>7, RegistrationsAre
  <2>9. Table!Serving(p) # {}
    BY <2>3
  <2> QED
    BY <2>2, <2>3, <2>4, <2>8, <2>9 DEF Table!Unregister, q
<1> QED
  BY <1>1, <1>2

\* A request is answered by a callback registered for its path.
LEMMA LookupIs ==
    ASSUME ListOK, NEW p \in Path, UNCHANGED path_services, found' = <<p, Answering(p)>>
    PROVE  ListOK' /\ Table!Lookup(p)
<1>1. Registrations' = Registrations
  BY DEF Registrations
<1>2. Table!Serving(p) = {path_services[i].callback : i \in Holding(p)}
  BY ServingIs
<1>3. Answering(p) \in IF Table!Serving(p) = {} THEN {Null} ELSE Table!Serving(p)
  <2>1. CASE Holding(p) = {}
    BY <1>2, <2>1 DEF Answering
  <2>2. CASE Holding(p) # {}
    <3>1. FirstSlot(p) \in Holding(p)
      BY <2>2, FirstSlotIs DEF Holding
    <3> QED
      BY <1>2, <2>2, <3>1 DEF Answering
  <2> QED
    BY <2>1, <2>2
<1> QED
  BY <1>1, <1>3 DEF ListOK, Table!Lookup

\* The pages that main registers are the first registrations.
LEMMA PathsInitIs == PathsInit => ListOK /\ Table!Init
<1> SUFFICES ASSUME PathsInit
             PROVE  ListOK /\ Table!Init
  OBVIOUS
<1> DEFINE n == Len(Pages)
           First == {Pages[i] : i \in DOMAIN Pages}
<1>1. /\ n \in Nat /\ DOMAIN Pages = 1 .. n /\ n <= Size /\ Size \in Nat
      /\ \A i \in 1 .. n : Pages[i] \in Pairs
  BY PathAssumption DEF Pairs
<1>2. \A i \in Slots : path_services[i] = IF i < n THEN Registration(Pages[i + 1]) ELSE Empty
  BY DEF PathsInit, Registration
<1>3. \A i \in Slots : i < n => i + 1 \in 1 .. n /\ Registration(Pages[i + 1])
                                                     \in [path : Path, callback : Callback]
  <2> SUFFICES ASSUME NEW i \in Slots, i < n
               PROVE  i + 1 \in 1 .. n /\ Registration(Pages[i + 1])
                                               \in [path : Path, callback : Callback]
    OBVIOUS
  <2>1. i + 1 \in 1 .. n
    BY <1>1 DEF Slots
  <2>2. Pages[i + 1] \in Pairs
    BY <1>1, <2>1
  <2> QED
    BY <2>1, <2>2 DEF Registration, Pairs
<1>4. ListOK
  BY <1>2, <1>3 DEF ListOK, PathsInit
<1>5. ASSUME NEW x \in Pairs
      PROVE  Cardinality(SlotsOf(x)) = IF x \in First THEN 1 ELSE 0
  <2>1. \A y \in Pairs : Registration(y) = Registration(x) => y = x
    BY DEF Registration, Pairs
  <2>2. CASE x \in First
    <3>1. PICK j \in 1 .. n : Pages[j] = x
      BY <1>1, <2>2
    <3>2. j - 1 \in Slots /\ j - 1 < n /\ (j - 1) + 1 = j
      BY <1>1 DEF Slots
    <3>3. \A i \in Slots : path_services[i] = Registration(x) => i = j - 1
      <4> SUFFICES ASSUME NEW i \in Slots, path_services[i] = Registration(x)
                   PROVE  i = j - 1
        OBVIOUS
      <4>1. i < n /\ i + 1 \in 1 .. n
        BY <1>2, <1>3, EmptyIsNone
      <4>2. Pages[i + 1] = x
        BY <1>1, <1>2, <2>1, <4>1
      <4>3. i + 1 = j
        BY <1>1, <3>1, <4>1, <4>2, PathAssumption
      <4> QED
        BY <4>3 DEF Slots
    <3>4. SlotsOf(x) = {j - 1}
      BY <1>2, <3>1, <3>2, <3>3 DEF SlotsOf
    <3> QED
      BY <2>2, <3>4, FS_Singleton
  <2>3. CASE x \notin First
    <3>1. SlotsOf(x) = {}
      <4> SUFFICES ASSUME NEW i \in SlotsOf(x)
                   PROVE  FALSE
        OBVIOUS
      <4>1. i \in Slots /\ path_services[i] = Registration(x)
        BY DEF SlotsOf
      <4>2. i < n /\ i + 1 \in 1 .. n
        BY <1>2, <1>3, <4>1, EmptyIsNone
      <4>3. Pages[i + 1] = x
        BY <1>1, <1>2, <2>1, <4>1, <4>2
      <4> QED
        BY <1>1, <2>3, <4>2, <4>3
    <3> QED
      BY <2>3, <3>1, FS_EmptySet
  <2> QED
    BY <2>2, <2>3
<1>6. Registrations = [x \in Pairs |-> IF x \in First THEN 1 ELSE 0]
  BY <1>5, RegistrationsAre
<1> QED
  BY <1>4, <1>6 DEF PathsInit, Table!Init, Pairs

-----------------------------------------------------------------------------
(* The invariant of the web server and its client.                         *)

Asking == {"asked", "answered", "closing", "closed for good"}

Flag == {"SYN", "FIN", "ACK", "PSH", "RST"}
SegmentOK(m) ==
    /\ m = [to |-> m.to, flags |-> m.flags, seq |-> m.seq, ack |-> m.ack,
            data |-> m.data, sum |-> m.sum]
    /\ m.seq \in Numeral /\ m.ack \in Numeral /\ m.data \in Seq(Byte)
    /\ m.to \in {"client", "device"}
    /\ m.flags \in SUBSET Flag

\* A segment with data asks for the one path of the client, and asks with the
\* number that the client expects next.
RequestOK(m) == "PSH" \in m.flags =>
    /\ client.state \in Asking
    /\ m.data \in Requests(client.path)
    /\ client.state = "asked" => m.ack = client.sent.ack

\* A segment of the device verifies; one with data has been asked for, has the
\* number that was expected then, and carries a reply that was on offer.
ReplyOK(m) ==
    /\ m.sum = checksum(Content(m), PseudoHeader(m))
    /\ m.data # << >> => /\ client.state \in Asking
                         /\ client.state = "asked" =>
                              /\ m.seq = client.sent.ack
                              /\ \E c \in offered : m.data = ReplyData(c)

NetOK == \A m \in net : /\ SegmentOK(m)
                        /\ m.to = "device" => RequestOK(m)
                        /\ m.to = "client" => ReplyOK(m)

ClientOK ==
    /\ client = [state |-> client.state, snd |-> client.snd, rcv |-> client.rcv,
                 sent |-> client.sent, path |-> client.path, acked |-> client.acked,
                 got |-> client.got]
    /\ client.state \in {"closed", "connecting", "connected"} \cup Asking
    /\ client.snd \in Numeral /\ client.rcv \in Numeral
    /\ client.path \in Path \cup {NoPath}
    /\ client.state \notin Asking => client.got = << >>
    /\ client.state \in {"connecting", "asked", "closing"} =>
          SegmentOK(client.sent) /\ client.sent.to = "device" /\ RequestOK(client.sent)

\* While it asks, a client that has got nothing expects what it asked with, and
\* one that has got a reply expects what follows it.
WaitsInOrder ==
    client.state = "asked" =>
        client.rcv = IF client.got = << >> THEN client.sent.ack ELSE Plus(client.sent.ack, 3)

\* What the device would answer now is on offer.
AnswerOffered ==
    client.state = "asked" =>
        IF client.path = NoPath THEN Null \in offered ELSE Answering(client.path) \in offered

OfferedOK == offered \subseteq Callback \cup {Null}

TcpIInv == /\ ListOK /\ NetOK /\ ClientOK
           /\ sequence_nr \in Byte
           /\ WaitsInOrder /\ AnswerOffered /\ OfferedOK
           /\ ReplyWhole

\* What the steps of a client leave alone while it asks.
AskedStays ==
    client.state \in Asking =>
        /\ client'.state \in Asking /\ client'.path = client.path
        /\ client'.state = "asked" => /\ client.state = "asked"
                                      /\ client'.sent = client.sent
                                      /\ offered \subseteq offered'

\* What is under way stays in order, if what is new is.
LEMMA NetKept ==
    ASSUME NetOK, AskedStays, NEW new, net' \subseteq net \cup new,
           \A m \in new : /\ SegmentOK(m)
                          /\ m.to = "device" => RequestOK(m)'
                          /\ m.to = "client" => ReplyOK(m)'
    PROVE  NetOK'
<1> SUFFICES ASSUME NEW m \in net, SegmentOK(m),
                    m.to = "device" => RequestOK(m),
                    m.to = "client" => ReplyOK(m)
             PROVE  /\ m.to = "device" => RequestOK(m)'
                    /\ m.to = "client" => ReplyOK(m)'
  BY DEF NetOK, SegmentOK
<1>1. RequestOK(m) => RequestOK(m)'
  BY DEF RequestOK, AskedStays, Requests
<1>2. ReplyOK(m) => ReplyOK(m)'
  BY DEF ReplyOK, AskedStays
<1> QED
  BY <1>1, <1>2

\* No data is data, too.
LEMMA NoData == << >> \in Seq(Byte)
OBVIOUS

\* Data after no data is just that.
LEMMA DataAlone == \A s \in Seq(Byte) : << >> \o s = s
OBVIOUS

\* What the device sends, with its checksum.
LEMMA SendIs ==
    ASSUME NEW a, a = [flags |-> a.flags, seq |-> a.seq, ack |-> a.ack, data |-> a.data],
           a.flags \in SUBSET Flag, a.seq \in Numeral, a.ack \in Numeral,
           a.data \in Seq(Byte),
           NEW m, m = tcp_send(a)
    PROVE  /\ SegmentOK(m) /\ m.to = "client" /\ m.seq = a.seq /\ m.data = a.data
           /\ m.sum = checksum(Content(m), PseudoHeader(m))
<1>1. m = [to |-> "client", flags |-> a.flags, seq |-> a.seq, ack |-> a.ack, data |-> a.data,
           sum |-> checksum(Content(a), PseudoHeader(a))]
  BY DEF tcp_send
<1>2. /\ m.flags = a.flags /\ m.seq = a.seq /\ m.ack = a.ack /\ m.data = a.data
      /\ m.to = "client" /\ m.sum = checksum(Content(a), PseudoHeader(a))
  BY <1>1
<1>3. Content(m) = Content(a)
  BY <1>2 DEF Content
<1>4. PseudoHeader(m) = PseudoHeader(a)
  BY <1>3 DEF PseudoHeader
<1>5. SegmentOK(m)
  BY <1>1, <1>2 DEF SegmentOK
<1> QED
  BY <1>2, <1>3, <1>4, <1>5

\* Bytes are numbers.
LEMMA ByteIsNat == Byte \subseteq Nat /\ 0 \in Byte /\ 1 \in Byte
BY BaseAssumption DEF Byte

\* A request, and the path it is read as.
LEMMA RequestIs ==
    ASSUME NEW p \in Path \cup {NoPath}, NEW data \in Requests(p)
    PROVE  /\ data \in Seq(Byte) /\ Len(data) = 3
           /\ p = NoPath => ~NamesPath(data)
           /\ p # NoPath => NamesPath(data) /\ PathOf(data) = p
<1>1. CASE p = NoPath
  <2>1. data = <<0, 0, 0>> /\ 0 \in Byte
    BY <1>1, ByteIsNat DEF Requests
  <2>2. ~NamesPath(data)
    BY <2>1, TcpAssumption DEF NamesPath
  <2> HIDE DEF Byte
  <2> QED
    BY <1>1, <2>1, <2>2
<1>2. CASE p # NoPath
  <2>1. PICK method \in {0, 1} : p \in Path /\ data = <<method, PathByte[p], 0>>
    BY <1>2 DEF Requests, Request
  <2>2. PathByte[p] \in Byte /\ 0 \in Byte /\ method \in Byte
    BY <2>1, ByteIsNat, TcpAssumption
  <2>3. data[2] = PathByte[p]
    BY <2>1
  <2>4. NamesPath(data) /\ PathOf(data) = p
    BY <2>1, <2>3, TcpAssumption DEF NamesPath, PathOf
  <2>5. data \in Seq(Byte) /\ Len(data) = 3
    BY <2>1, <2>2
  <2> QED
    BY <1>2, <2>4, <2>5
<1> QED
  BY <1>1, <1>2

\* A reply is not empty.
LEMMA ReplyIs ==
    ASSUME NEW c \in Callback \cup {Null}
    PROVE  ReplyData(c) \in Seq(Byte) /\ ReplyData(c) # << >> /\ Len(ReplyData(c)) = 2
<1>1. CallbackByte[c] \in Byte /\ 1 \in Byte
  BY ByteIsNat, TcpAssumption
<1> HIDE DEF Byte
<1>2. ReplyData(c) = <<CallbackByte[c], 1>>
  BY DEF ReplyData
<1> QED
  BY <1>1, <1>2

\* A path is answered by the callback of a slot that has it, or not found.
LEMMA AnsweringIs ==
    ASSUME ListOK, NEW p \in Path
    PROVE  /\ Answering(p) \in Callback \cup {Null}
           /\ IF Holding(p) = {} THEN Answering(p) = Null
              ELSE \E i \in Holding(p) : Answering(p) = path_services[i].callback
           /\ \A i \in Holding(p) : path_services[i].callback \in Callback
<1>1. \A i \in Holding(p) : path_services[i].callback \in Callback
  <2> SUFFICES ASSUME NEW i \in Holding(p)
               PROVE  path_services[i].callback \in Callback
    OBVIOUS
  <2>1. path_services[i] \in {Empty} \cup [path : Path, callback : Callback]
        /\ path_services[i].path = p
    BY DEF ListOK, Holding
  <2>2. path_services[i] # Empty
    BY <2>1, PathAssumption DEF Empty
  <2> QED
    BY <2>1, <2>2
<1>2. CASE Holding(p) = {}
  BY <1>1, <1>2 DEF Answering
<1>3. CASE Holding(p) # {}
  <2>1. FirstSlot(p) \in Holding(p)
    BY <1>3, FirstSlotIs DEF Holding
  <2>2. Answering(p) = path_services[FirstSlot(p)].callback
    BY <1>3 DEF Answering
  <2> QED
    BY <1>1, <1>3, <2>1, <2>2
<1> QED
  BY <1>2, <1>3

\* That, for every path.
AnswersOK == \A p \in Path :
    /\ Answering(p) \in Callback \cup {Null}
    /\ IF Holding(p) = {} THEN Answering(p) = Null
       ELSE \E i \in Holding(p) : Answering(p) = path_services[i].callback
    /\ \A i \in Holding(p) : path_services[i].callback \in Callback

\* It is so as long as the list is one.
LEMMA AnswersAre == ListOK => AnswersOK
BY AnsweringIs DEF AnswersOK

\* A segment that is taken leaves no more than there was and what is new.
LEMMA TakeIs ==
    ASSUME NEW m, NEW new, Take(m, new)
    PROVE  net' \subseteq net \cup new
BY DEF Take

\* The device answers what comes from the client, and keeps the list.
LEMMA ReceiveTcpIInv ==
    ASSUME TcpIInv, tcp_receive
    PROVE  TcpIInv' /\ [Table!Next]_(Table!vars)
<1> USE DEF TcpIInv
<1>1. PICK m \in net : /\ m.to = "device"
                       /\ \/ ReceiveReset(m) \/ ReceiveSyn(m) \/ ReceiveFin(m)
                          \/ ReceiveAck(m) \/ ReceivePush(m)
  BY DEF tcp_receive
<1>2. UNCHANGED <<path_services, client, offered, changes>>
  BY DEF tcp_receive
<1>3. /\ SegmentOK(m) /\ RequestOK(m)
      /\ m.seq \in Numeral /\ m.ack \in Numeral /\ m.data \in Seq(Byte)
  BY <1>1 DEF NetOK, SegmentOK
<1>4. /\ ListOK' /\ ClientOK' /\ WaitsInOrder' /\ AnswerOffered' /\ OfferedOK' /\ ReplyWhole'
      /\ AskedStays
  <2>1. ListOK'
    BY <1>2 DEF ListOK
  <2>2. ClientOK'
    BY <1>2 DEF ClientOK, RequestOK, Requests
  <2>3. WaitsInOrder' /\ OfferedOK' /\ ReplyWhole' /\ AskedStays
    BY <1>2 DEF WaitsInOrder, OfferedOK, ReplyWhole, AskedStays
  <2>4. AnswerOffered'
    BY <1>2 DEF AnswerOffered, Answering, Holding, FirstSlot
  <2> QED
    BY <2>1, <2>2, <2>3, <2>4
<1>5. \A n \in Nat : Next_nr(n) \in Byte
  <2>1. sequence_nr \in Nat
    BY ByteIsNat
  <2>2. \A n \in Nat : sequence_nr + n \in Int
    BY <2>1
  <2> QED
    BY <2>2, ByteType DEF Next_nr
<1>6. 1 \in Nat /\ 2 \in Nat
  OBVIOUS
<1>7. UNCHANGED found => [Table!Next]_(Table!vars)
  <2>1. UNCHANGED Registrations
    BY <1>2 DEF Registrations
  <2> QED
    BY <2>1 DEF Table!vars
<1>8. CASE ReceiveReset(m) \/ ReceiveAck(m)
  <2>1. Take(m, {}) /\ UNCHANGED <<sequence_nr, found>>
    BY <1>8 DEF ReceiveReset, ReceiveAck
  <2>2. NetOK'
    BY <1>4, <2>1, TakeIs, NetKept
  <2> QED
    BY <1>4, <1>7, <2>1, <2>2
<1>9. CASE ReceiveSyn(m)
  <2> DEFINE seq == add_value_to_buffer(Next_nr(1), m.ack)
             ack == add_value_to_buffer(1, m.seq)
             a == SynAnswer(m)
  <2>1. seq \in Numeral /\ ack \in Numeral
    BY <1>3, <1>5, <1>6, AddType, ByteIsNat
  <2>2. a = [flags |-> {"SYN", "ACK"}, seq |-> seq, ack |-> ack, data |-> << >>]
    BY DEF SynAnswer, Answer
  <2> HIDE DEF seq, ack, a
  <2>3. /\ a = [flags |-> a.flags, seq |-> a.seq, ack |-> a.ack, data |-> a.data]
        /\ a.flags \in SUBSET Flag /\ a.seq \in Numeral /\ a.ack \in Numeral
        /\ a.data = << >> /\ << >> \in Seq(Byte)
    BY <2>1, <2>2 DEF Flag
  <2>0. PICK r : r = tcp_send(a)
    OBVIOUS
  <2>4. /\ SegmentOK(r) /\ r.to = "client" /\ r.data = << >>
        /\ r.sum = checksum(Content(r), PseudoHeader(r))
    BY <2>0, <2>3, SendIs
  <2>5. ReplyOK(r)'
    BY <2>4 DEF ReplyOK
  <2>6. Take(m, {r}) /\ sequence_nr' = Next_nr(2) /\ UNCHANGED found
    BY <1>9, <2>0 DEF ReceiveSyn, a
  <2>7. NetOK'
    <3> DEFINE new == {r}
    <3>1. net' \subseteq net \cup new
      BY <2>6, TakeIs
    <3>2. \A x \in new : /\ SegmentOK(x)
                         /\ x.to = "device" => RequestOK(x)'
                         /\ x.to = "client" => ReplyOK(x)'
      BY <2>4, <2>5
    <3> HIDE DEF new
    <3> QED
      BY <1>4, <3>1, <3>2, NetKept
  <2> QED
    BY <1>4, <1>5, <1>6, <1>7, <2>6, <2>7
<1>10. CASE ReceiveFin(m)
  <2> DEFINE ack == add_value_to_buffer(1, m.seq)
             a == FinAnswer(m)
  <2>1. ack \in Numeral
    BY <1>3, <1>6, AddType
  <2>2. a = [flags |-> {"FIN", "ACK"}, seq |-> m.ack, ack |-> ack, data |-> << >>]
    BY DEF FinAnswer, Answer
  <2> HIDE DEF ack, a
  <2>3. /\ a = [flags |-> a.flags, seq |-> a.seq, ack |-> a.ack, data |-> a.data]
        /\ a.flags \in SUBSET Flag /\ a.seq \in Numeral /\ a.ack \in Numeral
        /\ a.data = << >> /\ << >> \in Seq(Byte)
    BY <1>3, <2>1, <2>2 DEF Flag
  <2>0. PICK r : r = tcp_send(a)
    OBVIOUS
  <2>4. /\ SegmentOK(r) /\ r.to = "client" /\ r.data = << >>
        /\ r.sum = checksum(Content(r), PseudoHeader(r))
    BY <2>0, <2>3, SendIs
  <2>5. ReplyOK(r)'
    BY <2>4 DEF ReplyOK
  <2>6. Take(m, {r}) /\ sequence_nr' = Next_nr(1) /\ UNCHANGED found
    BY <1>10, <2>0 DEF ReceiveFin, a
  <2>7. NetOK'
    <3> DEFINE new == {r}
    <3>1. net' \subseteq net \cup new
      BY <2>6, TakeIs
    <3>2. \A x \in new : /\ SegmentOK(x)
                         /\ x.to = "device" => RequestOK(x)'
                         /\ x.to = "client" => ReplyOK(x)'
      BY <2>4, <2>5
    <3> HIDE DEF new
    <3> QED
      BY <1>4, <3>1, <3>2, NetKept
  <2> QED
    BY <1>4, <1>5, <1>6, <1>7, <2>6, <2>7
<1>11. CASE ReceivePush(m)
  <2> DEFINE n == Len(m.data)
             ack == add_value_to_buffer(n, m.seq)
             c == Callee(m.data)
             p == PathOf(m.data)
             a == Answer(m, n, {"ACK"}, << >>)
             b == handle_request(m)
  <2>1. /\ client.state \in Asking /\ m.data \in Requests(client.path)
        /\ client.state = "asked" => m.ack = client.sent.ack
        /\ client.path \in Path \cup {NoPath}
    BY <1>3, <1>11 DEF ReceivePush, RequestOK, ClientOK
  <2>2. /\ client.path = NoPath => ~NamesPath(m.data)
        /\ client.path # NoPath => NamesPath(m.data) /\ p = client.path
    BY <2>1, RequestIs
  <2>3. c \in Callback \cup {Null} /\ (client.state = "asked" => c \in offered)
    <3>1. CASE client.path = NoPath
      BY <2>2, <3>1 DEF Callee, AnswerOffered
    <3>2. CASE client.path # NoPath
      <4>1. c = Answering(client.path) /\ client.path \in Path
        BY <2>1, <2>2, <3>2 DEF Callee
      <4> QED
        BY <3>2, <4>1, AnsweringIs DEF AnswerOffered
    <3> QED
      BY <3>1, <3>2
  <2>4. n \in Nat /\ ack \in Numeral
    BY <1>3, AddType
  <2>5. /\ a = [flags |-> {"ACK"}, seq |-> m.ack, ack |-> ack, data |-> << >>]
        /\ b = [flags |-> {"ACK", "PSH", "FIN"}, seq |-> m.ack, ack |-> ack,
                data |-> ReplyData(c)]
    BY DEF handle_request, Answer
  <2>0. PICK r, s : r = tcp_send(a) /\ s = tcp_send(b)
    OBVIOUS
  <2>6. /\ Take(m, {r, s}) /\ sequence_nr' = Next_nr(2)
        /\ found' = IF NamesPath(m.data) THEN <<p, Answering(p)>> ELSE found
    BY <1>11, <2>0 DEF ReceivePush
  <2>7. [Table!Next]_(Table!vars)
    <3>1. CASE ~NamesPath(m.data)
      BY <1>7, <2>6, <3>1
    <3>2. CASE NamesPath(m.data)
      <4>1. p \in Path /\ found' = <<p, Answering(p)>>
        BY <2>1, <2>2, <2>6, <3>2
      <4> HIDE DEF p
      <4>2. Table!Lookup(p)
        BY <1>2, <4>1, LookupIs
      <4> QED
        BY <4>1, <4>2 DEF Table!Next
    <3> QED
      BY <3>1, <3>2
  <2> HIDE DEF c, ack, n, a, b
  <2>8. << >> \in Seq(Byte) /\ ReplyData(c) \in Seq(Byte)
    BY <2>3, ReplyIs
  <2>9. /\ SegmentOK(r) /\ r.to = "client" /\ r.data = << >>
        /\ r.sum = checksum(Content(r), PseudoHeader(r))
    <3>1. /\ a = [flags |-> a.flags, seq |-> a.seq, ack |-> a.ack, data |-> a.data]
          /\ a.flags \in SUBSET Flag /\ a.seq \in Numeral /\ a.ack \in Numeral
          /\ a.data = << >>
      BY <1>3, <2>4, <2>5 DEF Flag
    <3> QED
      BY <2>0, <2>8, <3>1, SendIs
  <2>10. /\ SegmentOK(s) /\ s.to = "client" /\ s.seq = m.ack /\ s.data = ReplyData(c)
         /\ s.sum = checksum(Content(s), PseudoHeader(s))
    <3>1. /\ b = [flags |-> b.flags, seq |-> b.seq, ack |-> b.ack, data |-> b.data]
          /\ b.flags \in SUBSET Flag /\ b.seq = m.ack /\ b.ack \in Numeral
          /\ b.data = ReplyData(c)
      BY <2>4, <2>5 DEF Flag
    <3> QED
      BY <1>3, <2>0, <2>8, <3>1, SendIs
  <2>11. ReplyOK(r)' /\ ReplyOK(s)'
    <3>1. ReplyOK(r)'
      BY <2>9 DEF ReplyOK
    <3>2. ReplyOK(s)'
      <4>1. client.state = "asked" => \E g \in offered' : s.data = ReplyData(g)
        BY <1>2, <2>3, <2>10
      <4> QED
        BY <1>2, <2>1, <2>10, <4>1 DEF ReplyOK
    <3> QED
      BY <3>1, <3>2
  <2>12. NetOK'
    <3> DEFINE new == {r, s}
    <3>1. net' \subseteq net \cup new
      BY <2>6, TakeIs
    <3>2. \A x \in new : /\ SegmentOK(x)
                         /\ x.to = "device" => RequestOK(x)'
                         /\ x.to = "client" => ReplyOK(x)'
      BY <2>9, <2>10, <2>11
    <3> HIDE DEF new
    <3> QED
      BY <1>4, <3>1, <3>2, NetKept
  <2> QED
    BY <1>4, <1>5, <1>6, <2>6, <2>7, <2>12
<1> QED
  BY <1>1, <1>8, <1>9, <1>10, <1>11

\* Registering and removing paths.
LEMMA ChangePathsTcpIInv ==
    ASSUME TcpIInv, ChangePaths
    PROVE  TcpIInv' /\ [Table!Next]_(Table!vars)
<1> USE DEF TcpIInv
<1>1. PICK p \in Path : \/ \E c \in Callback : www_server_register_path(p, c)
                        \/ www_server_unregister_path(p)
  BY DEF ChangePaths
<1>2. /\ UNCHANGED <<sequence_nr, net, client, faults>>
      /\ offered' = IF client.state = "asked" /\ client.path # NoPath
                      THEN offered \cup Offered(client.path) ELSE offered
  BY DEF ChangePaths
<1>3. ListOK' /\ [Table!Next]_(Table!vars)
  <2>1. CASE \E c \in Callback : www_server_register_path(p, c)
    BY <2>1, RegisterIs DEF Table!Next
  <2>2. CASE www_server_unregister_path(p)
    BY <2>2, UnregisterIs DEF Table!Next
  <2> QED
    BY <1>1, <2>1, <2>2
<1>4. ASSUME client.state = "asked", client.path # NoPath
      PROVE  /\ Answering(client.path)' \in Offered(client.path)
             /\ Offered(client.path) \subseteq Callback \cup {Null}
  <2>1. client.path \in Path
    BY <1>4 DEF ClientOK
  <2>2. PICK q : q = client.path
    OBVIOUS
  <2>3. q \in Path /\ client'.path = q
    BY <1>2, <2>1, <2>2
  <2>4. AnswersOK'
    <3>1. ListOK'
      BY <1>3
    <3> QED
      BY <3>1, AnswersAre, PTL
  <2>5. Offers(q) = {path_services'[i].callback : i \in Holding(q)'}
    BY DEF Offers, Holding
  <2>6. (Holding(q) = {})' => Answering(q)' = Null /\ Offers(q) = {}
    BY <2>3, <2>4, <2>5 DEF AnswersOK
  <2>7. (Holding(q) # {})' => Answering(q)' \in Offers(q)
    BY <2>3, <2>4, <2>5 DEF AnswersOK
  <2>8. Offers(q) \subseteq Callback
    BY <2>3, <2>4, <2>5 DEF AnswersOK
  <2>9. Answering(q)' \in Offered(q) /\ Offered(q) \subseteq Callback \cup {Null}
    BY <2>6, <2>7, <2>8 DEF Offered
  <2>10. Answering(client.path)' = Answering(q)'
    BY <2>3
  <2> QED
    BY <2>2, <2>9, <2>10
<1>5. offered \subseteq offered'
  BY <1>2
<1>6. AskedStays
  BY <1>2, <1>5 DEF AskedStays
<1>7. NetOK'
  <2> DEFINE new == {}
  <2>1. net' \subseteq net \cup new
    BY <1>2
  <2>2. \A x \in new : /\ SegmentOK(x)
                       /\ x.to = "device" => RequestOK(x)'
                       /\ x.to = "client" => ReplyOK(x)'
    OBVIOUS
  <2> HIDE DEF new
  <2> QED
    BY <1>6, <2>1, <2>2, NetKept
<1>8. ClientOK' /\ WaitsInOrder'
  <2>1. WaitsInOrder'
    BY <1>2 DEF WaitsInOrder
  <2>2. ClientOK'
    BY <1>2 DEF ClientOK, RequestOK, Requests
  <2> QED
    BY <2>1, <2>2
<1>9. OfferedOK'
  BY <1>2, <1>4 DEF OfferedOK
<1>10. AnswerOffered'
  BY <1>2, <1>4, <1>5 DEF AnswerOffered
<1>11. ReplyWhole'
  BY <1>2, <1>5 DEF ReplyWhole
<1> QED
  BY <1>2, <1>3, <1>7, <1>8, <1>9, <1>10, <1>11

\* The list of paths is as it was.
LEMMA PathsStay ==
    ASSUME ListOK, UNCHANGED paths
    PROVE  /\ ListOK' /\ [Table!Next]_(Table!vars)
           /\ \A p : Answering(p)' = Answering(p)
<1>1. UNCHANGED <<path_services, found>>
  BY DEF paths
<1>2. UNCHANGED Registrations
  BY <1>1 DEF Registrations
<1>3. \A p : Answering(p)' = Answering(p)
  BY <1>1 DEF Answering, FirstSlot, Holding
<1> QED
  BY <1>1, <1>2, <1>3 DEF ListOK, Table!vars

\* The client connects, closes or resets: it sends what is no request.
LEMMA SendTcpIInv ==
    ASSUME TcpIInv, Connect \/ Close \/ Reset
    PROVE  TcpIInv' /\ [Table!Next]_(Table!vars)
<1> USE DEF TcpIInv
<1>1. PICK flags \in SUBSET Flag, state \in {"connecting", "closing", "closed for good"} :
         /\ "PSH" \notin flags
         /\ state = "connecting" => client.state = "closed"
         /\ state # "connecting" => client.state = "answered"
         /\ ClientSends(FromClient(flags, client.snd, client.rcv, << >>), state)
         /\ UNCHANGED <<paths, offered>>
  <2>1. CASE Connect
    <3>1. {"SYN"} \in SUBSET Flag /\ "PSH" \notin {"SYN"}
      BY DEF Flag
    <3> QED
      BY <2>1, <3>1 DEF Connect
  <2>2. CASE Close
    <3>1. {"FIN", "ACK"} \in SUBSET Flag /\ "PSH" \notin {"FIN", "ACK"}
      BY DEF Flag
    <3> QED
      BY <2>2, <3>1 DEF Close
  <2>3. CASE Reset
    <3>1. {"RST"} \in SUBSET Flag /\ "PSH" \notin {"RST"}
      BY DEF Flag
    <3> QED
      BY <2>3, <3>1 DEF Reset
  <2> QED
    BY <2>1, <2>2, <2>3
<1>2. client.snd \in Numeral /\ client.rcv \in Numeral /\ << >> \in Seq(Byte)
  BY NoData DEF ClientOK
<1>3. PICK m : m = FromClient(flags, client.snd, client.rcv, << >>)
  OBVIOUS
<1>4. SegmentOK(m) /\ m.to = "device" /\ m.flags = flags
  BY <1>2, <1>3 DEF FromClient, SegmentOK
<1>5. /\ client' = [client EXCEPT !.state = state, !.sent = m]
      /\ net' = net \cup {m}
      /\ UNCHANGED <<sequence_nr, faults, changes, paths, offered>>
  BY <1>1, <1>3 DEF ClientSends
<1>6. client' = [state |-> state, snd |-> client.snd, rcv |-> client.rcv, sent |-> m,
                 path |-> client.path, acked |-> client.acked, got |-> client.got]
  BY <1>5 DEF ClientOK
<1>7. /\ client'.state = state /\ client'.snd = client.snd /\ client'.rcv = client.rcv
      /\ client'.sent = m /\ client'.path = client.path /\ client'.acked = client.acked
      /\ client'.got = client.got
  BY <1>6
<1>8. /\ state # "asked" /\ (client.state \in Asking => state \in Asking)
      /\ (state \notin Asking => client.state \notin Asking)
  BY <1>1 DEF Asking
<1>9. RequestOK(m)'
  BY <1>1, <1>4 DEF RequestOK
<1>10. NetOK'
  <2> DEFINE new == {m}
  <2>1. net' \subseteq net \cup new
    BY <1>5
  <2>2. \A x \in new : /\ SegmentOK(x)
                       /\ x.to = "device" => RequestOK(x)'
                       /\ x.to = "client" => ReplyOK(x)'
    BY <1>4, <1>9
  <2>3. AskedStays
    BY <1>7, <1>8 DEF AskedStays
  <2> HIDE DEF new
  <2> QED
    BY <2>1, <2>2, <2>3, NetKept
<1>11. ClientOK'
  <2>1. client.path \in Path \cup {NoPath} /\ (client.state \notin Asking => client.got = << >>)
    BY DEF ClientOK
  <2>2. state \in {"closed", "connecting", "connected"} \cup Asking
    BY <1>1 DEF Asking
  <2>3. client' = [state |-> client'.state, snd |-> client'.snd, rcv |-> client'.rcv,
                   sent |-> client'.sent, path |-> client'.path, acked |-> client'.acked,
                   got |-> client'.got]
    BY <1>6, <1>7
  <2>4. RequestOK(client.sent)'
    BY <1>7, <1>9 DEF RequestOK
  <2> HIDE DEF RequestOK, SegmentOK
  <2> QED
    BY <1>2, <1>4, <1>7, <1>8, <2>1, <2>2, <2>3, <2>4 DEF ClientOK
<1>12. WaitsInOrder' /\ AnswerOffered'
  BY <1>7, <1>8 DEF WaitsInOrder, AnswerOffered
<1>13. OfferedOK' /\ ReplyWhole'
  BY <1>5, <1>7 DEF OfferedOK, ReplyWhole
<1> QED
  BY <1>5, <1>10, <1>11, <1>12, <1>13, PathsStay

\* The client asks with the number that it expects next.
LEMMA AskTcpIInv ==
    ASSUME TcpIInv, NEW p \in Path \cup {NoPath}, Ask(p)
    PROVE  TcpIInv' /\ [Table!Next]_(Table!vars)
<1> USE DEF TcpIInv
<1>1. /\ client.snd \in Numeral /\ client.rcv \in Numeral /\ client.got = << >>
      /\ client.state = "connected"
  BY DEF ClientOK, Ask, Asking
<1>0. PICK data \in Requests(p) :
           LET r == FromClient({"ACK", "PSH"}, client.snd, client.rcv, data)
           IN /\ client' = [client EXCEPT !.state = "asked", !.sent = r, !.path = p]
              /\ net' = net \cup {r}
  BY DEF Ask
<1>2. data \in Seq(Byte)
  BY RequestIs
<1>3. PICK m : m = FromClient({"ACK", "PSH"}, client.snd, client.rcv, data)
  OBVIOUS
<1>4. SegmentOK(m) /\ m.to = "device" /\ m.ack = client.rcv /\ m.data \in Requests(p)
  BY <1>1, <1>2, <1>3 DEF FromClient, SegmentOK, Flag
<1>5. /\ client' = [client EXCEPT !.state = "asked", !.sent = m, !.path = p]
      /\ net' = net \cup {m}
      /\ UNCHANGED <<paths, sequence_nr, faults, changes>>
  BY <1>0, <1>3 DEF Ask
<1>6. offered' = IF p = NoPath THEN {Null}
                 ELSE LET now == {path_services[i].callback : i \in Holding(p)}
                      IN IF now = {} THEN {Null} ELSE now
  BY DEF Ask
<1>7. client' = [state |-> "asked", snd |-> client.snd, rcv |-> client.rcv, sent |-> m,
                 path |-> p, acked |-> client.acked, got |-> client.got]
  BY <1>5 DEF ClientOK
<1>8. /\ client'.state = "asked" /\ client'.snd = client.snd /\ client'.rcv = client.rcv
      /\ client'.sent = m /\ client'.path = p /\ client'.acked = client.acked
      /\ client'.got = << >>
  BY <1>1, <1>7
<1>9. client.state \notin Asking /\ client'.state \in Asking
  BY <1>1, <1>8 DEF Asking
<1>10. RequestOK(m)'
  BY <1>4, <1>8, <1>9 DEF RequestOK, Requests
<1>11. NetOK'
  <2> DEFINE new == {m}
  <2>1. net' \subseteq net \cup new
    BY <1>5
  <2>2. \A x \in new : /\ SegmentOK(x)
                       /\ x.to = "device" => RequestOK(x)'
                       /\ x.to = "client" => ReplyOK(x)'
    BY <1>4, <1>10
  <2>3. AskedStays
    BY <1>9 DEF AskedStays
  <2> HIDE DEF new
  <2> QED
    BY <2>1, <2>2, <2>3, NetKept
<1>12. ClientOK'
  <2>1. client' = [state |-> client'.state, snd |-> client'.snd, rcv |-> client'.rcv,
                   sent |-> client'.sent, path |-> client'.path, acked |-> client'.acked,
                   got |-> client'.got]
    BY <1>7, <1>8
  <2>2. RequestOK(client.sent)'
    BY <1>8, <1>10 DEF RequestOK
  <2> HIDE DEF RequestOK, SegmentOK
  <2> QED
    BY <1>1, <1>4, <1>8, <1>9, <2>1, <2>2 DEF ClientOK
<1>13. WaitsInOrder'
  BY <1>1, <1>4, <1>8 DEF WaitsInOrder
<1>14. OfferedOK' /\ AnswerOffered'
  <2>1. CASE p = NoPath
    BY <1>6, <1>8, <2>1 DEF OfferedOK, AnswerOffered
  <2>2. CASE p # NoPath
    <3>1. p \in Path /\ AnswersOK
      BY <2>2, AnswersAre
    <3>2. Answering(p)' = Answering(p)
      BY <1>5, PathsStay
    <3>3. Answering(client.path)' = Answering(p)'
      BY <1>8
    <3>4. Answering(p) \in offered' /\ offered' \subseteq Callback \cup {Null}
      BY <1>6, <2>2, <3>1 DEF AnswersOK
    <3> QED
      BY <1>8, <2>2, <3>2, <3>3, <3>4 DEF OfferedOK, AnswerOffered
  <2> QED
    BY <2>1, <2>2
<1>15. ReplyWhole'
  BY <1>8 DEF ReplyWhole
<1> QED
  BY <1>5, <1>11, <1>12, <1>13, <1>14, <1>15, PathsStay

\* The client repeats what it has sent.
LEMMA RepeatTcpIInv ==
    ASSUME TcpIInv, Repeat
    PROVE  TcpIInv' /\ [Table!Next]_(Table!vars)
<1> USE DEF TcpIInv
<1>1. /\ net' = {client.sent} /\ client.state \in {"connecting", "asked", "closing"}
      /\ UNCHANGED <<paths, sequence_nr, client, offered, budget>>
  BY DEF Repeat
<1>2. SegmentOK(client.sent) /\ client.sent.to = "device" /\ RequestOK(client.sent)
  BY <1>1 DEF ClientOK
<1>3. PICK m : m = client.sent
  OBVIOUS
<1>4. RequestOK(m)'
  BY <1>1, <1>2, <1>3 DEF RequestOK, Requests
<1>5. NetOK'
  BY <1>1, <1>2, <1>3, <1>4 DEF NetOK
<1>6. ClientOK' /\ WaitsInOrder'
  <2>1. WaitsInOrder'
    BY <1>1 DEF WaitsInOrder
  <2>2. ClientOK'
    BY <1>1 DEF ClientOK, RequestOK, Requests
  <2> QED
    BY <2>1, <2>2
<1>7. \A p : Answering(p)' = Answering(p)
  BY <1>1, PathsStay
<1>8. AnswerOffered' /\ OfferedOK' /\ ReplyWhole'
  BY <1>1, <1>7 DEF AnswerOffered, OfferedOK, ReplyWhole
<1> QED
  BY <1>1, <1>5, <1>6, <1>8, PathsStay

\* Segments are lost.
LEMMA LoseTcpIInv ==
    ASSUME TcpIInv, Lose
    PROVE  TcpIInv' /\ [Table!Next]_(Table!vars)
<1> USE DEF TcpIInv
<1>1. net' \subseteq net /\ UNCHANGED <<paths, sequence_nr, client, offered, changes>>
  BY DEF Lose
<1>2. NetOK'
  <2> DEFINE new == {}
  <2>1. net' \subseteq net \cup new
    BY <1>1
  <2>2. \A x \in new : /\ SegmentOK(x)
                       /\ x.to = "device" => RequestOK(x)'
                       /\ x.to = "client" => ReplyOK(x)'
    OBVIOUS
  <2>3. AskedStays
    BY <1>1 DEF AskedStays
  <2> HIDE DEF new
  <2> QED
    BY <2>1, <2>2, <2>3, NetKept
<1>3. ClientOK' /\ WaitsInOrder'
  <2>1. WaitsInOrder'
    BY <1>1 DEF WaitsInOrder
  <2>2. ClientOK'
    BY <1>1 DEF ClientOK, RequestOK, Requests
  <2> QED
    BY <2>1, <2>2
<1>4. \A p : Answering(p)' = Answering(p)
  BY <1>1, PathsStay
<1>5. AnswerOffered' /\ OfferedOK' /\ ReplyWhole'
  BY <1>1, <1>4 DEF AnswerOffered, OfferedOK, ReplyWhole
<1> QED
  BY <1>1, <1>2, <1>3, <1>5, PathsStay

\* The client takes a segment, and acknowledges what it expected.
LEMMA ClientTakesIs ==
    ASSUME TcpIInv, NEW m, NEW next, ClientTakes(m, next),
           next.snd \in Numeral, next.rcv \in Numeral, AskedStays
    PROVE  /\ NetOK' /\ client' = next /\ UNCHANGED <<paths, sequence_nr, offered>>
           /\ ListOK' /\ [Table!Next]_(Table!vars)
           /\ \A p : Answering(p)' = Answering(p)
<1> USE DEF TcpIInv
<1>1. /\ client' = next /\ UNCHANGED <<paths, sequence_nr, offered, changes>>
      /\ Take(m, IF next.rcv # client.rcv THEN {Acknowledgement(next)} ELSE {})
  BY DEF ClientTakes
<1>2. PICK a : a = Acknowledgement(next)
  OBVIOUS
<1>3. SegmentOK(a) /\ a.to = "device" /\ a.flags = {"ACK"}
  BY <1>2, NoData DEF Acknowledgement, FromClient, SegmentOK, Flag
<1>4. RequestOK(a)'
  BY <1>3 DEF RequestOK
<1> DEFINE new == {a}
<1>5. net' \subseteq net \cup new
  BY <1>1, <1>2, TakeIs DEF Take
<1>6. \A x \in new : /\ SegmentOK(x)
                     /\ x.to = "device" => RequestOK(x)'
                     /\ x.to = "client" => ReplyOK(x)'
  BY <1>3, <1>4
<1> HIDE DEF new
<1>7. NetOK'
  BY <1>5, <1>6, NetKept
<1> QED
  BY <1>1, <1>7, PathsStay

\* The answer to the first segment connects.
LEMMA ConnectedTcpIInv ==
    ASSUME TcpIInv, NEW m \in net, Connected(m)
    PROVE  TcpIInv' /\ [Table!Next]_(Table!vars)
<1> USE DEF TcpIInv
<1>1. client.state = "connecting" /\ client.got = << >> /\ client.path \in Path \cup {NoPath}
  BY DEF Connected, IsSynAck, ClientOK, Asking
<1>2. m.ack \in Numeral /\ Plus(m.seq, 1) \in Numeral
  BY PlusType DEF NetOK, SegmentOK
<1>3. PICK next : next = [client EXCEPT !.state = "connected", !.snd = m.ack,
                                        !.rcv = Plus(m.seq, 1)]
  OBVIOUS
<1>4. next = [state |-> "connected", snd |-> m.ack, rcv |-> Plus(m.seq, 1),
              sent |-> client.sent, path |-> client.path, acked |-> client.acked,
              got |-> client.got]
  BY <1>3 DEF ClientOK
<1>5. /\ next.state = "connected" /\ next.snd \in Numeral /\ next.rcv \in Numeral
      /\ next.path = client.path /\ next.got = << >>
      /\ next = [state |-> next.state, snd |-> next.snd, rcv |-> next.rcv,
                 sent |-> next.sent, path |-> next.path, acked |-> next.acked,
                 got |-> next.got]
  BY <1>1, <1>2, <1>4
<1>6. ClientTakes(m, next)
  BY <1>3 DEF Connected
<1>7. AskedStays
  BY <1>1 DEF AskedStays, Asking
<1>8. /\ NetOK' /\ client' = next /\ UNCHANGED <<paths, sequence_nr, offered>>
      /\ ListOK' /\ [Table!Next]_(Table!vars)
  BY <1>5, <1>6, <1>7, ClientTakesIs
<1>9. ClientOK'
  BY <1>1, <1>5, <1>8 DEF ClientOK, Asking
<1>10. WaitsInOrder' /\ AnswerOffered' /\ OfferedOK' /\ ReplyWhole'
  BY <1>5, <1>8 DEF WaitsInOrder, AnswerOffered, OfferedOK, ReplyWhole
<1> QED
  BY <1>8, <1>9, <1>10

\* What the client keeps of a segment leaves the rest of it alone.
LEMMA ClientKeeps ==
    ASSUME NEW c, c = [state |-> c.state, snd |-> c.snd, rcv |-> c.rcv, sent |-> c.sent,
                       path |-> c.path, acked |-> c.acked, got |-> c.got],
           NEW acked, NEW got, NEW rcv, NEW snd
    PROVE  LET now == [c EXCEPT !.acked = acked, !.got = got, !.rcv = rcv]
           IN  /\ now = [state |-> c.state, snd |-> c.snd, rcv |-> rcv, sent |-> c.sent,
                         path |-> c.path, acked |-> acked, got |-> got]
               /\ [now EXCEPT !.state = "answered", !.snd = snd, !.acked = FALSE]
                    = [state |-> "answered", snd |-> snd, rcv |-> rcv, sent |-> c.sent,
                       path |-> c.path, acked |-> FALSE, got |-> got]
<1> DEFINE n1 == [c EXCEPT !.acked = acked]
           n2 == [n1 EXCEPT !.got = got]
           n3 == [n2 EXCEPT !.rcv = rcv]
           n4 == [n3 EXCEPT !.state = "answered"]
           n5 == [n4 EXCEPT !.snd = snd]
           n6 == [n5 EXCEPT !.acked = FALSE]
<1>1. n1 = [state |-> c.state, snd |-> c.snd, rcv |-> c.rcv, sent |-> c.sent,
            path |-> c.path, acked |-> acked, got |-> c.got]
  OBVIOUS
<1> HIDE DEF n1
<1>2. n2 = [state |-> c.state, snd |-> c.snd, rcv |-> c.rcv, sent |-> c.sent,
            path |-> c.path, acked |-> acked, got |-> got]
  BY <1>1
<1> HIDE DEF n2
<1>3. n3 = [state |-> c.state, snd |-> c.snd, rcv |-> rcv, sent |-> c.sent,
            path |-> c.path, acked |-> acked, got |-> got]
  BY <1>2
<1> HIDE DEF n3
<1>4. n4 = [state |-> "answered", snd |-> c.snd, rcv |-> rcv, sent |-> c.sent,
            path |-> c.path, acked |-> acked, got |-> got]
  BY <1>3
<1> HIDE DEF n4
<1>5. n5 = [state |-> "answered", snd |-> snd, rcv |-> rcv, sent |-> c.sent,
            path |-> c.path, acked |-> acked, got |-> got]
  BY <1>4
<1> HIDE DEF n5
<1>6. n6 = [state |-> "answered", snd |-> snd, rcv |-> rcv, sent |-> c.sent,
            path |-> c.path, acked |-> FALSE, got |-> got]
  <2>1. ASSUME NEW no
        PROVE  [n5 EXCEPT !.acked = no]
                 = [state |-> "answered", snd |-> snd, rcv |-> rcv, sent |-> c.sent,
                    path |-> c.path, acked |-> no, got |-> got]
    BY <1>5
  <2> QED
    BY <2>1, Zenon
<1> HIDE DEF n6
<1>7. [c EXCEPT !.acked = acked, !.got = got, !.rcv = rcv] = n3
  BY Zenon DEF n1, n2, n3
<1>8. [n3 EXCEPT !.state = "answered", !.snd = snd, !.acked = FALSE] = n6
  BY Zenon DEF n4, n5, n6
<1> QED
  BY <1>3, <1>6, <1>7, <1>8, Zenon

\* What is acknowledged and comes in order is kept; nothing comes twice.
LEMMA StreamTcpIInv ==
    ASSUME TcpIInv, NEW m \in net, m.to = "client", Stream(m)
    PROVE  TcpIInv' /\ [Table!Next]_(Table!vars)
<1> USE DEF TcpIInv
<1> DEFINE acked == client.acked \/ Acks(m)
           got == IF InOrder(m) THEN client.got \o m.data ELSE client.got
           rcv == IF InOrder(m) THEN Plus(client.rcv, Len(m.data) + 1) ELSE client.rcv
           now == [client EXCEPT !.acked = acked, !.got = got, !.rcv = rcv]
           then == IF acked /\ got # << >>
                     THEN [now EXCEPT !.state = "answered",
                                      !.snd = Plus(@, Len(client.sent.data)),
                                      !.acked = FALSE]
                     ELSE now
<1>1. client.state = "asked" /\ ClientTakes(m, then)
  BY DEF Stream, IsStream
<1>2. /\ client.snd \in Numeral /\ client.rcv \in Numeral /\ client.path \in Path \cup {NoPath}
      /\ SegmentOK(client.sent) /\ client.sent.to = "device" /\ RequestOK(client.sent)
      /\ client = [state |-> client.state, snd |-> client.snd, rcv |-> client.rcv,
                   sent |-> client.sent, path |-> client.path, acked |-> client.acked,
                   got |-> client.got]
  BY <1>1 DEF ClientOK
<1>3. /\ client.sent.ack \in Numeral /\ Len(client.sent.data) \in Nat
      /\ m.data \in Seq(Byte) /\ ReplyOK(m)
  BY <1>2 DEF SegmentOK, NetOK
<1>4. InOrder(m) =>
        /\ client.got = << >> /\ client.rcv = client.sent.ack
        /\ \E c \in offered : m.data = ReplyData(c)
  <2> SUFFICES ASSUME InOrder(m)
               PROVE  /\ client.got = << >> /\ client.rcv = client.sent.ack
                      /\ \E c \in offered : m.data = ReplyData(c)
    OBVIOUS
  <2>1. /\ m.seq = client.sent.ack /\ m.seq = client.rcv
        /\ \E c \in offered : m.data = ReplyData(c)
    BY <1>1, <1>3 DEF InOrder, ReplyOK
  <2>2. client.got = << >>
    BY <1>1, <1>3, <2>1, PlusMoves DEF WaitsInOrder
  <2> QED
    BY <2>1, <2>2
<1>5. /\ rcv \in Numeral
      /\ got = << >> \/ \E c \in offered : got = ReplyData(c)
      /\ rcv = IF got = << >> THEN client.sent.ack ELSE Plus(client.sent.ack, 3)
  <2>1. CASE InOrder(m)
    <3>1. PICK c \in offered : m.data = ReplyData(c)
      BY <1>4, <2>1
    <3>2. m.data # << >> /\ Len(m.data) = 2
      BY <3>1, ReplyIs DEF OfferedOK
    <3>3. got = m.data
      BY <1>3, <1>4, <2>1, DataAlone
    <3>4. rcv = Plus(client.sent.ack, 3)
      <4>1. Len(m.data) + 1 = 3
        BY <3>2
      <4> QED
        BY <1>4, <2>1, <4>1
    <3>5. rcv \in Numeral
      BY <1>3, <3>4, PlusType
    <3> HIDE DEF got, rcv
    <3> QED
      BY <3>1, <3>2, <3>3, <3>4, <3>5
  <2>2. CASE ~ InOrder(m)
    BY <1>1, <1>2, <2>2 DEF WaitsInOrder, ReplyWhole
  <2> QED
    BY <2>1, <2>2
<1>6. Plus(client.snd, Len(client.sent.data)) \in Numeral
  BY <1>2, <1>3, PlusType
<1>7. PICK next : next = then
  OBVIOUS
<1>8. /\ next = [state |-> next.state, snd |-> next.snd, rcv |-> next.rcv,
                 sent |-> next.sent, path |-> next.path, acked |-> next.acked,
                 got |-> next.got]
      /\ next.state \in {"asked", "answered"}
      /\ next.snd \in {client.snd, Plus(client.snd, Len(client.sent.data))}
      /\ next.rcv = rcv /\ next.sent = client.sent /\ next.path = client.path
      /\ next.got = got
  <2> DEFINE snd == Plus(client.snd, Len(client.sent.data))
  <2> HIDE DEF acked, got, rcv
  <2>1. now.snd = client.snd
    BY <1>2, ClientKeeps
  <2>2. \/ next = [state |-> client.state, snd |-> client.snd, rcv |-> rcv,
                   sent |-> client.sent, path |-> client.path, acked |-> acked, got |-> got]
        \/ next = [state |-> "answered", snd |-> snd, rcv |-> rcv,
                   sent |-> client.sent, path |-> client.path, acked |-> FALSE, got |-> got]
    BY <1>2, <1>7, <2>1, ClientKeeps
  <2> QED
    BY <1>1, <2>2
<1>9. ClientTakes(m, next)
  BY <1>1, <1>7
<1> HIDE DEF acked, got, rcv, now, then
<1>10. AskedStays
  <2>1. client' = next /\ UNCHANGED offered
    BY <1>9 DEF ClientTakes
  <2> QED
    BY <1>1, <1>8, <2>1 DEF AskedStays, Asking
<1>11. next.snd \in Numeral /\ next.rcv \in Numeral
  BY <1>2, <1>5, <1>6, <1>8
<1>12. /\ NetOK' /\ client' = next /\ UNCHANGED <<paths, sequence_nr, offered>>
       /\ ListOK' /\ [Table!Next]_(Table!vars)
       /\ \A p : Answering(p)' = Answering(p)
  BY <1>9, <1>10, <1>11, ClientTakesIs
<1>13. ClientOK'
  <2>1. RequestOK(client.sent)'
    BY <1>1, <1>2, <1>8, <1>12 DEF RequestOK, Requests, Asking
  <2>2. SegmentOK(client'.sent) /\ client'.sent.to = "device"
    BY <1>2, <1>8, <1>12
  <2>3. client'.state \in Asking /\ client'.path \in Path \cup {NoPath}
    BY <1>2, <1>8, <1>12 DEF Asking
  <2> HIDE DEF RequestOK, SegmentOK
  <2> QED
    BY <1>8, <1>11, <1>12, <2>1, <2>2, <2>3 DEF ClientOK
<1>14. WaitsInOrder' /\ ReplyWhole'
  BY <1>5, <1>8, <1>12 DEF WaitsInOrder, ReplyWhole
<1>15. AnswerOffered' /\ OfferedOK'
  BY <1>1, <1>8, <1>12 DEF AnswerOffered, OfferedOK
<1> QED
  BY <1>12, <1>13, <1>14, <1>15

\* The client closes, or takes what it does not expect.
LEMMA OtherTcpIInv ==
    ASSUME TcpIInv, NEW m \in net, Closed(m) \/ Ignored(m)
    PROVE  TcpIInv' /\ [Table!Next]_(Table!vars)
<1> USE DEF TcpIInv
<1>1. CASE Closed(m)
  <2>1. PICK next : next = [client EXCEPT !.state = "closed for good"]
    OBVIOUS
  <2>2. client.state = "closing" /\ ClientTakes(m, next)
    BY <1>1, <2>1 DEF Closed, IsFinAck
  <2>3. /\ next = [state |-> next.state, snd |-> next.snd, rcv |-> next.rcv,
                   sent |-> next.sent, path |-> next.path, acked |-> next.acked,
                   got |-> next.got]
        /\ next.state = "closed for good" /\ next.snd = client.snd /\ next.rcv = client.rcv
        /\ next.path = client.path /\ next.got = client.got
        /\ next.path \in Path \cup {NoPath} /\ next.snd \in Numeral /\ next.rcv \in Numeral
    <3>1. next = [state |-> "closed for good", snd |-> client.snd, rcv |-> client.rcv,
                  sent |-> client.sent, path |-> client.path, acked |-> client.acked,
                  got |-> client.got]
      BY <2>1 DEF ClientOK
    <3> QED
      BY <3>1 DEF ClientOK
  <2>4. AskedStays
    <3>1. client' = next
      BY <2>2 DEF ClientTakes
    <3> QED
      BY <2>3, <3>1 DEF AskedStays, Asking
  <2>5. /\ NetOK' /\ client' = next /\ UNCHANGED <<paths, sequence_nr, offered>>
        /\ ListOK' /\ [Table!Next]_(Table!vars)
    BY <2>2, <2>3, <2>4, ClientTakesIs
  <2>6. ClientOK'
    BY <2>3, <2>5 DEF ClientOK, Asking
  <2>7. WaitsInOrder' /\ AnswerOffered' /\ OfferedOK' /\ ReplyWhole'
    BY <2>3, <2>5 DEF WaitsInOrder, AnswerOffered, OfferedOK, ReplyWhole
  <2> QED
    BY <2>5, <2>6, <2>7
<1>2. CASE Ignored(m)
  <2>1. PICK next : next = client
    OBVIOUS
  <2>2. ClientTakes(m, next) /\ next.snd \in Numeral /\ next.rcv \in Numeral
    BY <1>2, <2>1 DEF Ignored, ClientOK
  <2>3. AskedStays
    <3>1. client' = client /\ UNCHANGED offered
      BY <2>1, <2>2 DEF ClientTakes
    <3> QED
      BY <3>1 DEF AskedStays
  <2>4. /\ NetOK' /\ client' = client /\ UNCHANGED <<paths, sequence_nr, offered>>
        /\ ListOK' /\ [Table!Next]_(Table!vars)
        /\ \A p : Answering(p)' = Answering(p)
    BY <2>1, <2>2, <2>3, ClientTakesIs
  <2>5. ClientOK' /\ WaitsInOrder'
    <3>1. WaitsInOrder'
      BY <2>4 DEF WaitsInOrder
    <3>2. ClientOK'
      BY <2>4 DEF ClientOK, RequestOK, Requests
    <3> QED
      BY <3>1, <3>2
  <2>6. AnswerOffered' /\ OfferedOK' /\ ReplyWhole'
    BY <2>4 DEF AnswerOffered, OfferedOK, ReplyWhole
  <2> QED
    BY <2>4, <2>5, <2>6
<1> QED
  BY <1>1, <1>2

\* The invariant holds at first.
LEMMA InitTcpIInv == TcpInit => TcpIInv /\ Table!Init
<1> SUFFICES ASSUME TcpInit
             PROVE  TcpIInv /\ Table!Init
  OBVIOUS
<1>1. ListOK /\ Table!Init
  BY PathsInitIs DEF TcpInit
<1>2. sequence_nr \in Byte /\ NetOK /\ OfferedOK
  BY ByteIsNat DEF TcpInit, NetOK, OfferedOK
<1>3. PICK n \in Numbers :
         client = [state |-> "closed", snd |-> n, rcv |-> [i \in DOMAIN n |-> 0],
                   sent |-> None, path |-> NoPath, acked |-> FALSE, got |-> << >>]
  BY DEF TcpInit
<1>4. n \in Numeral /\ [i \in DOMAIN n |-> 0] \in Numeral
  <2>1. n \in Numeral
    BY TcpAssumption DEF Numeral
  <2>2. Len(n) \in Nat \ {0} /\ DOMAIN n = 1 .. Len(n) /\ 0 \in Byte
    BY <2>1, NumeralIs, ByteIsNat
  <2>3. [i \in 1 .. Len(n) |-> 0] \in [1 .. Len(n) -> Byte]
    BY <2>2
  <2> QED
    BY <2>1, <2>2, <2>3, IsNumeral
<1>5. ClientOK
  BY <1>3, <1>4 DEF ClientOK, Asking
<1>6. WaitsInOrder /\ AnswerOffered /\ ReplyWhole
  BY <1>3 DEF WaitsInOrder, AnswerOffered, ReplyWhole
<1> QED
  BY <1>1, <1>2, <1>5, <1>6 DEF TcpIInv

\* Every step keeps the invariant, and is one of the table or none.
LEMMA StepTcpIInv ==
    ASSUME TcpIInv, [TcpNext]_tcpVars
    PROVE  TcpIInv' /\ [Table!Next]_(Table!vars)
<1>1. CASE tcp_receive
  BY <1>1, ReceiveTcpIInv
<1>2. CASE ChangePaths
  BY <1>2, ChangePathsTcpIInv
<1>3. CASE Connect \/ Close \/ Reset
  BY <1>3, SendTcpIInv
<1>4. CASE Repeat
  BY <1>4, RepeatTcpIInv
<1>5. CASE \E p \in Path \cup {NoPath} : Ask(p)
  BY <1>5, AskTcpIInv
<1>6. CASE ClientReceives
  BY <1>6, ConnectedTcpIInv, StreamTcpIInv, OtherTcpIInv DEF ClientReceives
<1>7. CASE Lose
  BY <1>7, LoseTcpIInv
<1>8. CASE UNCHANGED tcpVars
  <2> USE DEF TcpIInv
  <2>1. UNCHANGED <<paths, sequence_nr, net, client, offered, faults, changes>>
    BY <1>8 DEF tcpVars, tcp, budget
  <2>2. NetOK'
    BY <2>1 DEF NetOK, RequestOK, ReplyOK, Requests
  <2>3. ClientOK' /\ WaitsInOrder'
    <3>1. WaitsInOrder'
      BY <2>1 DEF WaitsInOrder
    <3>2. ClientOK'
      BY <2>1 DEF ClientOK, RequestOK, Requests
    <3> QED
      BY <3>1, <3>2
  <2>4. \A p : Answering(p)' = Answering(p)
    BY <2>1, PathsStay
  <2>5. AnswerOffered' /\ OfferedOK' /\ ReplyWhole'
    BY <2>1, <2>4 DEF AnswerOffered, OfferedOK, ReplyWhole
  <2> QED
    BY <2>1, <2>2, <2>3, <2>5, PathsStay
<1> QED
  BY <1>1, <1>2, <1>3, <1>4, <1>5, <1>6, <1>7, <1>8 DEF TcpNext

\* The invariant is one of every behaviour, and so are the steps of the table.
THEOREM TcpInvariant == TcpSpec => []TcpIInv
<1>1. TcpInit => TcpIInv
  BY InitTcpIInv
<1>2. TcpIInv /\ [TcpNext]_tcpVars => TcpIInv'
  BY StepTcpIInv
<1> QED
  BY <1>1, <1>2, PTL DEF TcpSpec

\* A browser gets one reply, whole, from a callback that was registered for the
\* page while it asked: the device keeps no connection, answers every repeated
\* request anew (net/tcp.c, tcp_receive; ext/www_server.c, handle_request), and
\* still no second reply, and no part of one, gets into the stream.
THEOREM RepliesStayWhole == TcpSpec => []ReplyWhole
<1>1. TcpIInv => ReplyWhole
  BY DEF TcpIInv
<1> QED
  BY <1>1, TcpInvariant, PTL

\* The contents of a segment are bytes.
LEMMA ContentType ==
    ASSUME NEW m, SegmentOK(m)
    PROVE  Content(m) \in Seq(Int) /\ PseudoHeader(m) \in Int
<1>1. m.seq \in Seq(Int) /\ m.ack \in Seq(Int) /\ m.data \in Seq(Int)
  BY ByteIsNat DEF SegmentOK, Numeral
<1>2. FlagBits(m.flags) \in Seq(Int)
  BY DEF FlagBits
<1> DEFINE s == m.seq \o m.ack
           t == s \o FlagBits(m.flags)
<1>3. s \in Seq(Int)
  BY <1>1
<1> HIDE DEF s
<1>4. t \in Seq(Int)
  BY <1>2, <1>3
<1> HIDE DEF t
<1>5. t \o m.data \in Seq(Int)
  BY <1>1, <1>4
<1>6. Content(m) \in Seq(Int)
  BY <1>5 DEF Content, s, t
<1>7. Protocol \in Int /\ Len(Content(m)) \in Int
  BY <1>6, TcpAssumption
<1> QED
  BY <1>6, <1>7 DEF PseudoHeader

\* Every segment the device sends verifies, whatever its length and bytes: the
\* sum over the pseudo header, the header and an odd last byte is folded and
\* complemented (net/shared.c, checksum; net/tcp.c, tcp_send).
THEOREM SegmentsVerify == TcpSpec => []ChecksumsVerify
<1>1. TcpIInv => ChecksumsVerify
  <2> SUFFICES ASSUME TcpIInv, NEW m \in net, m.to = "client"
               PROVE  Verifies(Content(m)
                                 \o (IF Len(Content(m)) % 2 = 1 THEN <<0>> ELSE << >>)
                                 \o Bytes(m.sum),
                               PseudoHeader(m))
    BY DEF ChecksumsVerify
  <2>1. SegmentOK(m) /\ m.sum = checksum(Content(m), PseudoHeader(m))
    BY DEF TcpIInv, NetOK, ReplyOK
  <2>2. Content(m) \in Seq(Int) /\ PseudoHeader(m) \in Int
    BY <2>1, ContentType
  <2> QED
    BY <2>1, <2>2, ChecksumVerifies
<1> QED
  BY <1>1, TcpInvariant, PTL

\* The list of slots, searched from the first, is the table of paths it is
\* meant to be, whatever slots the registrations end up in
\* (ext/www_server.c, www_server_register_path, www_server_unregister_path,
\* handle_request).
THEOREM PathsImplemented == TcpSpec => ImplementsPaths
<1>1. TcpInit => Table!Init
  BY InitTcpIInv
<1>2. TcpIInv /\ [TcpNext]_tcpVars => [Table!Next]_(Table!vars)
  BY StepTcpIInv
<1> QED
  BY <1>1, <1>2, TcpInvariant, PTL DEF TcpSpec, ImplementsPaths, Table!Spec
=============================================================================
