--------------------------- MODULE Tlc59116Proofs ---------------------------
(***************************************************************************)
(* Proofs about Tlc59116: no call of the led driver writes a register that *)
(* it does not name, and one that succeeds has done what it says, for any  *)
(* leds, values and failures of the bus.                                   *)
(***************************************************************************)
EXTENDS Tlc59116, TLAPS

\* The calls, by what they name.
Call == [name : {"none", "reset"}]
        \cup [name : {"sleep"}, asleep : BOOLEAN]
        \cup [name : {"mode"}, led : Leds, mode : Modes]
        \cup [name : {"write"}, reg : Registers, byte : Bytes]
        \cup [name : {"array"}, led : Leds, values : Arrays]

\* The operations a call begins with.
Series(c) ==
    CASE c.name = "none"  -> <<>>
      [] c.name = "reset" -> <<Start, Address("reset"), Reset, Reset, Stop>>
      [] c.name = "sleep" -> ReadThenWrite(Mode1, IF c.asleep THEN Send({Asleep})
                                                  ELSE Rewritten({Asleep}, {}))
      [] c.name = "mode"  -> ReadThenWrite(LedOut(c.led),
                                 Rewritten(Field(c.led), Placed(c.led, c.mode)))
      [] c.name = "write" -> WriteRegister(c.reg, c.byte)
      [] c.name = "array" -> WriteArray(c.led, c.values)

\* How it goes on after a failure.
Handling(c) == CASE c.name = "reset" -> "stop"
                 [] c.name = "write" -> "return"
                 [] OTHER            -> "go_on"

\* The position of the next operation in the series of the call.
Position == Len(Series(call)) + 1 - Len(todo)

\* What is left to do is the end of the series.
Remains == /\ Position \in 1 .. Len(Series(call)) + 1
           /\ \A i \in 1 .. Len(todo) : todo[i] = Series(call)[Position + i - 1]

\* A register is selected in the middle of a call only, and it is one the call
\* names: the values of an array have moved it on by their number at most.
Selected ==
    /\ todo # <<>> /\ Position >= 4
    /\ call.name \notin {"none", "reset"}
    /\ IF call.name = "array"
         THEN pointer.auto /\ \E k \in 0 .. Position - 4 : pointer.reg = Pwm(call.led, k + 1)
         ELSE ~pointer.auto /\ pointer.reg \in Named

\* The operations, to say what a series is made of.
Sent == {Rewritten(c, s) : c, s \in SUBSET (0 .. 7)}
Op == {Start, Receive, Reset, Stop} \cup Sent
      \cup {Address(to) : to \in {"receiver", "sender", "reset"}}
      \cup {Select(reg, auto) : reg \in Nat, auto \in BOOLEAN}

\* The registers and the pointer have the form they need to be written.
Shape == /\ chip = [r \in Registers |-> chip[r]]
         /\ pointer = [reg |-> pointer.reg, auto |-> pointer.auto]

IInv == /\ call \in Call
        /\ todo \in Seq(Op)
        /\ onError = Handling(call)
        /\ Shape
        /\ Remains
        /\ bus = "selected" => Selected
        /\ OnlyNamedWritten

-----------------------------------------------------------------------------
(* The series.                                                             *)

\* What the operations of a series may be, at their places.
Wellformed(c) ==
    LET s == Series(c)
        n == Len(s)
    IN  /\ s \in Seq(Op)
        /\ c.name # "none" => n > 3 /\ s[n].op = "stop"
        /\ \A i \in 1 .. n :
             /\ s[i].op = "stop" => i = n
             /\ s[i].op = "reset" => c.name = "reset"
             /\ s[i].op = "select" => i >= 3 /\ c.name \notin {"none", "reset"}
             /\ s[i].op = "select" /\ c.name = "array" =>
                    s[i].reg = Pwm(c.led, 1) /\ s[i].auto = TRUE
             /\ s[i].op = "address" /\ c.name = "array" => i = 2
             /\ s[i].op = "start" /\ c.name \in {"write", "array"} => i = 1
             /\ s[i].op = "receive" => c.name \notin {"write", "array"}
             /\ s[i].op = "byte" /\ c.name = "array" => i - 3 \in 1 .. Len(c.values)

\* The register that a call but those of arrays and resets selects.
Register(c) == CASE c.name = "sleep" -> Mode1
                 [] c.name = "mode"  -> LedOut(c.led)
                 [] c.name = "write" -> c.reg

Selects(c) == c.name \notin {"none", "reset", "array"} =>
    \A i \in 1 .. Len(Series(c)) :
        Series(c)[i].op = "select" => Series(c)[i] = Select(Register(c), FALSE)

\* Where a series selects, reads and writes.
LaidBack(s) ==
    /\ Len(s) = 11 /\ s[3].op = "select"
    /\ \A i \in 1 .. 11 : /\ s[i].op = "receive" <=> i = 6
                          /\ s[i].op = "byte" <=> i = 10
LaidOne(s, byte) ==
    /\ Len(s) = 5 /\ s[4] = Send(byte)
    /\ \A i \in 1 .. 5 : s[i].op = "byte" <=> i = 4
LaidArray(s, values) ==
    /\ Len(s) = Len(values) + 4
    /\ \A i \in 4 .. Len(values) + 3 : s[i] = Send(Dimmed(values[i - 3]))
    /\ \A i \in 1 .. Len(values) + 4 :
         /\ s[i].op = "select" <=> i = 3
         /\ s[i].op = "byte" <=> i \in 4 .. Len(values) + 3
LaidReset(s) ==
    /\ Len(s) = 5
    /\ \A i \in 1 .. 5 : s[i].op = "reset" <=> i \in {3, 4}
Laid(c) ==
    /\ c.name \in {"sleep", "mode"} => LaidBack(Series(c))
    /\ c.name = "write" => LaidOne(Series(c), c.byte)
    /\ c.name = "array" => LaidArray(Series(c), c.values)
    /\ c.name = "reset" => LaidReset(Series(c))

\* The kinds of operations are different.
LEMMA Kinds ==
    /\ Start.op = "start" /\ Receive.op = "receive" /\ Reset.op = "reset" /\ Stop.op = "stop"
    /\ \A to : Address(to).op = "address" /\ Address(to).to = to
    /\ \A reg, auto : /\ Select(reg, auto).op = "select"
                      /\ Select(reg, auto).reg = reg
                      /\ Select(reg, auto).auto = auto
    /\ \A b \in Sent : b.op = "byte"
<1>1. Start.op = "start" /\ Receive.op = "receive" /\ Reset.op = "reset" /\ Stop.op = "stop"
  BY DEF Start, Receive, Reset, Stop
<1>2. \A to : Address(to).op = "address" /\ Address(to).to = to
  BY DEF Address
<1>3. \A reg, auto : /\ Select(reg, auto).op = "select"
                     /\ Select(reg, auto).reg = reg
                     /\ Select(reg, auto).auto = auto
  BY DEF Select
<1>4. \A b \in Sent : b.op = "byte"
  BY DEF Sent, Rewritten
<1> QED
  BY <1>1, <1>2, <1>3, <1>4

\* They are operations.
LEMMA Operations ==
    /\ Start \in Op /\ Receive \in Op /\ Reset \in Op /\ Stop \in Op
    /\ \A to \in {"receiver", "sender", "reset"} : Address(to) \in Op
    /\ \A reg \in Nat, auto \in BOOLEAN : Select(reg, auto) \in Op
    /\ \A b \in Sent : b \in Op
BY DEF Op

\* A series that reads a register and writes it back.
ReadsAndWrites(s, reg) ==
    /\ s \in Seq(Op) /\ Len(s) = 11 /\ s[11].op = "stop" /\ s[3].op = "select"
    /\ \A i \in 1 .. 11 :
         /\ s[i].op = "stop" => i = 11
         /\ s[i].op # "reset"
         /\ s[i].op = "select" => i >= 3 /\ s[i] = Select(reg, FALSE)
         /\ s[i].op = "receive" <=> i = 6
         /\ s[i].op = "byte" <=> i = 10

LEMMA ReadWrite ==
    ASSUME NEW reg \in Nat, NEW last \in Sent, NEW s, s = ReadThenWrite(reg, last)
    PROVE  ReadsAndWrites(s, reg)
<1> DEFINE sel == Select(reg, FALSE)
           rcv == Address("receiver")
           snd == Address("sender")
<1>1. /\ Start \in Op /\ Receive \in Op /\ Stop \in Op /\ last \in Op
      /\ rcv \in Op /\ snd \in Op /\ sel \in Op
  BY Operations
<1>2. s = <<Start, rcv, sel, Start, snd, Receive, Start, rcv, sel, last, Stop>>
  BY DEF ReadThenWrite
<1>3. /\ Start.op = "start" /\ Receive.op = "receive" /\ Stop.op = "stop" /\ last.op = "byte"
      /\ rcv.op = "address" /\ snd.op = "address" /\ sel.op = "select"
  BY Kinds
<1> HIDE DEF sel, rcv, snd
<1>4. s \in Seq(Op) /\ Len(s) = 11
  BY <1>1, <1>2
<1>5. /\ s[1].op = "start" /\ s[2].op = "address" /\ s[4].op = "start"
      /\ s[5].op = "address" /\ s[6].op = "receive" /\ s[7].op = "start"
      /\ s[8].op = "address" /\ s[10].op = "byte" /\ s[11].op = "stop"
      /\ s[3] = sel /\ s[9] = sel
  BY <1>2, <1>3
<1>6. ASSUME NEW i \in 1 .. 11
      PROVE  /\ s[i].op = "stop" => i = 11
             /\ s[i].op # "reset"
             /\ s[i].op = "select" => i >= 3 /\ s[i] = sel
             /\ s[i].op = "receive" <=> i = 6
             /\ s[i].op = "byte" <=> i = 10
  <2>1. \/ i = 1 \/ i = 2 \/ i = 3 \/ i = 4 \/ i = 5 \/ i = 6
        \/ i = 7 \/ i = 8 \/ i = 9 \/ i = 10 \/ i = 11
    OBVIOUS
  <2> QED
    BY <1>3, <1>5, <2>1
<1> QED
  BY <1>3, <1>4, <1>5, <1>6 DEF sel, ReadsAndWrites

\* A byte is sent as it is, or changed from the one that was read.
LEMMA SentBytes ==
    /\ \A b \in SUBSET (0 .. 7) : Send(b) \in Sent
    /\ \A c, b \in SUBSET (0 .. 7) : Rewritten(c, b) \in Sent
BY DEF Send, Sent

\* The register and the bits of a led.
LEMMA LedBits ==
    ASSUME NEW led \in Leds, NEW mode \in Modes
    PROVE  /\ LedOut(led) \in Nat
           /\ Field(led) \in SUBSET (0 .. 7)
           /\ Placed(led, mode) \in SUBSET (0 .. 7)
<1>1. led \in 0 .. 255 /\ mode \subseteq {0, 1}
  BY DriverAssumption
<1>2. led % 16 \in 0 .. 15 /\ led % 4 \in 0 .. 3
  BY <1>1
<1>3. Shift(led) \in 0 .. 6
  BY <1>2 DEF Shift
<1>4. LedOut(led) \in Nat
  BY <1>2 DEF LedOut
<1> QED
  BY <1>1, <1>3, <1>4 DEF Field, Placed

\* A call of one register that reads it first.
LEMMA ReadWriteCall ==
    ASSUME NEW c \in Call, NEW last \in Sent, c.name \in {"sleep", "mode"},
           NEW reg \in Nat, Register(c) = reg, Series(c) = ReadThenWrite(reg, last)
    PROVE  Wellformed(c) /\ Selects(c) /\ Laid(c)
<1> DEFINE s == Series(c)
<1>0. s = ReadThenWrite(reg, last)
  OBVIOUS
<1> HIDE DEF s
<1>1. ReadsAndWrites(s, reg)
  BY <1>0, ReadWrite
<1>2. Wellformed(c)
  BY <1>1 DEF ReadsAndWrites, Wellformed, s
<1>3. Laid(c)
  BY <1>1 DEF ReadsAndWrites, Laid, LaidBack, s
<1> QED
  BY <1>1, <1>2, <1>3 DEF ReadsAndWrites, Selects, s

\* A reset.
LEMMA ResetCall ==
    ASSUME NEW c \in Call, c.name = "reset"
    PROVE  Wellformed(c) /\ Selects(c) /\ Laid(c)
<1> DEFINE s == Series(c)
           adr == Address("reset")
<1>1. Start \in Op /\ adr \in Op /\ Reset \in Op /\ Stop \in Op
  BY Operations
<1>2. s = <<Start, adr, Reset, Reset, Stop>>
  BY DEF Series
<1>3. Start.op = "start" /\ adr.op = "address" /\ Reset.op = "reset" /\ Stop.op = "stop"
  BY Kinds
<1> HIDE DEF s, adr
<1>4. s \in Seq(Op) /\ Len(s) = 5
  BY <1>1, <1>2
<1>5. /\ s[1].op = "start" /\ s[2].op = "address" /\ s[3].op = "reset"
      /\ s[4].op = "reset" /\ s[5].op = "stop"
  BY <1>2, <1>3
<1>6. \A i \in 1 .. 5 : i = 1 \/ i = 2 \/ i = 3 \/ i = 4 \/ i = 5
  OBVIOUS
<1>7. Wellformed(c)
  BY <1>4, <1>5, <1>6 DEF Wellformed, s
<1>8. Laid(c)
  BY <1>4, <1>5, <1>6 DEF Laid, LaidReset, s
<1> QED
  BY <1>7, <1>8 DEF Selects

\* A call that writes one register.
LEMMA WriteCall ==
    ASSUME NEW c \in Call, c.name = "write", c.reg \in Nat, c.byte \in Byte
    PROVE  Wellformed(c) /\ Selects(c) /\ Laid(c)
<1> DEFINE s == Series(c)
           sel == Select(c.reg, FALSE)
           rcv == Address("receiver")
           byte == Send(c.byte)
<1>1. /\ Start \in Op /\ rcv \in Op /\ sel \in Op /\ Stop \in Op
      /\ byte \in Sent /\ byte \in Op
  BY Operations, SentBytes DEF Byte
<1>2. s = <<Start, rcv, sel, byte, Stop>>
  BY DEF Series, WriteRegister
<1>3. /\ Start.op = "start" /\ rcv.op = "address" /\ sel.op = "select"
      /\ byte.op = "byte" /\ Stop.op = "stop"
  BY <1>1, Kinds
<1> HIDE DEF s, sel, rcv, byte
<1>4. s \in Seq(Op) /\ Len(s) = 5
  BY <1>1, <1>2
<1>5. /\ s[1].op = "start" /\ s[2].op = "address" /\ s[3].op = "select" /\ s[3] = sel
      /\ s[4].op = "byte" /\ s[5].op = "stop"
  BY <1>2, <1>3
<1>6. \A i \in 1 .. 5 : i = 1 \/ i = 2 \/ i = 3 \/ i = 4 \/ i = 5
  OBVIOUS
<1>7. Wellformed(c)
  BY <1>4, <1>5, <1>6 DEF Wellformed, s
<1>8. Register(c) = c.reg
  BY DEF Register
<1>9. Laid(c)
  <2>1. s[4] = byte
    BY <1>2
  <2> QED
    BY <1>4, <1>5, <1>6, <2>1 DEF Laid, LaidOne, s, byte
<1> QED
  BY <1>4, <1>5, <1>6, <1>7, <1>8, <1>9 DEF Selects, s, sel

\* One list after the other.
LEMMA JoinSeq ==
    ASSUME NEW S, NEW f \in Seq(S), NEW g \in Seq(S)
    PROVE  /\ f \o g \in Seq(S)
           /\ Len(f \o g) = Len(f) + Len(g)
           /\ \A i \in 1 .. Len(f) + Len(g) :
                (f \o g)[i] = IF i <= Len(f) THEN f[i] ELSE g[i - Len(f)]
OBVIOUS

\* A list without its first.
LEMMA RestSeq ==
    ASSUME NEW S, NEW f \in Seq(S), Len(f) >= 2
    PROVE  /\ Tail(f) \in Seq(S) /\ Tail(f) # <<>> /\ Len(Tail(f)) = Len(f) - 1
           /\ \A i \in 1 .. Len(Tail(f)) : Tail(f)[i] = f[i + 1]
<1>1. Tail(f) \in Seq(S) /\ Len(Tail(f)) = Len(f) - 1
  OBVIOUS
<1>2. Tail(f) # <<>>
  <2>1. Len(Tail(f)) # 0
    BY <1>1
  <2>2. Len(<<>>) = 0
    OBVIOUS
  <2> QED
    BY <2>1, <2>2
<1>3. \A i \in 1 .. Len(Tail(f)) : Tail(f)[i] = f[i + 1]
  BY <1>1
<1> QED
  BY <1>1, <1>2, <1>3

\* An array: one byte for each value, from the fourth place on.
LEMMA ArrayCall ==
    ASSUME NEW c \in Call, c.name = "array", c.led \in Leds, c.values \in Arrays
    PROVE  Wellformed(c) /\ Selects(c) /\ Laid(c)
<1> DEFINE s == Series(c)
           sel == Select(FirstOf(c.led), TRUE)
           rcv == Address("receiver")
           n == Len(c.values)
           head == <<Start, rcv, sel>>
           body == [i \in 1 .. n |-> Send(Dimmed(c.values[i]))]
           tail == <<Stop>>
<1>1. c.values \in Seq(Byte) /\ n \in Nat
  BY DriverAssumption
<1>2. \A i \in 1 .. n : body[i] \in Sent /\ body[i].op = "byte"
  <2> SUFFICES ASSUME NEW i \in 1 .. n
               PROVE  body[i] \in Sent /\ body[i].op = "byte"
    OBVIOUS
  <2>1. c.values[i] \in SUBSET (0 .. 7)
    BY <1>1 DEF Byte
  <2>2. Dimmed(c.values[i]) \in SUBSET (0 .. 7)
    BY <2>1 DEF Dimmed
  <2> QED
    BY <2>2, SentBytes, Kinds
<1>3. FirstOf(c.led) \in Nat /\ FirstOf(c.led) = Pwm(c.led, 1)
  <2> DEFINE led == c.led
  <2>1. led \in 0 .. 255
    BY DriverAssumption
  <2> HIDE DEF led
  <2>2. led + 1 - 1 = led /\ led % 16 \in Nat
    BY <2>1
  <2>3. FirstOf(led) \in Nat /\ FirstOf(led) = Pwm(led, 1)
    BY <2>2 DEF FirstOf, Pwm, FirstPwm
  <2> QED
    BY <2>3 DEF led
<1>4. Start \in Op /\ rcv \in Op /\ sel \in Op /\ Stop \in Op /\ \A b \in Sent : b \in Op
  BY <1>3, Operations
<1>5. s = (head \o body) \o tail
  BY DEF Series, WriteArray
<1>6. /\ Start.op = "start" /\ rcv.op = "address" /\ Stop.op = "stop"
      /\ sel.op = "select" /\ sel.reg = Pwm(c.led, 1) /\ sel.auto = TRUE
  <2>1. sel.op = "select" /\ sel.reg = FirstOf(c.led) /\ sel.auto = TRUE
    BY DEF Select
  <2> HIDE DEF sel
  <2> QED
    BY <1>3, <2>1, Kinds
<1>7. /\ body \in Seq(Op) /\ Len(body) = n
  <2>1. \A i \in 1 .. n : body[i] \in Op
    BY <1>2, <1>4
  <2>2. body = [i \in 1 .. n |-> body[i]]
    OBVIOUS
  <2> HIDE DEF body, n
  <2>3. n \in Nat
    BY <1>1
  <2>4. body \in [1 .. n -> Op]
    BY <2>1, <2>2
  <2> QED
    BY <2>3, <2>4
<1> HIDE DEF s, sel, rcv, n, body
<1>8. /\ head \in Seq(Op) /\ Len(head) = 3
      /\ head[1] = Start /\ head[2] = rcv /\ head[3] = sel
      /\ tail \in Seq(Op) /\ Len(tail) = 1 /\ tail[1] = Stop
  BY <1>4
<1> HIDE DEF head, tail
<1>9. /\ s \in Seq(Op) /\ Len(s) = n + 4
      /\ s[1] = Start /\ s[2] = rcv /\ s[3] = sel
      /\ \A i \in 4 .. n + 3 : s[i] = body[i - 3]
      /\ s[n + 4] = Stop
  <2> DEFINE front == head \o body
  <2>1. /\ front \in Seq(Op) /\ Len(front) = n + 3
        /\ \A i \in 1 .. 3 : front[i] = head[i]
        /\ \A i \in 4 .. n + 3 : front[i] = body[i - 3]
    <3>1. /\ front \in Seq(Op) /\ Len(front) = 3 + n
          /\ \A i \in 1 .. 3 + n : front[i] = IF i <= 3 THEN head[i] ELSE body[i - 3]
      <4>1. head \in Seq(Op) /\ body \in Seq(Op) /\ Len(head) = 3 /\ Len(body) = n
        BY <1>7, <1>8
      <4>2. /\ front \in Seq(Op) /\ Len(front) = Len(head) + Len(body)
            /\ \A i \in 1 .. Len(head) + Len(body) :
                 front[i] = IF i <= Len(head) THEN head[i] ELSE body[i - Len(head)]
        BY ONLY <4>1, JoinSeq
      <4> QED
        BY <4>1, <4>2
    <3>2. /\ 3 + n = n + 3 /\ \A i \in 1 .. 3 : i \in 1 .. 3 + n /\ i <= 3
          /\ \A i \in 4 .. n + 3 : i \in 1 .. 3 + n /\ ~(i <= 3)
      BY <1>1
    <3> HIDE DEF front
    <3> QED
      BY <3>1, <3>2
  <2> HIDE DEF front
  <2>2. s = front \o tail
    BY <1>5 DEF front
  <2>3. /\ s \in Seq(Op) /\ Len(s) = n + 4
        /\ \A i \in 1 .. n + 3 : s[i] = front[i]
        /\ s[n + 4] = tail[1]
    <3>1. /\ s \in Seq(Op) /\ Len(s) = (n + 3) + 1
          /\ \A i \in 1 .. (n + 3) + 1 :
               s[i] = IF i <= n + 3 THEN front[i] ELSE tail[i - (n + 3)]
      <4>1. /\ front \in Seq(Op) /\ tail \in Seq(Op)
            /\ Len(front) = n + 3 /\ Len(tail) = 1
        BY <1>8, <2>1
      <4>2. /\ s \in Seq(Op) /\ Len(s) = Len(front) + Len(tail)
            /\ \A i \in 1 .. Len(front) + Len(tail) :
                 s[i] = IF i <= Len(front) THEN front[i] ELSE tail[i - Len(front)]
        BY ONLY <2>2, <4>1, JoinSeq
      <4> QED
        BY <4>1, <4>2
    <3>2. /\ (n + 3) + 1 = n + 4 /\ n + 4 \in 1 .. n + 4 /\ ~(n + 4 <= n + 3)
          /\ (n + 4) - (n + 3) = 1 /\ \A i \in 1 .. n + 3 : i <= n + 3 /\ i \in 1 .. n + 4
      BY <1>1
    <3> QED
      BY <3>1, <3>2
  <2>4. 1 \in 1 .. 3 /\ 2 \in 1 .. 3 /\ 3 \in 1 .. 3 /\ 1 .. 3 \subseteq 1 .. n + 3
        /\ 4 .. n + 3 \subseteq 1 .. n + 3
    BY <1>1
  <2> QED
    BY <1>8, <2>1, <2>3, <2>4
<1>10. /\ s[1].op = "start" /\ s[2].op = "address" /\ s[3].op = "select"
       /\ s[3].reg = Pwm(c.led, 1) /\ s[3].auto = TRUE
       /\ \A i \in 4 .. n + 3 : s[i].op = "byte"
       /\ s[n + 4].op = "stop"
  <2>1. \A i \in 4 .. n + 3 : i - 3 \in 1 .. n
    BY <1>1
  <2> QED
    BY <1>2, <1>6, <1>9, <2>1
<1>11. \A i \in 1 .. n + 4 : i = 1 \/ i = 2 \/ i = 3 \/ i \in 4 .. n + 3 \/ i = n + 4
  BY <1>1
<1>12. n + 4 > 3 /\ \A i \in 4 .. n + 3 : i - 3 \in 1 .. n
  BY <1>1
<1>13. Wellformed(c)
  <2>1. ASSUME NEW i \in 1 .. n + 4
        PROVE  /\ s[i].op = "stop" => i = n + 4
               /\ s[i].op \notin {"reset", "receive"}
               /\ s[i].op = "select" =>
                      i >= 3 /\ s[i].reg = Pwm(c.led, 1) /\ s[i].auto = TRUE
               /\ s[i].op = "address" => i = 2
               /\ s[i].op = "start" => i = 1
               /\ s[i].op = "byte" => i - 3 \in 1 .. n
    BY <1>10, <1>11, <1>12
  <2> QED
    BY <1>9, <1>10, <1>12, <2>1 DEF Wellformed, s, n
<1>14. Laid(c)
  <2>1. ASSUME NEW i \in 1 .. n + 4
        PROVE  /\ s[i].op = "select" <=> i = 3
               /\ s[i].op = "byte" <=> i \in 4 .. n + 3
    BY <1>1, <1>10, <1>11
  <2>2. \A i \in 4 .. n + 3 : s[i] = Send(Dimmed(c.values[i - 3]))
    BY <1>9, <1>12 DEF body
  <2> QED
    BY <1>9, <2>1, <2>2 DEF Laid, LaidArray, s, n
<1> QED
  BY <1>13, <1>14 DEF Selects

\* The series of every call is well formed.
LEMMA EverySeries ==
    ASSUME NEW c \in Call
    PROVE  Wellformed(c) /\ Selects(c) /\ Laid(c)
<1>1. CASE c.name = "none"
  BY <1>1 DEF Wellformed, Selects, Laid, Series
<1>2. CASE c.name = "reset"
  BY <1>2, ResetCall
<1>3. CASE c.name = "sleep"
  <2> DEFINE last == IF c.asleep THEN Send({Asleep}) ELSE Rewritten({Asleep}, {})
  <2>1. last \in Sent
    BY SentBytes DEF Asleep
  <2>2. Mode1 \in Nat /\ Register(c) = Mode1
    BY <1>3 DEF Register, Mode1
  <2>3. Series(c) = ReadThenWrite(Mode1, last)
    BY <1>3 DEF Series
  <2> QED
    BY <1>3, <2>1, <2>2, <2>3, ReadWriteCall
<1>4. CASE c.name = "mode"
  <2> DEFINE last == Rewritten(Field(c.led), Placed(c.led, c.mode))
  <2>1. c.led \in Leds /\ c.mode \in Modes
    BY <1>4 DEF Call
  <2>2. last \in Sent /\ LedOut(c.led) \in Nat
    BY <2>1, LedBits, SentBytes
  <2>3. Register(c) = LedOut(c.led) /\ Series(c) = ReadThenWrite(LedOut(c.led), last)
    BY <1>4 DEF Register, Series
  <2> QED
    BY <1>4, <2>2, <2>3, ReadWriteCall
<1>5. CASE c.name = "write"
  <2>1. c.reg \in Registers /\ c.byte \in Bytes
    BY <1>5 DEF Call
  <2>2. Registers \subseteq Nat /\ Bytes \subseteq Byte
    BY DriverAssumption DEF Registers, LastRegister
  <2>3. c.reg \in Nat /\ c.byte \in Byte
    BY <2>1, <2>2
  <2> QED
    BY <1>5, <2>3, WriteCall
<1>6. CASE c.name = "array"
  <2>1. c.led \in Leds /\ c.values \in Arrays
    BY <1>6 DEF Call
  <2> QED
    BY <1>6, <2>1, ArrayCall
<1> QED
  BY <1>1, <1>2, <1>3, <1>4, <1>5, <1>6 DEF Call

-----------------------------------------------------------------------------
(* The steps.                                                              *)

\* An operation reports success when its byte was acknowledged in time, or
\* when the bus had an error.
LEMMA ZeroReported == \A a \in Answer : Reported(a) = 0 <=> a \in {"acked", "broken"}
<1>1. /\ PollsLeft("late") = 0
      /\ PollsLeft("acked") = 1 /\ PollsLeft("refused") = 1 /\ PollsLeft("lost") = 1
      /\ PollsLeft("broken") = 1
  BY DEF PollsLeft
<1>2. /\ Reported("acked") = 0 /\ Reported("late") = 1
      /\ Reported("refused") = 32 /\ Reported("lost") = 56
      /\ Reported("broken") = 0
  BY <1>1 DEF Reported, timeout, Status
<1>3. Reported("never") \in {1, 248}
  BY DEF Reported, Status
<1> QED
  BY <1>2, <1>3 DEF Answer

\* Nothing is selected and nothing is written at first.
LEMMA InitIInv == Init => IInv
<1> SUFFICES ASSUME Init
             PROVE  IInv
  OBVIOUS
<1>1. call \in Call /\ call.name = "none" /\ todo = <<>> /\ onError = "go_on"
  BY DEF Init, Call
<1>2. Series(call) = <<>> /\ Handling(call) = "go_on"
  BY <1>1 DEF Series, Handling
<1>3. todo \in Seq(Op) /\ Len(todo) = 0 /\ Len(Series(call)) = 0
  BY <1>1, <1>2
<1>4. Remains
  BY <1>3 DEF Remains, Position
<1>5. Shape /\ bus # "selected" /\ OnlyNamedWritten
  BY BusAssumption DEF Init, BusInit, Shape, OnlyNamedWritten
<1> QED
  BY <1>1, <1>2, <1>3, <1>4, <1>5 DEF IInv

\* A call begins when nothing is selected.
LEMMA BeginIInv ==
    ASSUME IInv, Ready, NEW c \in Call, Begin(c, Series(c), Handling(c))
    PROVE  IInv'
<1>1. /\ call' = c /\ todo' = Series(c) /\ onError' = Handling(c) /\ before' = chip
      /\ UNCHANGED <<bus, chip, pointer>> /\ todo = <<>>
  BY DEF Begin, Ready
<1>2. Series(c) \in Seq(Op)
  BY EverySeries DEF Wellformed
<1>3. Remains'
  <2> DEFINE s == Series(c)
  <2>1. Series(call)' = s /\ todo' = s
    BY <1>1
  <2>2. Len(s) \in Nat /\ \A i \in 1 .. Len(s) : 1 + i - 1 = i
    BY <1>2
  <2> HIDE DEF s
  <2>3. Position' = 1
    BY <2>1, <2>2 DEF Position
  <2> QED
    BY <2>1, <2>2, <2>3 DEF Remains
<1>4. bus' # "selected"
  BY <1>1 DEF IInv, Selected
<1>5. Shape' /\ OnlyNamedWritten'
  BY <1>1 DEF IInv, Shape, OnlyNamedWritten
<1> QED
  BY <1>1, <1>2, <1>3, <1>4, <1>5 DEF IInv

\* Every function of the driver is such a call.
LEMMA EveryCall ==
    ASSUME \/ tlc59116_reset \/ tlc59116_sleep \/ tlc59116_set_led_mode
           \/ tlc59116_write_register \/ tlc59116_set_brightness
           \/ tlc59116_set_brightness_array
    PROVE  \E c \in Call : c.name # "none" /\ Begin(c, Series(c), Handling(c))
<1>1. CASE tlc59116_reset
  <2> DEFINE c == [name |-> "reset"]
  <2>1. c \in Call /\ c.name # "none" /\ Begin(c, Series(c), Handling(c))
    BY <1>1 DEF tlc59116_reset, Call, Series, Handling
  <2> QED
    BY <2>1
<1>2. CASE tlc59116_sleep
  <2>1. PICK asleep \in BOOLEAN :
           Begin([name |-> "sleep", asleep |-> asleep],
                 ReadThenWrite(Mode1, IF asleep THEN Send({Asleep})
                                      ELSE Rewritten({Asleep}, {})), "go_on")
    BY <1>2 DEF tlc59116_sleep
  <2> DEFINE c == [name |-> "sleep", asleep |-> asleep]
  <2>2. c \in Call /\ c.name # "none" /\ Begin(c, Series(c), Handling(c))
    BY <2>1 DEF Call, Series, Handling
  <2> QED
    BY <2>2
<1>3. CASE tlc59116_set_led_mode
  <2>1. PICK led \in Leds, mode \in Modes :
           Begin([name |-> "mode", led |-> led, mode |-> mode],
                 ReadThenWrite(LedOut(led), Rewritten(Field(led), Placed(led, mode))),
                 "go_on")
    BY <1>3 DEF tlc59116_set_led_mode
  <2> DEFINE c == [name |-> "mode", led |-> led, mode |-> mode]
  <2>2. c \in Call /\ c.name # "none" /\ Begin(c, Series(c), Handling(c))
    BY <2>1 DEF Call, Series, Handling
  <2> QED
    BY <2>2
<1>4. CASE tlc59116_write_register \/ tlc59116_set_brightness
  <2>1. PICK reg \in Registers, byte \in Bytes :
           Begin([name |-> "write", reg |-> reg, byte |-> byte],
                 WriteRegister(reg, byte), "return")
    <3>1. /\ \A reg \in Written : reg <= LastRegister => reg \in Registers
          /\ \A led \in Leds : led < 16 => FirstPwm + led \in Registers
      BY DriverAssumption DEF FirstPwm, Registers, LastRegister
    <3> QED
      BY <1>4, <3>1 DEF tlc59116_write_register, tlc59116_set_brightness
  <2> DEFINE c == [name |-> "write", reg |-> reg, byte |-> byte]
  <2>2. c \in Call /\ c.name # "none" /\ Begin(c, Series(c), Handling(c))
    BY <2>1 DEF Call, Series, Handling
  <2> QED
    BY <2>2
<1>5. CASE tlc59116_set_brightness_array
  <2>1. PICK led \in Leds, values \in Arrays :
           Begin([name |-> "array", led |-> led, values |-> values],
                 WriteArray(led, values), "go_on")
    BY <1>5 DEF tlc59116_set_brightness_array
  <2> DEFINE c == [name |-> "array", led |-> led, values |-> values]
  <2>2. c \in Call /\ c.name # "none" /\ Begin(c, Series(c), Handling(c))
    BY <2>1 DEF Call, Series, Handling
  <2> QED
    BY <2>2
<1> QED
  BY <1>1, <1>2, <1>3, <1>4, <1>5

\* So a call keeps the invariant.
LEMMA CallIInv ==
    ASSUME IInv,
           \/ tlc59116_reset \/ tlc59116_sleep \/ tlc59116_set_led_mode
           \/ tlc59116_write_register \/ tlc59116_set_brightness
           \/ tlc59116_set_brightness_array
    PROVE  IInv'
<1>1. Ready
  BY DEF tlc59116_reset, tlc59116_sleep, tlc59116_set_led_mode,
         tlc59116_write_register, tlc59116_set_brightness,
         tlc59116_set_brightness_array
<1> QED
  BY <1>1, EveryCall, BeginIInv

\* The next operation is the one at the position.
LEMMA AtPosition ==
    ASSUME IInv, todo # <<>>
    PROVE  /\ Position \in 1 .. Len(Series(call)) /\ Len(todo) >= 1
           /\ Operation = Series(call)[Position]
           /\ Len(Series(call)) \in Nat /\ call.name # "none"
<1> DEFINE s == Series(call)
<1>1. s \in Seq(Op) /\ todo \in Seq(Op) /\ (call.name = "none" => s = <<>>)
  BY EverySeries DEF IInv, Wellformed, Series
<1>2. /\ Position = Len(s) + 1 - Len(todo) /\ Position \in 1 .. Len(s) + 1
      /\ \A i \in 1 .. Len(todo) : todo[i] = s[Position + i - 1]
  BY DEF IInv, Remains, Position
<1> HIDE DEF s
<1>3. Len(todo) \in Nat /\ Len(todo) >= 1 /\ Len(s) \in Nat /\ Operation = todo[1]
  BY <1>1 DEF Operation
<1>4. Position \in 1 .. Len(s) /\ todo[1] = s[Position + 1 - 1] /\ Position + 1 - 1 = Position
  BY <1>2, <1>3
<1>5. call.name # "none"
  BY <1>1, <1>4
<1> QED
  BY <1>3, <1>4, <1>5 DEF s

\* A step of a call leads to the next position, or a failure ends the call.
LEMMA Goes ==
    ASSUME IInv, NEW a \in Answer, todo # <<>>, Operation.op # "stop", Proceed(a)
    PROVE  /\ UNCHANGED <<call, before, onError>>
           /\ todo' \in Seq(Op)
           /\ Remains'
           /\ \/ todo' # <<>> /\ Position' = Position + 1
              \/ a # "acked" /\ call.name = "reset"
              \/ a # "acked" /\ call.name = "write" /\ todo' = <<>>
<1> DEFINE s == Series(call)
           n == Len(s)
<1>1. UNCHANGED <<call, before, onError>>
  BY DEF Proceed
<1>2. /\ Position \in 1 .. n /\ Operation = s[Position] /\ n \in Nat
      /\ call.name # "none" /\ Len(todo) >= 1
  BY AtPosition
<1>3. s[n].op = "stop" /\ s \in Seq(Op) /\ n > 3
  BY <1>2, EverySeries DEF IInv, Wellformed
<1>4. todo \in Seq(Op) /\ Position = n + 1 - Len(todo)
      /\ \A i \in 1 .. Len(todo) : todo[i] = s[Position + i - 1]
  BY DEF IInv, Remains, Position
<1>5. Series(call)' = s
  BY <1>1
<1> HIDE DEF s, n
<1>6. Position # n
  BY <1>2, <1>3
<1>7. Len(todo) \in Nat /\ Len(todo) >= 2
  BY <1>2, <1>4, <1>6
<1>8. Position' = n + 1 - Len(todo')
  BY <1>5 DEF Position, n
<1>9. CASE todo' = Tail(todo)
  <2>1. /\ todo' \in Seq(Op) /\ Len(todo') = Len(todo) - 1 /\ todo' # <<>>
        /\ \A i \in 1 .. Len(todo') : todo'[i] = todo[i + 1]
    BY <1>4, <1>7, <1>9, RestSeq
  <2>2. Position' = Position + 1 /\ Position' \in 1 .. n + 1
    BY <1>2, <1>4, <1>6, <1>7, <1>8, <2>1
  <2>3. ASSUME NEW i \in 1 .. Len(todo')
        PROVE  todo'[i] = s[Position' + i - 1]
    <3>1. i + 1 \in 1 .. Len(todo) /\ Position + (i + 1) - 1 = Position' + i - 1
      BY <1>2, <1>7, <2>1, <2>2
    <3> QED
      BY <1>4, <2>1, <3>1
  <2>4. Remains'
    BY <1>5, <2>2, <2>3 DEF Remains, n
  <2> QED
    BY <1>1, <2>1, <2>2, <2>4
<1>10. CASE todo' # Tail(todo)
  <2>1. a # "acked"
    BY <1>10, ZeroReported DEF Proceed
  <2>2. \/ call.name = "reset" /\ todo' = <<Stop>>
        \/ call.name = "write" /\ todo' = <<>>
    BY <1>10 DEF Proceed, IInv, Handling
  <2>3. CASE todo' = <<>>
    <3>1. todo' \in Seq(Op) /\ Len(todo') = 0
      BY <2>3
    <3>2. Position' = n + 1
      BY <1>2, <1>8, <3>1
    <3>3. Remains'
      BY <1>2, <1>5, <3>1, <3>2 DEF Remains, n
    <3> QED
      BY <1>1, <2>1, <2>2, <3>1, <3>3
  <2>4. CASE call.name = "reset" /\ todo' = <<Stop>>
    <3>1. todo' \in Seq(Op) /\ Len(todo') = 1 /\ todo'[1] = Stop
      BY <2>4, Operations
    <3>2. Position' = n
      BY <1>2, <1>8, <3>1
    <3>3. s[n] = Stop
      BY <2>4 DEF s, n, Series
    <3>4. n + 1 - 1 = n /\ n \in 1 .. n + 1 /\ \A i \in 1 .. 1 : i = 1
      BY <1>2, <1>3
    <3>5. Remains'
      BY <1>5, <3>1, <3>2, <3>3, <3>4 DEF Remains, n
    <3> QED
      BY <1>1, <2>1, <2>2, <3>1, <3>5
  <2> QED
    BY <2>2, <2>3, <2>4
<1> QED
  BY <1>9, <1>10

\* What the operations change besides: nothing is selected, or what was stays.
LEMMA QuietStep ==
    ASSUME IInv, NEW a \in Answer, todo # <<>>, Operation.op # "stop", Proceed(a),
           UNCHANGED chip,
           \/ bus' # "selected" /\ pointer' = pointer
           \/ bus' = bus /\ pointer' = pointer /\ bus = "selected" /\ a = "never"
                /\ Operation.op \in {"start", "receive"}
    PROVE  IInv'
<1>1. /\ UNCHANGED <<call, before, onError>> /\ todo' \in Seq(Op) /\ Remains'
      /\ \/ todo' # <<>> /\ Position' = Position + 1
         \/ a # "acked" /\ call.name \in {"reset", "write"}
  BY Goes
<1>2. Shape' /\ OnlyNamedWritten' /\ Named' = Named
  BY <1>1 DEF IInv, Shape, OnlyNamedWritten, Named
<1>3. ASSUME bus' = "selected"
      PROVE  Selected'
  <2>1. Selected /\ pointer' = pointer
    BY <1>3 DEF IInv
  \* A write starts only once, before it selects, and receives nothing.
  <2>2. todo' # <<>> /\ Position' = Position + 1 /\ Position \in Nat
    <3>1. Position \in 1 .. Len(Series(call)) /\ Operation = Series(call)[Position]
      BY AtPosition
    <3>2. /\ Operation.op = "start" /\ call.name = "write" => Position = 1
      BY <3>1, EverySeries DEF IInv, Wellformed
    <3>3. call.name = "write" => Operation.op # "receive"
      BY <3>1, EverySeries DEF IInv, Wellformed
    <3>4. call.name \notin {"write", "reset"}
      BY <1>3, <2>1, <3>1, <3>2, <3>3 DEF Selected
    <3> QED
      BY <1>1, <3>1, <3>4
  <2>3. \A k \in 0 .. Position - 4 : k \in 0 .. Position' - 4
    BY <2>2
  <2>4. Position' >= 4
    BY <2>1, <2>2 DEF Selected
  <2> QED
    BY <1>1, <1>2, <2>1, <2>2, <2>3, <2>4 DEF Selected
<1> QED
  BY <1>1, <1>2, <1>3 DEF IInv, Handling

\* A register is written only through the pointer, and while one is selected.
\* For an array the pointer has not passed the last value.
LEMMA StoresNamed ==
    ASSUME IInv, todo # <<>>, bus = "selected", Operation.op \in {"address", "byte"},
           NEW byte, Stored(byte), UNCHANGED <<call, before>>
    PROVE  Shape' /\ OnlyNamedWritten'
<1>1. Selected /\ Shape /\ call \in Call
  BY DEF IInv
<1>2. /\ Position \in 1 .. Len(Series(call)) /\ Operation = Series(call)[Position]
  BY AtPosition
<1>3. pointer.reg \in Named
  <2>1. CASE call.name # "array"
    BY <1>1, <2>1 DEF Selected
  <2>2. CASE call.name = "array"
    <3>1. Operation.op = "byte" /\ Position - 3 \in 1 .. Len(call.values)
      <4>1. Wellformed(call)
        BY <1>1, EverySeries
      <4>2. /\ Operation.op = "address" => Position = 2
            /\ Operation.op = "byte" => Position - 3 \in 1 .. Len(call.values)
        BY <1>2, <2>2, <4>1 DEF Wellformed
      <4>3. Position >= 4
        BY <1>1 DEF Selected
      <4> QED
        BY <4>2, <4>3
    <3>2. PICK k \in 0 .. Position - 4 : pointer.reg = Pwm(call.led, k + 1)
      BY <1>1, <2>2 DEF Selected
    <3>3. k + 1 \in 1 .. Len(call.values)
      BY <1>2, <3>1, <3>2
    <3>4. Named = {Pwm(call.led, j) : j \in 1 .. Len(call.values)}
      BY <2>2 DEF Named
    <3> QED
      BY <3>2, <3>3, <3>4
  <2> QED
    BY <2>1, <2>2
<1>4. chip' = [chip EXCEPT ![pointer.reg] = byte] /\ chip = [r \in Registers |-> chip[r]]
  BY <1>1 DEF Stored, Shape
<1>5. \A r \in Registers \ Named : chip'[r] = chip[r]
  BY <1>3, <1>4
<1>6. Named' = Named
  BY DEF Named
<1>7. OnlyNamedWritten'
  BY <1>5, <1>6 DEF IInv, OnlyNamedWritten
<1>8. chip' = [r \in Registers |-> chip'[r]]
  BY <1>4
<1>9. pointer' = [reg |-> pointer'.reg, auto |-> pointer'.auto]
  BY <1>1 DEF Stored, Shape
<1> QED
  BY <1>7, <1>8, <1>9 DEF Shape

\* An address ends what was selected; taken as a byte, it goes to the register
\* that is selected.
LEMMA AddressIInv == IInv /\ SendAddress => IInv'
<1> SUFFICES ASSUME IInv, SendAddress
             PROVE  IInv'
  OBVIOUS
<1>1. PICK a \in Answer : i2c_send_address(Operation.to, a) /\ Proceed(a)
  BY DEF SendAddress
<1>2. todo # <<>> /\ Operation.op = "address"
  BY DEF SendAddress, Runs
<1>3. /\ UNCHANGED <<call, before, onError>> /\ todo' \in Seq(Op) /\ Remains'
  BY <1>1, <1>2, Goes
<1>4. bus' # "selected"
  <2>1. Operation.to # "selected"
    <3>1. Position \in 1 .. Len(Series(call)) /\ Operation = Series(call)[Position]
      BY <1>2, AtPosition
    <3>2. Operation \in Op
      <4> DEFINE s == Series(call)
      <4>1. s \in Seq(Op)
        BY EverySeries DEF IInv, Wellformed
      <4> HIDE DEF s
      <4>2. s[Position] \in Op
        BY <3>1, <4>1 DEF s
      <4> QED
        BY <3>1, <4>2 DEF s
    <3>3. \A to : Operation = Address(to) => Operation.to = to
      BY Kinds
    <3>4. Operation \in {Address(to) : to \in {"receiver", "sender", "reset"}}
      BY <1>2, <3>2, Kinds DEF Op
    <3> QED
      BY <3>3, <3>4
  <2> QED
    BY <1>1, <2>1 DEF i2c_send_address, Released
<1>5. CASE UNCHANGED <<chip, pointer>>
  BY <1>1, <1>2, <1>4, <1>5, QuietStep
<1>6. CASE bus = "selected" /\ Stored(AddressByte)
  <2>1. Shape' /\ OnlyNamedWritten'
    BY <1>2, <1>3, <1>6, StoresNamed
  <2> QED
    BY <1>3, <1>4, <2>1 DEF IInv, Handling
<1> QED
  BY <1>1, <1>5, <1>6 DEF i2c_send_address

\* The pointer is set to a register that the call names.
LEMMA SelectIInv == IInv /\ SendSelect => IInv'
<1> SUFFICES ASSUME IInv, SendSelect
             PROVE  IInv'
  OBVIOUS
<1>1. PICK a \in Answer :
         SelectRegister(Operation.reg, Operation.auto, a) /\ Proceed(a)
  BY DEF SendSelect
<1>2. todo # <<>> /\ Operation.op = "select"
  BY DEF SendSelect, Runs
<1>3. /\ UNCHANGED <<call, before, onError>> /\ todo' \in Seq(Op) /\ Remains'
      /\ \/ todo' # <<>> /\ Position' = Position + 1
         \/ a # "acked" /\ call.name \in {"reset", "write"}
  BY <1>1, <1>2, Goes
<1>4. chip' = chip
      /\ pointer' = IF bus = "receiver" /\ Delivered(a)
                    THEN [reg |-> Operation.reg, auto |-> Operation.auto] ELSE pointer
  BY <1>1 DEF SelectRegister
<1>5. Shape' /\ OnlyNamedWritten' /\ Named' = Named
  BY <1>3, <1>4 DEF IInv, Shape, OnlyNamedWritten, Named
<1>6. ASSUME bus' = "selected"
      PROVE  Selected'
  <2>1. a = "acked" /\ bus = "receiver"
    BY <1>1, <1>6 DEF SelectRegister, Released, Answers
  <2>2. /\ pointer'.reg = Operation.reg /\ pointer'.auto = Operation.auto
        /\ todo' # <<>> /\ Position' = Position + 1
    BY <1>3, <1>4, <2>1 DEF Delivered
  <2>3. Position \in 1 .. Len(Series(call)) /\ Operation = Series(call)[Position]
    BY <1>2, AtPosition
  <2>4. /\ Position >= 3 /\ call.name \notin {"none", "reset"}
        /\ call.name = "array" => Operation.reg = Pwm(call.led, 1) /\ Operation.auto = TRUE
        /\ call.name # "array" => Operation = Select(Register(call), FALSE)
    BY <1>2, <2>3, EverySeries DEF IInv, Wellformed, Selects
  <2>5. call.name # "array" => Operation.auto = FALSE /\ Operation.reg \in Named
    <3>1. call.name # "array" => Operation.auto = FALSE /\ Operation.reg = Register(call)
      BY <2>4 DEF Select
    <3>2. call.name # "array" => Register(call) \in Named
      BY <2>4 DEF Register, Named, IInv, Call
    <3> QED
      BY <3>1, <3>2
  <2>6. 0 \in 0 .. Position' - 4 /\ Position' >= 4 /\ 0 + 1 = 1
    BY <2>2, <2>3, <2>4
  <2> QED
    BY <1>3, <1>5, <2>2, <2>4, <2>5, <2>6 DEF Selected
<1> QED
  BY <1>3, <1>5, <1>6 DEF IInv, Handling

\* The pointer counts on among the brightness registers.
LEMMA PwmNext ==
    ASSUME NEW led \in 0 .. 255, NEW k \in Nat
    PROVE  Pwm(led, (k + 1) + 1) = IF Pwm(led, k + 1) = LastPwm THEN FirstPwm
                                   ELSE Pwm(led, k + 1) + 1
<1>1. led + (k + 1) - 1 = led + k /\ led + ((k + 1) + 1) - 1 = (led + k) + 1
  OBVIOUS
<1>2. ((led + k) + 1) % 16 = IF (led + k) % 16 = 15 THEN 0 ELSE ((led + k) % 16) + 1
  OBVIOUS
<1>3. (led + k) % 16 \in 0 .. 15
  OBVIOUS
<1> QED
  BY <1>1, <1>2, <1>3 DEF Pwm, FirstPwm, LastPwm

\* A byte goes to the register that is selected, and may select the next one.
LEMMA ByteIInv == IInv /\ SendByte => IInv'
<1> SUFFICES ASSUME IInv, SendByte
             PROVE  IInv'
  OBVIOUS
<1> DEFINE byte == (data \ Operation.clear) \union Operation.set
<1>1. PICK a \in Answer : i2c_send_byte(byte, a) /\ Proceed(a)
  BY DEF SendByte
<1>2. todo # <<>> /\ Operation.op = "byte"
  BY DEF SendByte, Runs
<1> HIDE DEF byte
<1>3. /\ UNCHANGED <<call, before, onError>> /\ todo' \in Seq(Op) /\ Remains'
      /\ \/ todo' # <<>> /\ Position' = Position + 1
         \/ a # "acked" /\ call.name \in {"reset", "write"}
  BY <1>1, <1>2, Goes
<1>4. /\ bus' = Released(a, "selected") /\ a \in Answers({"selected"})
      /\ IF bus = "selected" /\ Delivered(a) THEN Stored(byte)
         ELSE UNCHANGED <<chip, pointer>>
  BY <1>1 DEF i2c_send_byte
<1>5. Shape' /\ OnlyNamedWritten'
  <2>1. CASE bus = "selected" /\ Delivered(a)
    BY <1>2, <1>3, <1>4, <2>1, StoresNamed
  <2>2. CASE ~(bus = "selected" /\ Delivered(a))
    BY <1>3, <1>4, <2>2 DEF IInv, Shape, OnlyNamedWritten, Named
  <2> QED
    BY <2>1, <2>2
<1>6. ASSUME bus' = "selected"
      PROVE  Selected'
  <2>1. a = "acked" /\ bus = "selected"
    BY <1>4, <1>6 DEF Released, Answers
  <2>2. Stored(byte) /\ Selected /\ Shape
    BY <1>4, <2>1 DEF Delivered, IInv
  <2>3. todo' # <<>> /\ Position' = Position + 1 /\ Named' = Named /\ call' = call
    BY <1>3, <2>1 DEF Named
  <2>4. Position \in Nat /\ Position >= 4
    BY <1>2, <2>2, AtPosition DEF Selected
  <2>5. CASE call.name # "array"
    <3>1. pointer' = pointer
      BY <2>2, <2>5 DEF Selected, Stored
    <3> QED
      BY <2>2, <2>3, <2>4, <2>5, <3>1 DEF Selected
  <2>6. CASE call.name = "array"
    <3>1. PICK k \in 0 .. Position - 4 : pointer.reg = Pwm(call.led, k + 1)
      BY <2>2, <2>6 DEF Selected
    <3>2. /\ pointer'.auto = pointer.auto
          /\ pointer'.reg = IF pointer.reg = LastPwm THEN FirstPwm ELSE pointer.reg + 1
      BY <2>2, <2>6 DEF Selected, Stored, Shape
    <3>3. pointer'.reg = Pwm(call.led, (k + 1) + 1)
      <4> DEFINE led == call.led
      <4>1. led \in 0 .. 255 /\ k \in Nat
        <5>1. call \in Call
          BY DEF IInv
        <5>2. call.led \in Leds
          BY <2>6, <5>1 DEF Call
        <5>3. k \in Nat
          BY <2>4, <3>1
        <5> QED
          BY <5>2, <5>3, DriverAssumption
      <4> QED
        BY <3>1, <3>2, <4>1, PwmNext
    <3>4. k + 1 \in 0 .. Position' - 4
      BY <2>3, <2>4, <3>1
    <3> QED
      BY <2>2, <2>3, <2>4, <2>6, <3>2, <3>3, <3>4 DEF Selected
  <2> QED
    BY <2>5, <2>6
<1> QED
  BY <1>3, <1>5, <1>6 DEF IInv, Handling

\* Only a reset resets.
LEMMA ResetIInv == IInv /\ SendReset => IInv'
<1> SUFFICES ASSUME IInv, SendReset
             PROVE  IInv'
  OBVIOUS
<1>1. PICK a \in Answer : ResetByte(a) /\ Proceed(a)
  BY DEF SendReset
<1>2. todo # <<>> /\ Operation.op = "reset"
  BY DEF SendReset, Runs
<1>3. UNCHANGED <<call, before, onError>> /\ todo' \in Seq(Op) /\ Remains'
  BY <1>1, <1>2, Goes
<1>4. call.name = "reset"
  BY <1>2, AtPosition, EverySeries DEF IInv, Wellformed
<1>5. bus' # "selected"
  BY <1>1 DEF ResetByte, Released
<1>6. OnlyNamedWritten'
  BY <1>3, <1>4 DEF OnlyNamedWritten, Named
<1>7. Shape'
  <2>1. /\ chip' = Default \/ chip' = chip
        /\ pointer' = [reg |-> 0, auto |-> FALSE] \/ pointer' = pointer
    BY <1>1 DEF ResetByte
  <2>2. Default = [r \in Registers |-> Default[r]]
    BY BusAssumption
  <2> QED
    BY <2>1, <2>2 DEF IInv, Shape
<1> QED
  BY <1>3, <1>5, <1>6, <1>7 DEF IInv, Handling

\* The invariant holds along every step.
LEMMA StepIInv == IInv /\ [Next]_vars => IInv'
<1> SUFFICES ASSUME IInv, [Next]_vars
             PROVE  IInv'
  OBVIOUS
<1>1. CASE \/ tlc59116_reset \/ tlc59116_sleep \/ tlc59116_set_led_mode
           \/ tlc59116_write_register \/ tlc59116_set_brightness
           \/ tlc59116_set_brightness_array
  BY <1>1, CallIInv
<1>2. CASE StartBus
  <2>1. PICK a \in Answer : i2c_start(a) /\ Proceed(a)
    BY <1>2 DEF StartBus
  <2>2. todo # <<>> /\ Operation.op = "start" /\ UNCHANGED <<chip, pointer>>
    BY <1>2, <2>1 DEF StartBus, Runs, i2c_start
  <2>3. bus' # "selected" \/ (bus' = bus /\ bus = "selected" /\ a = "never")
    BY <2>1 DEF i2c_start, Answer
  <2> QED
    BY <2>1, <2>2, <2>3, QuietStep
<1>3. CASE ReceiveByte
  <2>1. PICK a \in Answer : i2c_receive_byte(a) /\ Proceed(a)
    BY <1>3 DEF ReceiveByte
  <2>2. todo # <<>> /\ Operation.op = "receive" /\ UNCHANGED <<chip, pointer>>
    BY <1>3, <2>1 DEF ReceiveByte, Runs, i2c_receive_byte
  <2>3. bus' # "selected" \/ (bus' = bus /\ bus = "selected" /\ a = "never")
    BY <2>1 DEF i2c_receive_byte, Answers
  <2> QED
    BY <2>1, <2>2, <2>3, QuietStep
<1>4. CASE StopBus
  <2>1. /\ UNCHANGED <<call, before, onError, chip, pointer>>
        /\ bus' = "idle" /\ todo' = <<>> /\ todo # <<>>
    BY <1>4 DEF StopBus, Runs, i2c_stop
  <2>2. todo' \in Seq(Op) /\ Len(todo') = 0 /\ Series(call)' = Series(call)
    BY <2>1
  <2>3. Len(Series(call)) \in Nat
    BY <2>1, AtPosition
  <2>4. Remains'
    BY <2>2, <2>3 DEF Remains, Position
  <2> QED
    BY <2>1, <2>2, <2>4 DEF IInv, Handling, Shape, OnlyNamedWritten, Named
<1>5. CASE UNCHANGED vars
  <2>1. UNCHANGED <<chip, pointer, bus, todo, onError, call, before>>
    BY <1>5 DEF vars
  <2>2. Position' = Position /\ Named' = Named /\ Series(call)' = Series(call)
    BY <2>1 DEF Position, Named
  <2>3. Remains'
    BY <2>1, <2>2 DEF IInv, Remains
  <2>4. bus' = "selected" => Selected'
    BY <2>1, <2>2 DEF IInv, Selected
  <2>5. Shape' /\ OnlyNamedWritten' /\ onError' = Handling(call')
    BY <2>1, <2>2 DEF IInv, Shape, OnlyNamedWritten
  <2> QED
    BY <2>1, <2>3, <2>4, <2>5 DEF IInv
<1> QED
  BY <1>1, <1>2, <1>3, <1>4, <1>5, AddressIInv, SelectIInv, ByteIInv, ResetIInv DEF Next

\* Whatever operations of a call of the led driver fail, and however it goes on
\* after them (ext/tlc59116.c, most of whose functions look at no result), the
\* registers that the call does not name keep their values.
THEOREM OnlyNamedAreWritten == Spec => []OnlyNamedWritten
<1>1. Init => IInv
  BY InitIInv
<1>2. IInv /\ [Next]_vars => IInv'
  BY StepIInv
<1>3. IInv => OnlyNamedWritten
  BY DEF IInv
<1> QED
  BY <1>1, <1>2, <1>3, PTL DEF Spec
-----------------------------------------------------------------------------
(* What a call has done so far, if no operation of it has failed.          *)

\* A call that reads its register and writes it back.
ReadsBack == call.name \in {"sleep", "mode"}

\* The byte that it makes of the one it has read.
Change == Series(call)[10]
Changed == [before EXCEPT ![Register(call)] = (@ \ Change.clear) \union Change.set]

\* It selects the register, holds what it read, and writes once.
BackWritten ==
    /\ Position <= 10 => chip = before
    /\ Position \in 4 .. 10 => pointer.reg = Register(call)
    /\ Position \in 7 .. 10 => data = before[Register(call)]
    /\ Position > 10 => chip = Changed

OneWritten == Position > 4 => chip[call.reg] = call.byte

\* The pointer is where the next value goes, and the sixteen values before it
\* are in their places.
Placing(last) ==
    \A i \in 1 .. last : i > last - 16 =>
        chip[Pwm(call.led, i)] = Dimmed(call.values[i])
ArrayWritten ==
    /\ todo # <<>> /\ Position >= 4 =>
         pointer.reg = Pwm(call.led, Position - 3) /\ Placing(Position - 4)
    /\ todo = <<>> => Placing(Len(call.values))

BeenReset == /\ Position = 4 => bus = "reset2"
             /\ Position > 4 => chip = Default

Progress == /\ ReadsBack => BackWritten
            /\ call.name = "write" => OneWritten
            /\ call.name = "array" => ArrayWritten
            /\ call.name = "reset" => BeenReset

\* A byte that is sent as it is replaces what the variable held; and a write
\* that has failed is over, without success, unless it met a bus error.
KInv == /\ clean \in BOOLEAN /\ disturbed \in BOOLEAN
        /\ call.name \in {"write", "array"} => data \in Byte
        /\ todo # <<>> => result = 1
        /\ call.name = "write" => clean \/ disturbed \/ (todo = <<>> /\ result = 1)
        /\ clean => Progress

\* The operation at the position of a call.
LEMMA Here ==
    ASSUME IInv, todo # <<>>
    PROVE  /\ Position \in Nat /\ Position >= 1 /\ call \in Call
           /\ Operation = Series(call)[Position]
           /\ ReadsBack =>
                /\ Position <= 11
                /\ Position = 3 => Operation.op = "select"
                /\ Operation.op = "receive" <=> Position = 6
                /\ Operation.op = "byte" <=> Position = 10
           /\ call.name = "write" =>
                /\ Position = 4 => Operation = Send(call.byte)
                /\ Operation.op = "byte" <=> Position = 4
           /\ call.name = "array" =>
                /\ Position <= Len(call.values) + 4
                /\ Operation.op = "select" <=> Position = 3
                /\ Operation.op = "byte" <=> Position \in 4 .. Len(call.values) + 3
                /\ Operation.op = "byte" => Operation = Send(Dimmed(call.values[Position - 3]))
                /\ Len(call.values) \in Nat
           /\ call.name = "reset" => (Operation.op = "reset" <=> Position \in {3, 4})
<1> DEFINE s == Series(call)
           n == Len(s)
           p == Position
<1>1. call \in Call /\ Wellformed(call) /\ Laid(call)
  BY EverySeries DEF IInv
<1>2. p \in 1 .. n /\ Operation = s[p] /\ n \in Nat
  BY AtPosition
<1> HIDE DEF s, n, p
<1>3. p \in Nat /\ p >= 1 /\ p <= n
  BY <1>2
<1>4. ASSUME ReadsBack
      PROVE  /\ p <= 11
             /\ p = 3 => s[p].op = "select"
             /\ s[p].op = "receive" <=> p = 6
             /\ s[p].op = "byte" <=> p = 10
  <2>1. LaidBack(s)
    BY <1>1, <1>4 DEF ReadsBack, Laid, s
  <2>2. n = 11 /\ p \in 1 .. 11
    BY <1>2, <2>1 DEF LaidBack, n
  <2> QED
    BY <2>1, <2>2 DEF LaidBack
<1>5. call.name = "write" => /\ p = 4 => s[p] = Send(call.byte)
                             /\ s[p].op = "byte" <=> p = 4
  BY <1>1, <1>2 DEF Laid, LaidOne, s, n
<1>6. call.name = "array" =>
         /\ p <= Len(call.values) + 4
         /\ s[p].op = "select" <=> p = 3
         /\ s[p].op = "byte" <=> p \in 4 .. Len(call.values) + 3
         /\ s[p].op = "byte" => s[p] = Send(Dimmed(call.values[p - 3]))
         /\ Len(call.values) \in Nat
  <2> SUFFICES ASSUME call.name = "array"
               PROVE  /\ p <= Len(call.values) + 4
                      /\ s[p].op = "select" <=> p = 3
                      /\ s[p].op = "byte" <=> p \in 4 .. Len(call.values) + 3
                      /\ s[p].op = "byte" => s[p] = Send(Dimmed(call.values[p - 3]))
                      /\ Len(call.values) \in Nat
    OBVIOUS
  <2>1. call.values \in Seq(Byte)
    BY <1>1, DriverAssumption DEF Call
  <2>2. Len(call.values) \in Nat
    BY <2>1
  <2>3. LaidArray(s, call.values)
    BY <1>1 DEF Laid, s
  <2>4. n = Len(call.values) + 4 /\ p \in 1 .. Len(call.values) + 4
    BY <1>2, <2>3 DEF LaidArray, n
  <2> QED
    BY <1>3, <2>2, <2>3, <2>4 DEF LaidArray
<1>7. call.name = "reset" => (s[p].op = "reset" <=> p \in {3, 4})
  BY <1>1, <1>2 DEF Laid, LaidReset, s, n
<1> QED
  BY <1>1, <1>2, <1>3, <1>4, <1>5, <1>6, <1>7 DEF s, p

\* An operation that changes neither the registers nor what the call has read
\* keeps what is done; where it stands there is no other to do.
LEMMA StillDone ==
    ASSUME IInv, Progress, todo # <<>>, UNCHANGED <<chip, pointer, data, call, before>>,
           Operation.op \notin {"select", "receive", "byte", "reset", "stop"},
           Position' = Position + 1, todo' # <<>>
    PROVE  Progress'
<1>1. Series(call)' = Series(call) /\ Register(call)' = Register(call)
  OBVIOUS
<1>2. ReadsBack => BackWritten'
  <2> SUFFICES ASSUME ReadsBack
               PROVE  BackWritten'
    OBVIOUS
  <2>1. /\ Position \in Nat /\ Position >= 1
        /\ Position # 3 /\ Position # 6 /\ Position # 10
    BY Here
  <2>2. BackWritten
    BY DEF Progress
  <2>3. Changed' = Changed
    BY <1>1 DEF Changed, Change
  <2> QED
    BY <1>1, <2>1, <2>2, <2>3 DEF BackWritten
<1>3. call.name = "write" => OneWritten'
  <2> SUFFICES ASSUME call.name = "write"
               PROVE  OneWritten'
    OBVIOUS
  <2>1. Position \in Nat /\ Position # 4 /\ OneWritten
    BY Here DEF Progress
  <2> QED
    BY <2>1 DEF OneWritten
<1>4. call.name = "array" => ArrayWritten'
  <2> SUFFICES ASSUME call.name = "array"
               PROVE  ArrayWritten'
    OBVIOUS
  <2>1. /\ Position \in Nat /\ Position # 3 /\ Len(call.values) \in Nat
        /\ ~(Position \in 4 .. Len(call.values) + 3)
        /\ Position <= Len(call.values) + 4
    BY Here
  <2>2. Position # Len(call.values) + 4
    <3>1. call \in Call /\ Wellformed(call) /\ Laid(call)
      BY EverySeries DEF IInv
    <3>2. Len(Series(call)) = Len(call.values) + 4
      BY <3>1 DEF Laid, LaidArray
    <3>3. Series(call)[Len(Series(call))].op = "stop"
      BY <3>1 DEF Wellformed
    <3>4. Operation = Series(call)[Position]
      BY Here
    <3> QED
      BY <3>2, <3>3, <3>4
  <2>3. ~(Position' >= 4)
    BY <2>1, <2>2
  <2> QED
    BY <2>3 DEF ArrayWritten
<1>5. call.name = "reset" => BeenReset'
  <2> SUFFICES ASSUME call.name = "reset"
               PROVE  BeenReset'
    OBVIOUS
  <2>1. Position \in Nat /\ Position # 3 /\ Position # 4 /\ BeenReset
    BY Here DEF Progress
  <2> QED
    BY <2>1 DEF BeenReset
<1> QED
  BY <1>2, <1>3, <1>4, <1>5 DEF Progress, ReadsBack

\* The selection of a register is acknowledged: the pointer is set to it.
LEMMA SelectDone ==
    ASSUME IInv, Progress, todo # <<>>, Operation.op = "select",
           SelectRegister(Operation.reg, Operation.auto, "acked"),
           UNCHANGED <<data, call, before>>, Position' = Position + 1, todo' # <<>>
    PROVE  Progress'
<1>1. Series(call)' = Series(call) /\ Register(call)' = Register(call)
  OBVIOUS
<1>2. chip' = chip /\ pointer'.reg = Operation.reg
  <2>1. bus = "receiver"
    BY DEF SelectRegister, Answers
  <2> QED
    BY <2>1 DEF SelectRegister, Delivered
<1>3. /\ Position \in Nat /\ Position >= 1
      /\ Operation = Series(call)[Position] /\ Position \in 1 .. Len(Series(call))
  BY Here, AtPosition
<1>4. call \in Call /\ Wellformed(call) /\ Selects(call)
  BY EverySeries DEF IInv
<1>5. /\ call.name \notin {"none", "reset"}
      /\ call.name = "array" => Operation.reg = Pwm(call.led, 1)
      /\ call.name # "array" => Operation.reg = Register(call)
  <2>1. call.name \notin {"none", "reset"} /\ (call.name = "array" => Operation.reg = Pwm(call.led, 1))
    BY <1>3, <1>4 DEF Wellformed
  <2>2. call.name # "array" => Operation = Select(Register(call), FALSE)
    BY <1>3, <1>4, <2>1 DEF Selects
  <2> QED
    BY <2>1, <2>2 DEF Select
<1>6. ReadsBack => BackWritten'
  <2> SUFFICES ASSUME ReadsBack
               PROVE  BackWritten'
    OBVIOUS
  <2>1. Position # 6 /\ Position # 10 /\ BackWritten
    BY Here DEF Progress
  <2>2. Changed' = Changed
    BY <1>1 DEF Changed, Change
  <2>3. pointer'.reg = Register(call)'
    BY <1>1, <1>2, <1>5 DEF ReadsBack
  <2> QED
    BY <1>1, <1>2, <1>3, <2>1, <2>2, <2>3 DEF BackWritten
<1>7. call.name = "write" => OneWritten'
  <2> SUFFICES ASSUME call.name = "write"
               PROVE  OneWritten'
    OBVIOUS
  <2>1. Position # 4 /\ OneWritten
    BY Here DEF Progress
  <2> QED
    BY <1>2, <1>3, <2>1 DEF OneWritten
<1>8. call.name = "array" => ArrayWritten'
  <2> SUFFICES ASSUME call.name = "array"
               PROVE  ArrayWritten'
    OBVIOUS
  <2>1. Position' = 4
    BY Here
  <2>2. Position' - 3 = 1 /\ Position' - 4 = 0 /\ 1 .. 0 = {}
    BY <2>1
  <2>3. pointer'.reg = Pwm(call.led, 1)
    BY <1>2, <1>5
  <2> QED
    BY <2>2, <2>3 DEF ArrayWritten, Placing
<1> QED
  BY <1>5, <1>6, <1>7, <1>8 DEF Progress, ReadsBack

\* A byte is received: it is the one of the register that is selected.
LEMMA ReceiveDone ==
    ASSUME IInv, Progress, todo # <<>>, Operation.op = "receive",
           UNCHANGED <<chip, pointer, call, before>>, data' = chip[pointer.reg],
           Position' = Position + 1, todo' # <<>>
    PROVE  Progress'
<1>1. Series(call)' = Series(call) /\ Register(call)' = Register(call)
  OBVIOUS
<1>2. /\ Position \in Nat /\ Position >= 1
      /\ Operation = Series(call)[Position] /\ Position \in 1 .. Len(Series(call))
  BY Here, AtPosition
<1>3. call.name \notin {"write", "array"}
  BY <1>2, EverySeries DEF IInv, Wellformed
<1>4. ReadsBack => BackWritten'
  <2> SUFFICES ASSUME ReadsBack
               PROVE  BackWritten'
    OBVIOUS
  <2>1. Position = 6 /\ BackWritten
    BY Here DEF Progress
  <2>2. chip = before /\ pointer.reg = Register(call)
    BY <2>1 DEF BackWritten
  <2> QED
    BY <1>1, <2>1, <2>2 DEF BackWritten
<1>5. call.name = "reset" => BeenReset'
  <2> SUFFICES ASSUME call.name = "reset"
               PROVE  BeenReset'
    OBVIOUS
  <2>1. Position # 3 /\ Position # 4 /\ BeenReset
    BY Here DEF Progress
  <2> QED
    BY <1>2, <2>1 DEF BeenReset
<1> QED
  BY <1>3, <1>4, <1>5 DEF Progress, ReadsBack

\* Sixteen values go to sixteen leds.
LEMMA PwmDistinct ==
    ASSUME NEW led \in 0 .. 255, NEW i \in Nat, NEW j \in Nat, 1 <= i, i < j, j < i + 16
    PROVE  Pwm(led, i) # Pwm(led, j)
<1> DEFINE a == led + i - 1
           b == led + j - 1
<1>1. a \in Nat /\ b \in Nat /\ a < b /\ b < a + 16
  OBVIOUS
<1> HIDE DEF a, b
<1>2. a % 16 # b % 16
  BY <1>1
<1> QED
  BY <1>1, <1>2 DEF Pwm, FirstPwm, a, b

\* Every led has a brightness register.
LEMMA PwmInChip ==
    ASSUME NEW led \in 0 .. 255, NEW i \in Nat, 1 <= i
    PROVE  Pwm(led, i) \in Registers
<1>1. (led + i - 1) % 16 \in 0 .. 15
  OBVIOUS
<1> QED
  BY <1>1 DEF Pwm, FirstPwm, Registers, LastRegister

\* The registers that are read and written back exist.
LEMMA RegisterInChip ==
    ASSUME call \in Call, call.name \in {"sleep", "mode", "write"}
    PROVE  Register(call) \in Registers /\ Named = {Register(call)}
<1>1. CASE call.name = "sleep"
  BY <1>1 DEF Register, Named, Mode1, Registers, LastRegister
<1>2. CASE call.name = "write"
  BY <1>2 DEF Register, Named, Call
<1>3. CASE call.name = "mode"
  <2>1. call.led \in 0 .. 255
    BY <1>3, DriverAssumption DEF Call
  <2> DEFINE led == call.led
  <2> HIDE DEF led
  <2>2. (led % 16) \div 4 \in 0 .. 3
    BY <2>1 DEF led
  <2>3. LedOut(led) \in Registers
    BY <2>2 DEF LedOut, Registers, LastRegister
  <2> QED
    BY <1>3, <2>3 DEF Register, Named, led
<1> QED
  BY <1>1, <1>2, <1>3

\* What is sent is a byte, whatever was read.
LEMMA SentIsByte ==
    ASSUME IInv, todo # <<>>, Operation.op = "byte", data \in Byte
    PROVE  (data \ Operation.clear) \union Operation.set \in Byte
<1>1. Operation \in Op
  <2> DEFINE s == Series(call)
  <2>1. s \in Seq(Op) /\ Position \in 1 .. Len(s) /\ Operation = s[Position]
    BY AtPosition, EverySeries DEF IInv, Wellformed
  <2> HIDE DEF s
  <2> QED
    BY <2>1
<1>2. Operation \in Sent
  BY <1>1, Kinds DEF Op
<1>3. PICK c \in SUBSET (0 .. 7), b \in SUBSET (0 .. 7) : Operation = Rewritten(c, b)
  BY <1>2 DEF Sent
<1>4. Operation.set = b
  BY <1>3 DEF Rewritten
<1> QED
  BY <1>4 DEF Byte

\* A byte is sent as it is, if it says all the bits.
LEMMA SendIs ==
    ASSUME data \in Byte, NEW byte
    PROVE  (data \ Send(byte).clear) \union Send(byte).set = byte
BY DEF Byte, Send, Rewritten

\* A byte is acknowledged: it is in the register that was selected.
LEMMA ByteDone ==
    ASSUME IInv, Progress, todo # <<>>, Operation.op = "byte",
           call.name \in {"write", "array"} => data \in Byte,
           NEW byte, byte = (data \ Operation.clear) \union Operation.set,
           i2c_send_byte(byte, "acked"),
           UNCHANGED <<call, before>>, Position' = Position + 1, todo' # <<>>
    PROVE  Progress'
<1>1. Series(call)' = Series(call) /\ Register(call)' = Register(call) /\ call \in Call
  BY DEF IInv
<1>2. bus = "selected" /\ Stored(byte)
  BY DEF i2c_send_byte, Answers, Delivered
<1>3. Selected /\ Shape
  BY <1>2 DEF IInv
<1>4. /\ chip' = [chip EXCEPT ![pointer.reg] = byte]
      /\ DOMAIN chip = Registers
  BY <1>2, <1>3 DEF Stored, Shape
<1>5. Position \in Nat /\ Position >= 4 /\ call.name \notin {"none", "reset"}
  BY <1>3, Here DEF Selected
<1>6. ReadsBack => BackWritten'
  <2> SUFFICES ASSUME ReadsBack
               PROVE  BackWritten'
    OBVIOUS
  <2>1. Position = 10 /\ Operation = Change /\ BackWritten
    BY Here DEF Progress, Change
  <2>2. chip = before /\ pointer.reg = Register(call) /\ data = before[Register(call)]
    BY <2>1 DEF BackWritten
  <2>3. byte = (before[Register(call)] \ Change.clear) \union Change.set
    BY <2>1, <2>2
  <2>4. chip' = Changed
    BY <1>4, <2>2, <2>3 DEF Changed
  <2>5. Changed' = Changed
    BY <1>1 DEF Changed, Change
  <2> QED
    BY <2>1, <2>4, <2>5 DEF BackWritten
<1>7. call.name = "write" => OneWritten'
  <2> SUFFICES ASSUME call.name = "write"
               PROVE  OneWritten'
    OBVIOUS
  <2>1. Operation = Send(call.byte)
    BY Here
  <2>2. byte = call.byte
    BY <2>1, SendIs
  <2>3. pointer.reg = call.reg /\ call.reg \in Registers
    BY <1>1, <1>3 DEF Selected, Named, Call
  <2> QED
    BY <1>4, <2>2, <2>3 DEF OneWritten
<1>8. call.name = "array" => ArrayWritten'
  <2> SUFFICES ASSUME call.name = "array"
               PROVE  ArrayWritten'
    OBVIOUS
  <2>0. PICK k \in Nat : k = Position - 4
    BY <1>5
  <2> DEFINE led == call.led
             value == Dimmed(call.values[k + 1])
  <2>1. /\ Operation = Send(value) /\ k \in Nat /\ Position - 3 = k + 1 /\ Position' - 3 = k + 2
        /\ Position' - 4 = k + 1
    <3>1. Operation = Send(Dimmed(call.values[Position - 3]))
      BY Here
    <3>2. Position - 3 = k + 1 /\ k \in Nat /\ Position' - 3 = k + 2 /\ Position' - 4 = k + 1
      BY <1>5, <2>0
    <3> QED
      BY <3>1, <3>2
  <2>2. led \in 0 .. 255
    BY <1>1, DriverAssumption DEF Call
  <2>3. pointer.reg = Pwm(led, k + 1) /\ Placing(k)
    BY <1>5, <2>0, <2>1 DEF Progress, ArrayWritten
  <2> HIDE DEF led
  <2>4. byte = value
    BY <2>1, SendIs
  <2> HIDE DEF value
  <2>5. pointer'.reg = Pwm(led, k + 2)
    <3>1. /\ pointer'.reg = IF pointer.reg = LastPwm THEN FirstPwm ELSE pointer.reg + 1
      BY <1>2, <1>3 DEF Selected, Stored, Shape
    <3>2. (k + 1) + 1 = k + 2
      BY <2>1
    <3> QED
      BY <2>1, <2>2, <2>3, <3>1, <3>2, PwmNext
  <2>6. ASSUME NEW i \in 1 .. k + 1, i > (k + 1) - 16
        PROVE  chip'[Pwm(led, i)] = Dimmed(call.values[i])
    <3>0. i \in Nat /\ i >= 1
      BY <2>1
    <3>1. Pwm(led, i) \in Registers /\ i \in Nat /\ i >= 1
      BY <2>2, <3>0, PwmInChip
    <3>2. CASE i = k + 1
      BY <1>4, <2>3, <2>4, <3>1, <3>2 DEF value
    <3>3. CASE i # k + 1
      <4>1. i \in 1 .. k /\ i > k - 16 /\ i < k + 1 /\ k + 1 < i + 16 /\ k + 1 \in Nat
        BY <2>1, <2>6, <3>3
      <4>2. Pwm(led, i) # Pwm(led, k + 1)
        BY <2>2, <3>1, <4>1, PwmDistinct
      <4>3. chip[Pwm(led, i)] = Dimmed(call.values[i])
        BY <2>3, <4>1 DEF Placing, led
      <4> QED
        BY <1>4, <2>3, <3>1, <4>2, <4>3
    <3> QED
      BY <3>2, <3>3
  <2>7. Placing(Position - 4)'
    BY <2>1, <2>6 DEF Placing, led
  <2>8. pointer'.reg = Pwm(call'.led, Position' - 3)
    BY <2>1, <2>5 DEF led
  <2> QED
    BY <2>7, <2>8 DEF ArrayWritten
<1> QED
  BY <1>5, <1>6, <1>7, <1>8 DEF Progress, ReadsBack

\* The second byte of the reset command resets.
LEMMA ResetDone ==
    ASSUME IInv, Progress, todo # <<>>, Operation.op = "reset", ResetByte("acked"),
           UNCHANGED <<call, before>>, Position' = Position + 1
    PROVE  Progress'
<1>1. call.name = "reset"
  BY AtPosition, EverySeries DEF IInv, Wellformed
<1>2. Position \in {3, 4} /\ BeenReset
  BY <1>1, Here DEF Progress
<1>3. bus' = "reset2" /\ (bus = "reset2" => chip' = Default)
  BY DEF ResetByte, Released, Delivered
<1>4. BeenReset'
  BY <1>2, <1>3 DEF BeenReset
<1> QED
  BY <1>1, <1>4 DEF Progress, ReadsBack

\* At first no call has begun.
LEMMA InitKInv == Init => KInv
<1> SUFFICES ASSUME Init
             PROVE  KInv
  OBVIOUS
<1>1. call.name = "none" /\ todo = <<>> /\ clean = TRUE /\ disturbed = FALSE
  BY DEF Init
<1> QED
  BY <1>1 DEF KInv, Progress, ReadsBack

\* A call begins with nothing done.
LEMMA BeginKInv ==
    ASSUME IInv, KInv, NEW c \in Call, c.name # "none", Begin(c, Series(c), Handling(c))
    PROVE  KInv'
<1>1. /\ call' = c /\ todo' = Series(c) /\ before' = chip /\ chip' = chip
      /\ data' \in Garbage /\ result' = 1 /\ clean' = TRUE
      /\ disturbed' = FALSE
  BY DEF Begin
<1>2. data' \in Byte
  BY <1>1, DriverAssumption
<1> DEFINE s == Series(c)
<1>3. Series(call)' = s /\ todo' = s
  BY <1>1
<1>4. s \in Seq(Op) /\ Len(s) > 3
  BY EverySeries DEF Wellformed
<1> HIDE DEF s
<1>5. Position' = 1
  <2>1. Position' = Len(s) + 1 - Len(s) /\ Len(s) \in Nat
    BY <1>3, <1>4 DEF Position
  <2> QED
    BY <2>1
<1>6. todo' # <<>>
  <2>1. Len(<<>>) = 0
    OBVIOUS
  <2> QED
    BY <1>3, <1>4, <2>1
<1>7. /\ BackWritten' /\ OneWritten' /\ ArrayWritten' /\ BeenReset'
  BY <1>1, <1>5, <1>6 DEF BackWritten, OneWritten, ArrayWritten, BeenReset
<1> QED
  BY <1>1, <1>2, <1>7 DEF KInv, Progress

\* Every function of the driver begins so.
LEMMA CallKInv ==
    ASSUME IInv, KInv,
           \/ tlc59116_reset \/ tlc59116_sleep \/ tlc59116_set_led_mode
           \/ tlc59116_write_register \/ tlc59116_set_brightness
           \/ tlc59116_set_brightness_array
    PROVE  KInv'
<1>1. PICK c \in Call : c.name # "none" /\ Begin(c, Series(c), Handling(c))
  BY EveryCall
<1> QED
  BY <1>1, BeginKInv

\* An operation that succeeds keeps what is done, and one that fails ends the
\* claim to it.
LEMMA OperationKInv ==
    ASSUME IInv, KInv, NEW a \in Answer, todo # <<>>, Operation.op # "stop", Proceed(a),
           call.name \in {"write", "array"} => data' \in Byte,
           /\ Progress /\ a = "acked" /\ UNCHANGED <<call, before>>
           /\ Position' = Position + 1 /\ todo' # <<>>
           => Progress'
    PROVE  KInv'
<1>1. /\ UNCHANGED <<call, before, onError>>
      /\ \/ todo' # <<>> /\ Position' = Position + 1
         \/ a # "acked" /\ call.name = "reset"
         \/ a # "acked" /\ call.name = "write" /\ todo' = <<>>
  BY Goes
<1>2. /\ result' = result /\ result = 1
      /\ clean' = (clean /\ a = "acked") /\ clean \in BOOLEAN
      /\ disturbed' = (disturbed \/ a = "broken") /\ disturbed \in BOOLEAN
  BY DEF Proceed, KInv
<1>3. /\ clean' \in BOOLEAN /\ (clean' => clean /\ a = "acked")
      /\ disturbed' \in BOOLEAN
  BY <1>2
<1>4. clean' => Progress'
  BY <1>1, <1>3 DEF KInv
<1>5. call.name = "write" => clean' \/ disturbed' \/ todo' = <<>>
  <2> SUFFICES ASSUME call.name = "write", ~disturbed'
               PROVE  clean' \/ todo' = <<>>
    OBVIOUS
  <2>1. clean /\ ~disturbed /\ a # "broken"
    BY <1>2 DEF KInv
  <2>2. CASE a = "acked"
    BY <1>2, <2>1, <2>2
  <2>3. CASE a # "acked"
    <3>1. Operation.op # "stop" /\ onError = "return" /\ Reported(a) # 0
      BY <2>1, <2>3, ZeroReported DEF IInv, Handling
    <3> QED
      BY <3>1 DEF Proceed
  <2> QED
    BY <2>2, <2>3
<1> QED
  BY <1>1, <1>2, <1>3, <1>4, <1>5 DEF KInv

\* The end of a call: what was done by its last operation is done.
LEMMA StopKInv == IInv /\ KInv /\ StopBus => KInv'
<1> SUFFICES ASSUME IInv, KInv, StopBus
             PROVE  KInv'
  OBVIOUS
<1>1. /\ todo' = <<>> /\ UNCHANGED <<data, call, before, clean, disturbed, chip, pointer>>
      /\ todo # <<>> /\ Operation.op = "stop"
  BY DEF StopBus, i2c_stop, Runs
<1>2. Position \in Nat /\ call \in Call /\ Operation = Series(call)[Position]
  BY <1>1, Here
<1>3. Position = Len(Series(call)) /\ Position > 3 /\ Wellformed(call) /\ Laid(call)
  <2>1. Position \in 1 .. Len(Series(call)) /\ call.name # "none"
    BY <1>1, AtPosition
  <2>2. Wellformed(call) /\ Laid(call)
    BY <1>2, EverySeries
  <2> QED
    BY <1>1, <1>2, <2>1, <2>2 DEF Wellformed
<1>4. Position' = Position + 1
  <2>1. Position' = Len(Series(call)) + 1 - Len(<<>>) /\ Len(<<>>) = 0
    BY <1>1 DEF Position
  <2> QED
    BY <1>2, <1>3, <2>1
<1>5. Series(call)' = Series(call) /\ Register(call)' = Register(call)
  BY <1>1
<1>6. ASSUME Progress
      PROVE  Progress'
  <2>1. ReadsBack => BackWritten'
    <3> SUFFICES ASSUME ReadsBack
                 PROVE  BackWritten'
      OBVIOUS
    <3>1. Position = 11 /\ BackWritten
      BY <1>3, <1>6 DEF Laid, LaidBack, ReadsBack, Progress
    <3>2. Changed' = Changed
      BY <1>1, <1>5 DEF Changed, Change
    <3> QED
      BY <1>1, <1>4, <3>1, <3>2 DEF BackWritten
  <2>2. call.name = "write" => OneWritten'
    <3> SUFFICES ASSUME call.name = "write"
                 PROVE  OneWritten'
      OBVIOUS
    <3>1. Position = 5 /\ OneWritten
      BY <1>3, <1>6 DEF Laid, LaidOne, Progress
    <3> QED
      BY <1>1, <3>1 DEF OneWritten
  <2>3. call.name = "array" => ArrayWritten'
    <3> SUFFICES ASSUME call.name = "array"
                 PROVE  ArrayWritten'
      OBVIOUS
    <3>1. Position = Len(call.values) + 4 /\ Len(call.values) \in Nat /\ ArrayWritten
      BY <1>1, <1>3, <1>6, Here DEF Laid, LaidArray, Progress
    <3>2. Position - 4 = Len(call.values) /\ Position >= 4
      BY <3>1
    <3>3. Placing(Len(call.values))
      BY <1>1, <3>1, <3>2 DEF ArrayWritten
    <3>4. \A i \in 1 .. Len(call'.values) : i > Len(call'.values) - 16 =>
             chip'[Pwm(call'.led, i)] = Dimmed(call'.values[i])
      BY <1>1, <3>3 DEF Placing
    <3> QED
      BY <1>1, <3>4 DEF ArrayWritten, Placing
  <2>4. call.name = "reset" => BeenReset'
    <3> SUFFICES ASSUME call.name = "reset"
                 PROVE  BeenReset'
      OBVIOUS
    <3>1. Position = 5 /\ BeenReset
      BY <1>3, <1>6 DEF Laid, LaidReset, Progress
    <3> QED
      BY <1>1, <1>4, <3>1 DEF BeenReset
  <2> QED
    BY <1>1, <2>1, <2>2, <2>3, <2>4 DEF Progress, ReadsBack
<1>7. call.name = "write" => clean' \/ disturbed'
  BY <1>1 DEF KInv
<1> QED
  BY <1>1, <1>6, <1>7 DEF KInv

\* The steps keep what a call has done.
LEMMA StepKInv == IInv /\ KInv /\ [Next]_vars => KInv'
<1> SUFFICES ASSUME IInv, KInv, [Next]_vars
             PROVE  KInv'
  OBVIOUS
<1>1. CASE \/ tlc59116_reset \/ tlc59116_sleep \/ tlc59116_set_led_mode
           \/ tlc59116_write_register \/ tlc59116_set_brightness
           \/ tlc59116_set_brightness_array
  BY <1>1, CallKInv
<1>2. CASE StartBus
  <2>1. PICK a \in Answer : i2c_start(a) /\ Proceed(a)
    BY <1>2 DEF StartBus
  <2>2. todo # <<>> /\ Operation.op = "start" /\ UNCHANGED <<chip, pointer, data>>
    BY <1>2, <2>1 DEF StartBus, Runs, i2c_start
  <2>3. call.name \in {"write", "array"} => data' \in Byte
    BY <2>2 DEF KInv
  <2>4. /\ Progress /\ a = "acked" /\ UNCHANGED <<call, before>>
        /\ Position' = Position + 1 /\ todo' # <<>>
        => Progress'
    BY <2>2, StillDone
  <2> QED
    BY <2>1, <2>2, <2>3, <2>4, OperationKInv
<1>3. CASE SendAddress
  <2>1. PICK a \in Answer : i2c_send_address(Operation.to, a) /\ Proceed(a)
    BY <1>3 DEF SendAddress
  <2>2. todo # <<>> /\ Operation.op = "address" /\ data' = data
    BY <1>3 DEF SendAddress, Runs
  <2>3. call.name \in {"write", "array"} => data' \in Byte
    BY <2>2 DEF KInv
  <2>4. a = "acked" => UNCHANGED <<chip, pointer>>
    BY <2>1 DEF i2c_send_address
  <2>5. /\ Progress /\ a = "acked" /\ UNCHANGED <<call, before>>
        /\ Position' = Position + 1 /\ todo' # <<>>
        => Progress'
    BY <2>2, <2>4, StillDone
  <2> QED
    BY <2>1, <2>2, <2>3, <2>5, OperationKInv
<1>4. CASE SendSelect
  <2>1. PICK a \in Answer :
           SelectRegister(Operation.reg, Operation.auto, a) /\ Proceed(a)
    BY <1>4 DEF SendSelect
  <2>2. todo # <<>> /\ Operation.op = "select" /\ data' = data
    BY <1>4 DEF SendSelect, Runs
  <2>3. call.name \in {"write", "array"} => data' \in Byte
    BY <2>2 DEF KInv
  <2>4. /\ Progress /\ a = "acked" /\ UNCHANGED <<call, before>>
        /\ Position' = Position + 1 /\ todo' # <<>>
        => Progress'
    BY <2>1, <2>2, SelectDone
  <2> QED
    BY <2>1, <2>2, <2>3, <2>4, OperationKInv
<1>5. CASE SendByte
  <2>1. PICK byte : byte = (data \ Operation.clear) \union Operation.set
    OBVIOUS
  <2>2. PICK a \in Answer : i2c_send_byte(byte, a) /\ Proceed(a)
    BY <1>5, <2>1 DEF SendByte
  <2>3. todo # <<>> /\ Operation.op = "byte" /\ data' = byte
    BY <1>5, <2>1 DEF SendByte, Runs
  <2>4. call.name \in {"write", "array"} => data \in Byte /\ data' \in Byte
    BY <2>1, <2>3, SentIsByte DEF KInv
  <2>5. /\ Progress /\ a = "acked" /\ UNCHANGED <<call, before>>
        /\ Position' = Position + 1 /\ todo' # <<>>
        => Progress'
    BY <2>1, <2>2, <2>3, <2>4, ByteDone
  <2> QED
    BY <2>2, <2>3, <2>4, <2>5, OperationKInv
<1>6. CASE SendReset
  <2>1. PICK a \in Answer : ResetByte(a) /\ Proceed(a)
    BY <1>6 DEF SendReset
  <2>2. todo # <<>> /\ Operation.op = "reset" /\ data' = data
    BY <1>6 DEF SendReset, Runs
  <2>3. call.name \in {"write", "array"} => data' \in Byte
    BY <2>2 DEF KInv
  <2>4. /\ Progress /\ a = "acked" /\ UNCHANGED <<call, before>>
        /\ Position' = Position + 1 /\ todo' # <<>>
        => Progress'
    BY <2>1, <2>2, ResetDone
  <2> QED
    BY <2>1, <2>2, <2>3, <2>4, OperationKInv
<1>7. CASE ReceiveByte
  <2>1. PICK a \in Answer :
           /\ i2c_receive_byte(a) /\ Proceed(a)
           /\ data' = IF a = "acked" THEN chip[pointer.reg] ELSE data
    BY <1>7 DEF ReceiveByte
  <2>2. todo # <<>> /\ Operation.op = "receive" /\ UNCHANGED <<chip, pointer>>
    BY <1>7, <2>1 DEF ReceiveByte, Runs, i2c_receive_byte
  <2>3. call.name \notin {"write", "array"}
    BY <2>2, AtPosition, EverySeries DEF IInv, Wellformed
  <2>4. a = "acked" => data' = chip[pointer.reg]
    BY <2>1
  <2>5. /\ Progress /\ a = "acked" /\ UNCHANGED <<call, before>>
        /\ Position' = Position + 1 /\ todo' # <<>>
        => Progress'
    BY <2>2, <2>4, ReceiveDone
  <2> QED
    BY <2>1, <2>2, <2>3, <2>5, OperationKInv
<1>8. CASE StopBus
  BY <1>8, StopKInv
<1>9. CASE UNCHANGED vars
  <2>1. /\ UNCHANGED <<bus, chip, pointer, todo, data, result, call, before, clean, disturbed>>
    BY <1>9 DEF vars
  <2>2. Series(call)' = Series(call) /\ Register(call)' = Register(call) /\ Position' = Position
    BY <2>1 DEF Position
  <2>3. Changed' = Changed
    BY <2>1, <2>2 DEF Changed, Change
  <2>4. BackWritten' = BackWritten /\ OneWritten' = OneWritten /\ BeenReset' = BeenReset
    BY <2>1, <2>2, <2>3 DEF BackWritten, OneWritten, BeenReset
  <2>5. ArrayWritten => ArrayWritten'
    BY <2>1, <2>2 DEF ArrayWritten, Placing
  <2> QED
    BY <2>1, <2>4, <2>5 DEF KInv, Progress, ReadsBack
<1> QED
  BY <1>1, <1>2, <1>3, <1>4, <1>5, <1>6, <1>7, <1>8, <1>9 DEF Next

\* The mode of a led is two bits of its register, and no two leds share one.
LEMMA LedsApart ==
    ASSUME NEW led \in 0 .. 15, NEW other \in 0 .. 255, LedOut(led) = LedOut(other)
    PROVE  /\ led = other % 16 => Shift(led) = Shift(other)
           /\ led # other % 16 => Field(led) \intersect Field(other) = {}
<1> DEFINE o == other % 16
<1>1. /\ o \in 0 .. 15 /\ o % 4 = other % 4 /\ led % 16 = led
  OBVIOUS
<1>2. led \div 4 = o \div 4
  BY <1>1 DEF LedOut
<1> HIDE DEF o
<1>3. led = o => Shift(led) = Shift(other)
  BY <1>1 DEF Shift
<1>4. ASSUME led # o
      PROVE  Field(led) \intersect Field(other) = {}
  <2>1. led % 4 # o % 4
    BY <1>1, <1>2, <1>4
  <2>2. led % 4 \in 0 .. 3 /\ o % 4 \in 0 .. 3
    BY <1>1
  <2> QED
    BY <1>1, <2>1, <2>2 DEF Field, Shift
<1> QED
  BY <1>3, <1>4 DEF o

\* What a change of mode makes of the registers.
ModeWritten(new, old, led, mode) ==
    new = [old EXCEPT ![LedOut(led)] = (@ \ Field(led)) \union Placed(led, mode)]

\* What is to be seen of it.
ModeShown(new, old, led, other, mode) ==
    Lit(new, led) = IF led = other % 16 THEN Placed(led, mode) ELSE Lit(old, led)

\* The led has its mode, and the other leds of the register keep theirs.
LEMMA ModeIsSet ==
    ASSUME NEW led \in 0 .. 15, NEW other \in 0 .. 255, NEW mode \in SUBSET {0, 1},
           NEW old, NEW new, DOMAIN old = Registers, ModeWritten(new, old, other, mode)
    PROVE  ModeShown(new, old, led, other, mode)
<1> DEFINE o == other % 16
<1>1. /\ o \in 0 .. 15 /\ led % 16 = led /\ o % 16 = o
  OBVIOUS
<1>2. LedOut(other) = LedOut(o) /\ LedOut(other) \in Registers
  <2>1. o \div 4 \in 0 .. 3
    BY <1>1
  <2> QED
    BY <1>1, <2>1 DEF LedOut, Registers, LastRegister
<1>3. Placed(other, mode) \subseteq Field(other)
  <2>1. Shift(other) \in Int
    BY DEF Shift
  <2>2. ASSUME NEW b \in mode
        PROVE  Shift(other) + b \in {Shift(other), Shift(other) + 1}
    <3>1. b = 0 \/ b = 1
      OBVIOUS
    <3> QED
      BY <2>1, <3>1
  <2> QED
    BY <2>2 DEF Placed, Field
<1> HIDE DEF o
<1>4. new[LedOut(other)] = (old[LedOut(other)] \ Field(other)) \union Placed(other, mode)
  BY <1>2 DEF ModeWritten
<1>5. CASE led = o
  <2>1. LedOut(led) = LedOut(other)
    BY <1>2, <1>5
  <2>2. Shift(led) = Shift(other)
    BY <1>5, <2>1, LedsApart DEF o
  <2>3. Field(led) = Field(other) /\ Placed(led, mode) = Placed(other, mode)
    BY <2>2 DEF Field, Placed
  <2>4. new[LedOut(led)] \intersect Field(led) = Placed(led, mode)
    BY <1>3, <1>4, <2>1, <2>3
  <2> QED
    BY <1>5, <2>4 DEF Lit, o, ModeShown
<1>6. CASE led # o /\ LedOut(led) = LedOut(other)
  <2>1. Field(led) \intersect Field(other) = {}
    BY <1>6, LedsApart DEF o
  <2>2. new[LedOut(led)] \intersect Field(led) = old[LedOut(led)] \intersect Field(led)
    BY <1>3, <1>4, <1>6, <2>1
  <2> QED
    BY <1>6, <2>2 DEF Lit, o, ModeShown
<1>7. CASE led # o /\ LedOut(led) # LedOut(other)
  <2>1. LedOut(led) \in Registers
    <3>1. led \div 4 \in 0 .. 3
      OBVIOUS
    <3> QED
      BY <1>1, <3>1 DEF LedOut, Registers, LastRegister
  <2>2. new[LedOut(led)] = old[LedOut(led)]
    BY <1>7, <2>1 DEF ModeWritten
  <2> QED
    BY <1>7, <2>2 DEF Lit, o, ModeShown
<1> QED
  BY <1>5, <1>6, <1>7

\* What a call has done at its end is what it says.
LEMMA EndIsDone == IInv /\ KInv => SuccessMeansDone
<1> SUFFICES ASSUME IInv, KInv, Told
             PROVE  CASE call.name = "mode" ->
                           \A led \in 0 .. 15 :
                              Lit(chip, led) = IF led = call.led % 16
                                               THEN Placed(led, call.mode) ELSE Lit(before, led)
                      [] call.name = "sleep" ->
                           /\ (Asleep \in chip[Mode1]) = call.asleep
                           /\ ~call.asleep => chip[Mode1] = before[Mode1] \ {Asleep}
                      [] call.name = "write" -> chip[call.reg] = call.byte
                      [] call.name = "reset" -> chip = Default
                      [] call.name = "array" ->
                           \A i \in 1 .. Len(call.values) :
                              i > Len(call.values) - 16 /\ call.values[i] # 0 .. 7 =>
                                  chip[Pwm(call.led, i)] = call.values[i]
                      [] OTHER -> TRUE
  BY DEF SuccessMeansDone
<1>1. todo = <<>> /\ call \in Call /\ Laid(call)
  BY EverySeries DEF Told, IInv
<1>2. clean /\ Progress
  BY <1>1 DEF Told, KInv
<1>3. \A n \in Nat : Len(Series(call)) = n => Position = n + 1
  <2>1. Len(todo) = 0
    BY <1>1
  <2> QED
    BY <2>1 DEF Position
<1>4. ReadsBack => chip = Changed
  <2>1. ReadsBack => Position = 11 + 1
    BY <1>1, <1>3 DEF ReadsBack, Laid, LaidBack
  <2> QED
    BY <1>2, <2>1 DEF Progress, BackWritten
<1>5. ASSUME call.name = "mode", NEW led \in 0 .. 15
      PROVE  Lit(chip, led) = IF led = call.led % 16
                              THEN Placed(led, call.mode) ELSE Lit(before, led)
  <2>1. call.led \in 0 .. 255 /\ call.mode \in SUBSET {0, 1}
    BY <1>1, <1>5, DriverAssumption DEF Call
  <2>2. Change = Rewritten(Field(call.led), Placed(call.led, call.mode))
    BY <1>5 DEF Change, Series, ReadThenWrite
  <2>3. Change.clear = Field(call.led) /\ Change.set = Placed(call.led, call.mode)
    BY <2>2 DEF Rewritten
  <2>4. ModeWritten(chip, before, call.led, call.mode)
    BY <1>4, <1>5, <2>3 DEF ReadsBack, Changed, Register, ModeWritten
  <2>5. DOMAIN before = Registers
    BY <2>4 DEF IInv, Shape, ModeWritten
  <2>6. ModeShown(chip, before, led, call.led, call.mode)
    BY <2>1, <2>4, <2>5, ModeIsSet
  <2> QED
    BY <2>6 DEF ModeShown
<1>6. ASSUME call.name = "sleep"
      PROVE  /\ (Asleep \in chip[Mode1]) = call.asleep
             /\ ~call.asleep => chip[Mode1] = before[Mode1] \ {Asleep}
  <2>1. call.asleep \in BOOLEAN
    BY <1>1, <1>6 DEF Call
  <2>2. Change = IF call.asleep THEN Send({Asleep}) ELSE Rewritten({Asleep}, {})
    BY <1>6 DEF Change, Series, ReadThenWrite
  <2>3. chip = [before EXCEPT ![Mode1] = (@ \ Change.clear) \union Change.set]
    BY <1>4, <1>6 DEF ReadsBack, Changed, Register
  <2>4. DOMAIN before = Registers /\ Mode1 \in Registers
    BY <2>3 DEF IInv, Shape, Mode1, Registers, LastRegister
  <2>5. chip[Mode1] = (before[Mode1] \ Change.clear) \union Change.set
    BY <2>3, <2>4
  <2>6. CASE call.asleep
    <3>1. Change.set = {Asleep}
      BY <2>2, <2>6 DEF Send, Rewritten
    <3>2. Asleep \in chip[Mode1]
      BY <2>5, <3>1
    <3> QED
      BY <2>1, <2>6, <3>2
  <2>7. CASE ~call.asleep
    <3>1. Change.clear = {Asleep} /\ Change.set = {}
      BY <2>2, <2>7 DEF Rewritten
    <3>2. chip[Mode1] = before[Mode1] \ {Asleep}
      BY <2>5, <3>1
    <3>3. Asleep \notin chip[Mode1]
      BY <3>2
    <3> QED
      BY <2>1, <2>7, <3>2, <3>3
  <2> QED
    BY <2>6, <2>7
<1>7. call.name = "write" => chip[call.reg] = call.byte
  <2>1. call.name = "write" => Position = 5 + 1
    BY <1>1, <1>3 DEF Laid, LaidOne
  <2> QED
    BY <1>2, <2>1 DEF Progress, OneWritten
<1>8. call.name = "reset" => chip = Default
  <2>1. call.name = "reset" => Position = 5 + 1
    BY <1>1, <1>3 DEF Laid, LaidReset
  <2> QED
    BY <1>2, <2>1 DEF Progress, BeenReset
<1>9. ASSUME call.name = "array", NEW i \in 1 .. Len(call.values),
             i > Len(call.values) - 16, call.values[i] # 0 .. 7
      PROVE  chip[Pwm(call.led, i)] = call.values[i]
  BY <1>1, <1>2, <1>9 DEF Progress, ArrayWritten, Placing, Dimmed
<1> QED
  BY <1>5, <1>6, <1>7, <1>8, <1>9

\* A call of the led driver of which no operation has failed, or that reports
\* success and has met no bus error, has done what it says (ext/tlc59116.c;
\* com/i2c.c, i2c_write_register): no step of a series is skipped, no stale
\* byte is written back, and no byte refused, no bus lost and no wait that
\* ends as its counter wraps (timeout) is taken for a success.  A bus error is:
\* its status is 0 (i2c_send_byte returns it), and RegisterSet fails.
THEOREM SuccessIsDone == Spec => []SuccessMeansDone
<1>1. Init => IInv /\ KInv
  BY InitIInv, InitKInv
<1>2. IInv /\ KInv /\ [Next]_vars => IInv' /\ KInv'
  BY StepIInv, StepKInv
<1>3. IInv /\ KInv => SuccessMeansDone
  BY EndIsDone
<1> QED
  BY <1>1, <1>2, <1>3, PTL DEF Spec
=============================================================================
