------------------------------ MODULE Tlc59116 ------------------------------
(***************************************************************************)
(* ext/tlc59116.c, the led driver, on the bus of I2c.  Every function is a *)
(* series of bus operations; most of them go on after an operation that    *)
(* failed.  The state of a led is changed by reading the register of four  *)
(* leds and writing it back.                                               *)
(***************************************************************************)
EXTENDS I2c, Sequences

CONSTANTS
    Leds, Modes,        \* the leds and modes an application asks for
    Written, Bytes,     \* the registers and values it writes
    Arrays,             \* the brightness values it writes in one call
    Garbage,            \* what a variable that is not set may hold
    Calls               \* bound of the model: calls of the application

ASSUME DriverAssumption ==
    /\ Leds \subseteq 0 .. 255 /\ Modes \subseteq SUBSET {0, 1}
    /\ Written \subseteq 0 .. 255 /\ Bytes \subseteq Byte
    /\ Arrays \subseteq Seq(Byte) /\ Garbage \subseteq Byte
    /\ Calls \in Nat

VARIABLES
    todo,       \* the bus operations left of the call that runs
    data,       \* its variable for the byte that is read
    onError,    \* what it does when an operation fails
    result,     \* what i2c_write_register has returned
    calls,
    call,       \* history: the call that runs, or the last one
    before,     \* history: the registers when it began
    clean,      \* history: no operation of it has failed
    disturbed   \* history: one of them met a bus error

vars == <<bus, chip, pointer, todo, data, onError, result, calls, call, before,
          clean, disturbed>>

(***************************************************************************)
(* The operations of a call.                                               *)
(***************************************************************************)
Start == [op |-> "start"]
Address(to) == [op |-> "address", to |-> to]
Select(reg, auto) == [op |-> "select", reg |-> reg, auto |-> auto]
Receive == [op |-> "receive"]
\* The byte that was read with some bits cleared and some set.
Rewritten(clear, set) == [op |-> "byte", clear |-> clear, set |-> set]
Send(byte) == Rewritten(0 .. 7, byte)
Reset == [op |-> "reset"]
Stop == [op |-> "stop"]

Mode1 == 0
Asleep == 4
LedOut(led) == 20 + (led % 16) \div 4
Shift(led) == (led % 4) * 2
Field(led) == {Shift(led), Shift(led) + 1}
Placed(led, mode) == {Shift(led) + b : b \in mode}

ReadThenWrite(reg, last) ==
    << Start, Address("receiver"), Select(reg, FALSE),
       Start, Address("sender"), Receive,
       Start, Address("receiver"), Select(reg, FALSE), last, Stop >>

WriteRegister(reg, byte) ==
    << Start, Address("receiver"), Select(reg, FALSE), Send(byte), Stop >>

\* The values go through a remainder that turns the highest into the lowest.
Dimmed(byte) == IF byte = 0 .. 7 THEN {} ELSE byte

FirstOf_Unwrapped(led) == FirstPwm + led
FirstOf(led) == FirstPwm + (led % 16)
WriteArray(led, values) ==
    << Start, Address("receiver"), Select(FirstOf(led), TRUE) >>
        \o [i \in 1 .. Len(values) |-> Send(Dimmed(values[i]))] \o << Stop >>

(***************************************************************************)
(* The calls.  A call begins with i2c_init, which finds the bus set up.    *)
(***************************************************************************)
Ready == todo = <<>> /\ calls < Calls

Begin(called, operations, failing) ==
    /\ call' = called
    /\ todo' = operations
    /\ onError' = failing
    /\ data' \in Garbage
    /\ result' = 1
    /\ calls' = calls + 1
    /\ before' = chip
    /\ clean' = TRUE
    /\ disturbed' = FALSE
    /\ UNCHANGED <<bus, chip, pointer>>

tlc59116_reset ==
    /\ Ready
    /\ Begin([name |-> "reset"],
             <<Start, Address("reset"), Reset, Reset, Stop>>, "stop")

tlc59116_sleep ==
    Ready /\ \E asleep \in BOOLEAN :
        Begin([name |-> "sleep", asleep |-> asleep],
              ReadThenWrite(Mode1, IF asleep THEN Send({Asleep})
                                   ELSE Rewritten({Asleep}, {})), "go_on")

tlc59116_set_led_mode ==
    Ready /\ \E led \in Leds, mode \in Modes :
        Begin([name |-> "mode", led |-> led, mode |-> mode],
              ReadThenWrite(LedOut(led), Rewritten(Field(led), Placed(led, mode))),
              "go_on")

tlc59116_write_register ==
    Ready /\ \E reg \in Written, byte \in Bytes :
        /\ reg <= LastRegister
        /\ Begin([name |-> "write", reg |-> reg, byte |-> byte],
                 WriteRegister(reg, byte), "return")

tlc59116_set_brightness ==
    Ready /\ \E led \in Leds, byte \in Bytes :
        /\ led < 16
        /\ Begin([name |-> "write", reg |-> FirstPwm + led, byte |-> byte],
                 WriteRegister(FirstPwm + led, byte), "return")

tlc59116_set_brightness_array ==
    Ready /\ \E led \in Leds, values \in Arrays :
        Begin([name |-> "array", led |-> led, values |-> values],
              WriteArray(led, values), "go_on")

(***************************************************************************)
(* The next operation of the call, and how the call goes on after it.      *)
(***************************************************************************)
Proceed(answer) ==
    /\ todo' = IF Reported(answer) = 0 THEN Tail(todo)
               ELSE CASE onError = "go_on"  -> Tail(todo)
                      [] onError = "stop"   -> << Stop >>
                      [] onError = "return" -> <<>>
    /\ clean' = (clean /\ answer = "acked")
    /\ disturbed' = (disturbed \/ answer = "broken")
    /\ UNCHANGED <<onError, result, calls, call, before>>

Operation == Head(todo)
Runs(op) == todo # <<>> /\ Operation.op = op

StartBus == Runs("start") /\ \E a \in Answer :
                i2c_start(a) /\ Proceed(a) /\ UNCHANGED data

SendAddress == Runs("address") /\ \E a \in Answer :
                  i2c_send_address(Operation.to, a) /\ Proceed(a) /\ UNCHANGED data

SendSelect ==
    Runs("select") /\ \E a \in Answer :
        SelectRegister(Operation.reg, Operation.auto, a) /\ Proceed(a) /\ UNCHANGED data

SendByte ==
    LET byte == (data \ Operation.clear) \union Operation.set
    IN  Runs("byte") /\ \E a \in Answer :
            i2c_send_byte(byte, a) /\ Proceed(a) /\ data' = byte

SendReset == Runs("reset") /\ \E a \in Answer :
                ResetByte(a) /\ Proceed(a) /\ UNCHANGED data

ReceiveByte ==
    Runs("receive") /\ \E a \in Answer :
        /\ i2c_receive_byte(a)
        /\ Proceed(a)
        /\ data' = IF a = "acked" THEN chip[pointer.reg] ELSE data

\* What the stop reports is not looked at.
StopBus ==
    /\ Runs("stop")
    /\ i2c_stop
    /\ todo' = <<>>
    /\ result' = IF onError = "return" THEN 0 ELSE result
    /\ UNCHANGED <<data, onError, calls, call, before, clean, disturbed>>

Init ==
    /\ BusInit
    /\ todo = <<>>
    /\ data \in Garbage
    /\ onError = "go_on"
    /\ result = 1
    /\ calls = 0
    /\ call = [name |-> "none"]
    /\ before = chip
    /\ clean = TRUE
    /\ disturbed = FALSE

Next ==
    \/ tlc59116_reset
    \/ tlc59116_sleep
    \/ tlc59116_set_led_mode
    \/ tlc59116_write_register
    \/ tlc59116_set_brightness
    \/ tlc59116_set_brightness_array
    \/ StartBus
    \/ SendAddress
    \/ SendSelect
    \/ SendByte
    \/ SendReset
    \/ ReceiveByte
    \/ StopBus

Spec == Init /\ [][Next]_vars

(***************************************************************************)
(* Properties.                                                             *)
(***************************************************************************)

\* The registers that a call names.
Pwm(led, i) == FirstPwm + ((led + i - 1) % 16)
Named ==
    CASE call.name = "none"  -> {}
      [] call.name = "reset" -> Registers
      [] call.name = "sleep" -> {Mode1}
      [] call.name = "mode"  -> {LedOut(call.led)}
      [] call.name = "write" -> {call.reg}
      [] call.name = "array" -> {Pwm(call.led, i) : i \in 1 .. Len(call.values)}

\* Whatever operation of a call fails, and although it goes on after a
\* failure with the next operations of the series, no register but those the
\* call names is written: no byte is taken for the selection of a register,
\* and no selection of an earlier call is used.
OnlyNamedWritten ==
    \A r \in Registers \ Named : chip[r] = before[r]

Lit(registers, led) == registers[LedOut(led)] \intersect Field(led)

\* A call that was carried out without a failure, or that i2c_write_register
\* reports to have succeeded, has done what it says: the led has its mode and
\* the other leds of its register kept theirs, waking keeps the other bits of
\* the mode register, the register written holds the byte and each led of an
\* array the last brightness it is given (the highest value excepted): there
\* are sixteen leds, and a longer array comes around to the first ones again.
\* In particular the counter of timeout(), which wraps when the time is over
\* and reports no timeout, leads to no false success; a bus error, which is
\* reported as 0, does (RegisterSet) and is the only thing that does.
Told == todo = <<>> /\ IF call.name = "write" THEN result = 0 /\ ~disturbed ELSE clean
SuccessMeansDone ==
    Told =>
      CASE call.name = "mode" ->
             \A led \in 0 .. 15 :
                Lit(chip, led) = IF led = call.led % 16
                                 THEN Placed(led, call.mode) ELSE Lit(before, led)
        [] call.name = "sleep" ->
             /\ (Asleep \in chip[Mode1]) = call.asleep
             /\ ~call.asleep => chip[Mode1] = before[Mode1] \ {Asleep}
        [] call.name = "write" -> chip[call.reg] = call.byte
        [] call.name = "reset" -> chip = Default
        [] call.name = "array" ->
             \A i \in 1 .. Len(call.values) :
                i > Len(call.values) - 16 /\ call.values[i] # 0 .. 7 =>
                    chip[Pwm(call.led, i)] = call.values[i]
        [] OTHER -> TRUE

\* What com/i2c.h says of i2c_write_register: when it returns 0, the register
\* is set.
RegisterSet ==
    todo = <<>> /\ call.name = "write" /\ result = 0 => chip[call.reg] = call.byte
=============================================================================
