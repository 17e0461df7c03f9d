-------------------------------- MODULE I2c --------------------------------
(***************************************************************************)
(* com/i2c.c: the operations of the two-wire bus, for a single master.     *)
(* Each waits for the interface to finish, a bounded number of polls, and  *)
(* reports 0 when the status register shows what it should.  The slave is  *)
(* a TLC59116 led driver as ext/tlc59116.c uses it: a file of registers    *)
(* and a pointer into it.  A byte is the set of its bits.                  *)
(***************************************************************************)
EXTENDS Integers

CONSTANTS
    AddressByte,    \* the address of the chip, sent as a byte
    Default         \* its registers after a reset

Byte == SUBSET (0 .. 7)
LastRegister == 27
Registers == 0 .. LastRegister

ASSUME BusAssumption ==
    /\ AddressByte \in Byte
    /\ Default \in [Registers -> Byte]

VARIABLES
    bus,        \* how far the transmission on the bus has got
    chip,       \* the registers of the slave
    pointer     \* the register it is to access next, and whether it counts on

Phases == {"idle", "start", "receiver", "selected", "sender", "reset", "reset2",
           "error"}
Pointers == [reg : Registers, auto : BOOLEAN]

BusOK ==
    /\ bus \in Phases
    /\ chip \in [Registers -> Byte]
    /\ pointer \in Pointers

BusInit ==
    /\ bus = "idle"
    /\ chip = Default
    /\ pointer = [reg |-> 0, auto |-> FALSE]

(***************************************************************************)
(* How an operation ends: with the status expected, with a byte that is    *)
(* not acknowledged, with the bus lost, with a bus error (a start or stop  *)
(* out of place), in time only for the last poll, or not at all.           *)
(***************************************************************************)
Answer == {"acked", "refused", "lost", "broken", "late", "never"}
Delivered(answer) == answer \in {"acked", "late"}

\* What is left of the counter when the wait ends: the last test decrements
\* it once more, and an unsigned zero wraps.
PollsLeft(answer) ==
    CASE answer = "never" -> (0 - 1) % 65536
      [] answer = "late"  -> 0
      [] OTHER            -> 1

timeout(answer) == PollsLeft(answer) <= 0

\* What every operation reports: 1 for a timeout, 0 when the status is the
\* expected one, else the status.  It shows nothing, 0xF8, while the
\* operation is not finished, and 0 after a bus error: a failure that is
\* reported as success.
Status == [refused |-> 32, lost |-> 56, broken |-> 0, never |-> 248]

Reported_TimeoutAlone(answer) == IF timeout(answer) THEN 1 ELSE 0
Reported(answer) ==
    IF timeout(answer) THEN 1
    ELSE IF answer = "acked" THEN 0 ELSE Status[answer]

\* A byte can be sent only in a transmission; else the interface is idle
\* and never finishes, or may still show the bus error that it stopped at.
Answers(phases) == CASE bus \in phases -> Answer
                     [] bus = "error"  -> {"broken", "never"}
                     [] OTHER          -> {"never"}

\* After a failure the bus is released, by a stop or by a restart.
Released(answer, phase) == IF answer = "acked" THEN phase ELSE "idle"

(***************************************************************************)
(* The operations, each with its answer.                                   *)
(***************************************************************************)

\* A start that does not finish in time is left pending: it may still be
\* carried out, or the next command cancels it.  Nothing is done about a bus
\* error.
i2c_start(answer) ==
    /\ answer \in Answer \ {"refused"}
    /\ bus' \in CASE answer = "acked"  -> {"start"}
                  [] answer = "never"  -> {bus, "start"}
                  [] answer = "broken" -> {"error"}
                  [] OTHER             -> {"idle"}
    /\ UNCHANGED <<chip, pointer>>

i2c_stop ==
    /\ bus' = "idle"
    /\ UNCHANGED <<chip, pointer>>

\* The slave takes a byte into the register of the pointer; the brightness
\* registers count on among themselves.
FirstPwm == 2
LastPwm == 17
Stored(byte) ==
    /\ chip' = [chip EXCEPT ![pointer.reg] = byte]
    /\ pointer' = IF ~pointer.auto THEN pointer
                  ELSE [pointer EXCEPT !.reg =
                            IF @ = LastPwm THEN FirstPwm ELSE @ + 1]

\* The address opens a transmission; when the start before it was not
\* carried out, a slave that is still listening may take it as a byte, and
\* the status is another than expected.
i2c_send_address(to, answer) ==
    /\ answer \in Answers({"start", "selected", "sender"})
    /\ bus = "start" =>
          /\ bus' = Released(answer, to)
          /\ UNCHANGED <<chip, pointer>>
    /\ bus # "start" =>
          /\ answer # "acked"
          /\ bus' = "idle"
          /\ \/ bus = "selected" /\ Stored(AddressByte)
             \/ UNCHANGED <<chip, pointer>>

\* The first byte to a slave selects the register.
SelectRegister(reg, auto, answer) ==
    /\ answer \in Answers({"receiver"})
    /\ bus' = Released(answer, "selected")
    /\ pointer' = IF bus = "receiver" /\ Delivered(answer)
                  THEN [reg |-> reg, auto |-> auto] ELSE pointer
    /\ UNCHANGED chip

i2c_send_byte(byte, answer) ==
    /\ answer \in Answers({"selected"})
    /\ bus' = Released(answer, "selected")
    /\ IF bus = "selected" /\ Delivered(answer) THEN Stored(byte)
       ELSE UNCHANGED <<chip, pointer>>

\* The two bytes of the reset command.
ResetByte(answer) ==
    /\ answer \in Answers({"reset", "reset2"})
    /\ bus' = Released(answer, "reset2")
    /\ chip' = IF bus = "reset2" /\ Delivered(answer) THEN Default ELSE chip
    /\ pointer' = IF bus = "reset2" /\ Delivered(answer)
                  THEN [reg |-> 0, auto |-> FALSE] ELSE pointer

\* A byte that does not arrive in time leaves the transmission as it is.
i2c_receive_byte(answer) ==
    /\ answer \in Answers({"sender"}) \ {"refused"}
    /\ bus' = CASE answer \in {"lost", "late"} -> "idle"
                 [] answer = "broken"          -> "error"
                 [] OTHER                      -> bus
    /\ UNCHANGED <<chip, pointer>>
=============================================================================
