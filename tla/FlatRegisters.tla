--------------------------- MODULE FlatRegisters ---------------------------
(***************************************************************************)
(* What the driver takes the registers of the chip for: a file in which    *)
(* every name has a cell of its own, read and written one access at a      *)
(* time.  There is no bank.                                                *)
(***************************************************************************)
EXTENDS RegisterMap

VARIABLES
    file,   \* the registers; the bits of ECON1 that select a bank are not in it
    todo,   \* the accesses that the program has still to make, in order
    got     \* what was read last

vars == <<file, todo, got>>

Hidden(c) == IF c = Home(ECON1) THEN BSEL ELSE {}

Init == /\ file \in [Cell -> Byte]
        /\ todo \in Seq(Access)
        /\ got \in Byte

\* The program begins with the next series of accesses.
Issue == /\ todo = << >>
         /\ todo' \in Seq(Access)
         /\ UNCHANGED <<file, got>>

\* The program starts again from the beginning.
Restart == /\ todo' \in Seq(Access)
           /\ todo' # << >> /\ Head(todo').op = "reset"
           /\ got' \in Byte
           /\ UNCHANGED file

Does(op) == todo # << >> /\ Head(todo).op = op
Cur == Head(todo)
Asked == Home(Cur.reg)

ReadCell == /\ Does("read")
            /\ got' \ Hidden(Asked) = file[Asked]
            /\ todo' = Tail(todo)
            /\ UNCHANGED file

PollCell == /\ Does("poll")
            /\ got' \ Hidden(Asked) = file[Asked]
            /\ todo' = IF got' \cap Cur.data = {} THEN Tail(todo) ELSE todo
            /\ UNCHANGED file

ModifyCell == /\ Does("write") \/ Does("set") \/ Does("clear")
              /\ file' = Modified(Cur, Asked, file)
              /\ todo' = Tail(todo)
              /\ UNCHANGED got

ResetFile == /\ Does("reset")
             /\ file' = ResetCells
             /\ todo' = Tail(todo)
             /\ UNCHANGED got

NoRegister == /\ Does("none")
              /\ todo' = Tail(todo)
              /\ UNCHANGED <<file, got>>

Chip == /\ file' \in [Cell -> Byte]
        /\ \A c \in Cell \ ChipOwned : file'[c] = file[c]
        /\ UNCHANGED <<todo, got>>

Next == Issue \/ Restart \/ ReadCell \/ PollCell \/ ModifyCell \/ ResetFile \/ NoRegister \/ Chip

Spec == Init /\ [][Next]_vars
=============================================================================
