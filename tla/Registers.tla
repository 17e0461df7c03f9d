----------------------------- MODULE Registers -----------------------------
(***************************************************************************)
(* The register accesses of net/network.c: the chip shows one bank at a    *)
(* time, and the driver remembers in the variable bank which one it has    *)
(* selected last.  One action is one transfer over SPI.                    *)
(***************************************************************************)
EXTENDS RegisterMap

VARIABLES
    bank,       \* the variable bank of the driver
    switching,  \* set_bank has cleared the selection and not yet set it
    cells,      \* the registers in the chip
    todo,       \* the accesses that the program has still to make, in order
    got         \* what was read last

bus == <<bank, switching, cells, todo, got>>

Cur == Head(todo)

\* The bank that the chip shows.
Shown == LET e == cells[Home(ECON1)]
         IN (IF 0 \in e THEN 1 ELSE 0) + (IF 1 \in e THEN 2 ELSE 0)
BankBits(b) == CASE b = 0 -> {} [] b = 1 -> {0} [] b = 2 -> {1} [] b = 3 -> BSEL

\* The cell that an access reaches, and how it answers.
Reached(r) == IF InAllBanks(r.addr) THEN <<0, r.addr>> ELSE <<Shown, r.addr>>
AnswersLate(c) == \/ c[1] = 2 /\ ~InAllBanks(c[2])
                  \/ c[1] = 3 /\ c[2] \in {0, 1, 2, 3, 4, 5, 10}

\* read_op takes the byte after the one for the command, or the one after
\* that; a register that answers late has shifted out a dummy before.
read_op(r) == IF AnswersLate(Reached(r)) = r.slow THEN cells[Reached(r)] ELSE {}

Issue(s) == todo = << >> /\ todo' = s

\* set_bank, in its two transfers.
ClearBank_KeepsBits ==
    /\ todo # << >> /\ ~switching
    /\ Cur.banked /\ Cur.reg.bank # bank
    /\ bank' = Cur.reg.bank
    /\ switching' = TRUE
    /\ UNCHANGED <<cells, todo, got>>

ClearBank ==
    /\ todo # << >> /\ ~switching
    /\ Cur.banked /\ Cur.reg.bank # bank
    /\ bank' = Cur.reg.bank
    /\ cells' = [cells EXCEPT ![Home(ECON1)] = @ \ BSEL]
    /\ switching' = TRUE
    /\ UNCHANGED <<todo, got>>

SelectBank ==
    /\ switching
    /\ cells' = [cells EXCEPT ![Home(ECON1)] = @ \cup BankBits(bank)]
    /\ switching' = FALSE
    /\ UNCHANGED <<bank, todo, got>>

\* The transfer itself, once the bank is right or does not matter.
Ready(op) == /\ todo # << >> /\ Cur.op = op
             /\ ~switching
             /\ Cur.banked => Cur.reg.bank = bank

ReadReg == /\ Ready("read")
           /\ got' = read_op(Cur.reg)
           /\ todo' = Tail(todo)
           /\ UNCHANGED <<bank, switching, cells>>

PollReg == /\ Ready("poll")
           /\ got' = read_op(Cur.reg)
           /\ todo' = IF got' \cap Cur.data = {} THEN Tail(todo) ELSE todo
           /\ UNCHANGED <<bank, switching, cells>>

ModifyReg == /\ Ready("write") \/ Ready("set") \/ Ready("clear")
             /\ cells' = Modified(Cur, Reached(Cur.reg), cells)
             /\ todo' = Tail(todo)
             /\ UNCHANGED <<bank, switching, got>>

\* A soft reset selects bank 0 in the chip; bank is not assigned.
ResetChip == /\ Ready("reset")
             /\ cells' = ResetCells
             /\ todo' = Tail(todo)
             /\ UNCHANGED <<bank, switching, got>>

NoRegister == /\ Ready("none")
              /\ todo' = Tail(todo)
              /\ UNCHANGED <<bank, switching, cells, got>>

-----------------------------------------------------------------------------
\* The register file without the bits that select the bank.
Visible == [cells EXCEPT ![Home(ECON1)] = @ \ BSEL]

Flat == INSTANCE FlatRegisters WITH file <- Visible
=============================================================================
