---------------------------- MODULE RegisterMap ----------------------------
(***************************************************************************)
(* The control registers of the network chip as net/network_defines.h      *)
(* names them, and the accesses that net/network.c is made of.  A byte is  *)
(* the set of its bits.  The chip has four banks of 32 registers; the last *)
(* five addresses show the same registers in every bank.                   *)
(***************************************************************************)
EXTENDS Integers, Sequences

Byte == SUBSET (0 .. 7)
Bits(n) == {i \in 0 .. 7 : (n \div 2^i) % 2 = 1}
Low(n) == Bits(n % 256)
High(n) == Bits(n \div 256)

Cell == (0 .. 3) \X (0 .. 31)

\* The defines combine an address, a bank and an indicator for registers of
\* the MAC and MII, which answer one byte later.
Register == [bank : 0 .. 3, addr : 0 .. 31, slow : BOOLEAN]
Eth(b, a) == [bank |-> b, addr |-> a, slow |-> FALSE]
Mac(b, a) == [bank |-> b, addr |-> a, slow |-> TRUE]

InAllBanks(a) == a >= 27

\* The cell of the chip that a register means.
Home(r) == IF InAllBanks(r.addr) THEN <<0, r.addr>> ELSE <<r.bank, r.addr>>

EIE   == Eth(0, 27)
EIR   == Eth(0, 28)
ECON2 == Eth(0, 30)
ECON1 == Eth(0, 31)

ERDPTL   == Eth(0, 0)
ERDPTH   == Eth(0, 1)
EWRPTL   == Eth(0, 2)
EWRPTH   == Eth(0, 3)
ETXSTL   == Eth(0, 4)
ETXSTH   == Eth(0, 5)
ETXNDL   == Eth(0, 6)
ETXNDH   == Eth(0, 7)
ERXSTL   == Eth(0, 8)
ERXSTH   == Eth(0, 9)
ERXNDL   == Eth(0, 10)
ERXNDH   == Eth(0, 11)
ERXRDPTL == Eth(0, 12)
ERXRDPTH == Eth(0, 13)

EPMM0   == Eth(1, 8)
EPMM1   == Eth(1, 9)
EPMCSL  == Eth(1, 16)
EPMCSH  == Eth(1, 17)
ERXFCON == Eth(1, 24)
EPKTCNT == Eth(1, 25)

MACON1   == Mac(2, 0)
MACON2   == Mac(2, 1)
MACON3   == Mac(2, 2)
MACON4   == Mac(2, 3)
MABBIPG  == Mac(2, 4)
MAIPGL   == Mac(2, 6)
MAIPGH   == Mac(2, 7)
MAMXFLL  == Mac(2, 10)
MAMXFLH  == Mac(2, 11)
MICMD    == Mac(2, 18)
MIREGADR == Mac(2, 20)
MIWRL    == Mac(2, 22)
MIWRH    == Mac(2, 23)
MIRDL    == Mac(2, 24)
MIRDH    == Mac(2, 25)

MAADR4 == Mac(3, 0)
MAADR5 == Mac(3, 1)
MAADR2 == Mac(3, 2)
MAADR3 == Mac(3, 3)
MAADR0 == Mac(3, 4)
MAADR1 == Mac(3, 5)
MISTAT == Mac(3, 10)
EREVID == Eth(3, 18)
ECOCON == Eth(3, 21)

\* Bits that the code or the model of the chip looks at.
BSEL  == {0, 1}     \* of ECON1: the bank selected
RXEN  == 2          \* of ECON1: frames are received
TXRTS == 3          \* of ECON1: a frame is to be transmitted
TXRST == 7          \* of ECON1: the transmitter is held in reset
TXERIF == 1         \* of EIR: a transmission was aborted
PKTDEC == 6         \* of ECON2: one frame has been read
BCEN  == 0          \* of ERXFCON: accept broadcasts
MIIRD == 0          \* of MICMD: read a register of the PHY
BUSY  == 0          \* of MISTAT: the PHY is being accessed

-----------------------------------------------------------------------------
\* Accesses: read and write go through set_bank, the others go to the chip as
\* they are.  Poll is a loop that reads until none of the bits is set.
\* Select only makes sure of the bank, UseBuffer is a transfer to or from the
\* frame memory: neither touches a register.

Read(r)       == [op |-> "read",  banked |-> TRUE,  reg |-> r, data |-> {}]
Poll(r, d)    == [op |-> "poll",  banked |-> TRUE,  reg |-> r, data |-> d]
Write(r, d)   == [op |-> "write", banked |-> TRUE,  reg |-> r, data |-> d]
ReadOp(r)     == [op |-> "read",  banked |-> FALSE, reg |-> r, data |-> {}]
SetOp(r, d)   == [op |-> "set",   banked |-> FALSE, reg |-> r, data |-> d]
ClearOp(r, d) == [op |-> "clear", banked |-> FALSE, reg |-> r, data |-> d]
Select(r)     == [op |-> "none",  banked |-> TRUE,  reg |-> r, data |-> {}]
SoftReset     == [op |-> "reset", banked |-> FALSE, reg |-> ECON1, data |-> {}]
UseBuffer     == [op |-> "none",  banked |-> FALSE, reg |-> ECON1, data |-> {}]

Access == [op : {"read", "poll", "write", "set", "clear", "reset", "none"},
           banked : BOOLEAN, reg : Register, data : Byte]

\* What is in a cell that held v after an access.
Stored(a, v) == CASE a.op = "write" -> a.data
                  [] a.op = "set"   -> v \cup a.data
                  [] a.op = "clear" -> v \ a.data

\* What the chip does at once when a cell was written: it starts on the PHY,
\* drops the frame it transmits, or forgets a frame it received.  (It counts
\* no further than one such frame: the counter is the subject of RxRing.)
StartsPhy(c, f) == c = Home(MIWRH) \/ (c = Home(MICMD) /\ MIIRD \in f[c])
DropsFrame(c, f) == c = Home(ECON1) /\ TXRST \in f[c]
CountsDown(c, f) == c = Home(ECON2) /\ PKTDEC \in f[c]

Reaction(c, f) ==
    CASE StartsPhy(c, f)  -> [f EXCEPT ![Home(MISTAT)] = @ \cup {BUSY}]
      [] DropsFrame(c, f) -> [f EXCEPT ![Home(ECON1)] = @ \ {TXRTS}]
      [] CountsDown(c, f) -> [f EXCEPT ![Home(ECON2)] = @ \ {PKTDEC},
                                       ![Home(EPKTCNT)] = {}]
      [] OTHER            -> f

Modified(a, c, f) == Reaction(c, [f EXCEPT ![c] = Stored(a, @)])

\* The cells the chip changes by itself.
ChipOwned == {Home(r) : r \in {ECON1, EIR, EPKTCNT, MISTAT, MIRDL, MIRDH}}

\* After a soft reset every register has its reset value.
ResetCells == [c \in Cell |-> CASE c = Home(ERXFCON) -> {0, 5, 7} [] OTHER -> {}]
=============================================================================
