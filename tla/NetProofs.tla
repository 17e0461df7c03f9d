----------------------------- MODULE NetProofs -----------------------------
(***************************************************************************)
(* Proofs about Net, for every set of frame lengths: the types; that the   *)
(* accesses through set_bank implement a register file without banks; and  *)
(* what the driver asks of the chip: the PHY is left alone while it is     *)
(* busy, the answer of network_is_link_up is one of that call, and the     *)
(* frame that is transmitted is the one network_send was called with.      *)
(***************************************************************************)
EXTENDS Net, SequenceTheorems, TLAPS

\* The registers of which the driver knows how they answer.
Served == {r \in Register : r.slow = AnswersLate(Home(r))}

\* The accesses that need no more than the right bank: those that do not go
\* through set_bank use registers of all banks, and none but set_bank writes
\* the bits of ECON1 that select the bank.
Safe == {a \in Access :
            /\ a.op # "reset"
            /\ a.reg \in Served
            /\ ~a.banked /\ a.op # "none" => InAllBanks(a.reg.addr)
            /\ Home(a.reg) = Home(ECON1) => a.op # "write" /\ a.data \cap BSEL = {}}

\* A series that begins with the soft reset.
Restarts == {s \in Seq(Access) : /\ s # << >> /\ Head(s) = SoftReset
                                 /\ Tail(s) \in Seq(Safe)}

\* The bank that the chip shows is the one the driver remembers, but between
\* the two transfers of set_bank, and before the soft reset at the start.
BankKnown ==
    \/ todo \in Restarts /\ bank = 0 /\ ~switching
    \/ todo \in Seq(Safe) /\ ~switching /\ Shown = bank
    \/ todo \in Seq(Safe) /\ todo # << >> /\ switching /\ Shown = 0

IInv == TypeOK /\ BankKnown

-----------------------------------------------------------------------------
\* The series of accesses are safe.

LEMMA BitsAreBytes ==
    /\ \A n : Bits(n) \in Byte /\ Low(n) \in Byte /\ High(n) \in Byte
    /\ BSEL \in Byte
    /\ \A d \in SUBSET (0 .. 7) : d \in Byte
BY DEF Bits, Low, High, Byte, BSEL

\* A register that is not ECON1 may be written.
LEMMA WriteSafe ==
    ASSUME NEW r \in Served, r # ECON1, r.addr # 31, NEW d \in Byte
    PROVE  Write(r, d) \in Safe /\ Read(r) \in Safe /\ Poll(r, d) \in Safe
BY DEF Safe, Access, Write, Read, Poll, Home, InAllBanks, Served, ECON1, Eth, Byte

Writable == {r \in Served : r # ECON1 /\ r.addr # 31}

\* The cells that answer at once, and those of the MAC and the MII.
LEMMA EthServed ==
    ASSUME NEW b \in 0 .. 3, NEW a \in 0 .. 31,
           b \in {0, 1} \/ (b = 3 /\ a > 10) \/ a >= 27
    PROVE  Eth(b, a) \in Served /\ (a # 31 => Eth(b, a) \in Writable)
<1> DEFINE r == Eth(b, a)
<1>1. r \in Register /\ r.bank = b /\ r.addr = a /\ r.slow = FALSE
  BY DEF Eth, Register
<1>2. Home(r) = <<0, a>> \/ (Home(r) = <<b, a>> /\ a < 27)
  BY <1>1 DEF Home, InAllBanks
<1>3. AnswersLate(Home(r)) = FALSE
  <2>1. ~AnswersLate(Home(r))
    BY <1>2 DEF AnswersLate, InAllBanks
  <2> QED
    BY <2>1 DEF AnswersLate
<1>4. r \in Served
  <2> HIDE DEF r
  <2> QED
    BY <1>1, <1>3 DEF Served
<1>5. a # 31 => r # ECON1
  BY <1>1 DEF ECON1, Eth
<1> QED
  BY <1>1, <1>4, <1>5 DEF Writable

LEMMA MacServed ==
    ASSUME NEW b \in {2, 3}, NEW a \in 0 .. 26,
           b = 2 \/ a \in {0, 1, 2, 3, 4, 5, 10}
    PROVE  Mac(b, a) \in Writable
<1> DEFINE r == Mac(b, a)
<1>1. r \in Register /\ r.bank = b /\ r.addr = a /\ r.slow = TRUE
  BY DEF Mac, Register
<1>2. Home(r) = <<b, a>>
  BY <1>1 DEF Home, InAllBanks
<1>3. AnswersLate(Home(r))
  BY <1>2 DEF AnswersLate, InAllBanks
<1>4. r \in Served
  BY <1>1, <1>3 DEF Served
<1>5. r # ECON1
  BY <1>1 DEF ECON1, Eth
<1> QED
  BY <1>1, <1>4, <1>5 DEF Writable

\* The registers of banks 0, 1 and 3 that the driver uses.
LEMMA EthWritable ==
    /\ {ETXSTL, ETXSTH, ETXNDL, ETXNDH, ERXSTL, ERXSTH, ERXNDL, ERXNDH,
        ERXRDPTL, ERXRDPTH, ERDPTL, ERDPTH, EWRPTL, EWRPTH} \subseteq Writable
    /\ {ERXFCON, EPMM0, EPMM1, EPMCSL, EPMCSH, EPKTCNT, EREVID, ECOCON}
          \subseteq Writable
<1>1. {ETXSTL, ETXSTH, ETXNDL, ETXNDH, ERXSTL, ERXSTH, ERXNDL} \subseteq Writable
  BY EthServed DEF ETXSTL, ETXSTH, ETXNDL, ETXNDH, ERXSTL, ERXSTH, ERXNDL
<1>2. {ERXNDH, ERXRDPTL, ERXRDPTH, ERDPTL, ERDPTH, EWRPTL, EWRPTH} \subseteq Writable
  BY EthServed DEF ERXNDH, ERXRDPTL, ERXRDPTH, ERDPTL, ERDPTH, EWRPTL, EWRPTH
<1>3. {ERXFCON, EPMM0, EPMM1, EPMCSL, EPMCSH, EPKTCNT, EREVID, ECOCON}
          \subseteq Writable
  BY EthServed DEF ERXFCON, EPMM0, EPMM1, EPMCSL, EPMCSH, EPKTCNT, EREVID, ECOCON
<1> QED
  BY <1>1, <1>2, <1>3

\* The registers of the MAC and the MII.
LEMMA MacWritable ==
    /\ {MACON1, MACON2, MACON3, MACON4, MABBIPG, MAIPGL, MAIPGH, MAMXFLL,
        MAMXFLH, MICMD, MIREGADR, MIWRL, MIWRH, MIRDL, MIRDH} \subseteq Writable
    /\ {MAADR0, MAADR1, MAADR2, MAADR3, MAADR4, MAADR5, MISTAT} \subseteq Writable
<1>1. {MACON1, MACON2, MACON3, MACON4, MABBIPG, MAIPGL, MAIPGH, MAMXFLL} \subseteq Writable
  BY MacServed DEF MACON1, MACON2, MACON3, MACON4, MABBIPG, MAIPGL, MAIPGH, MAMXFLL
<1>2. {MAMXFLH, MICMD, MIREGADR, MIWRL, MIWRH, MIRDL, MIRDH} \subseteq Writable
  BY MacServed DEF MAMXFLH, MICMD, MIREGADR, MIWRL, MIWRH, MIRDL, MIRDH
<1>3. {MAADR0, MAADR1, MAADR2, MAADR3, MAADR4, MAADR5, MISTAT} \subseteq Writable
  BY MacServed DEF MAADR0, MAADR1, MAADR2, MAADR3, MAADR4, MAADR5, MISTAT
<1> QED
  BY <1>1, <1>2, <1>3

\* The registers of all banks, used without set_bank.
LEMMA DirectServed ==
    /\ \A r \in {ECON1, ECON2, EIR, EIE} : r \in Served /\ InAllBanks(r.addr)
    /\ \A r \in {ECON2, EIE} : Home(r) # Home(ECON1)
<1>1. ECON1 \in Served /\ ECON2 \in Served /\ EIR \in Served /\ EIE \in Served
  BY EthServed DEF ECON1, ECON2, EIR, EIE
<1>2. \A r \in {ECON1, ECON2, EIR, EIE} : InAllBanks(r.addr)
  BY DEF ECON1, ECON2, EIR, EIE, Eth, InAllBanks
<1>3. Home(ECON1) = <<0, 31>> /\ Home(ECON2) = <<0, 30>> /\ Home(EIE) = <<0, 27>>
  BY DEF ECON1, ECON2, EIE, Eth, InAllBanks, Home
<1> QED
  BY <1>1, <1>2, <1>3

\* The accesses that do not go through set_bank.
LEMMA DirectSafe ==
    /\ ReadOp(ECON1) \in Safe /\ ReadOp(EIR) \in Safe
    /\ SetOp(EIE, {7, 6}) \in Safe /\ SetOp(ECON2, {PKTDEC}) \in Safe
    /\ \A b \in {RXEN, TXRTS, TXRST} :
          SetOp(ECON1, {b}) \in Safe /\ ClearOp(ECON1, {b}) \in Safe
    /\ Select(ECON1) \in Safe /\ UseBuffer \in Safe
<1> USE DirectServed DEF Safe, Access, Byte
<1>0. \A r \in Served : r \in Register
  BY DEF Served
<1>1. ReadOp(ECON1) \in Safe /\ ReadOp(EIR) \in Safe
  BY <1>0 DEF ReadOp
<1>2. SetOp(EIE, {7, 6}) \in Safe /\ SetOp(ECON2, {PKTDEC}) \in Safe
  BY <1>0 DEF SetOp, PKTDEC
<1>3. ASSUME NEW b \in {RXEN, TXRTS, TXRST}
      PROVE  SetOp(ECON1, {b}) \in Safe /\ ClearOp(ECON1, {b}) \in Safe
  BY <1>0, <1>3 DEF SetOp, ClearOp, RXEN, TXRTS, TXRST, BSEL
<1>4. Select(ECON1) \in Safe /\ UseBuffer \in Safe
  BY <1>0 DEF Select, UseBuffer
<1> QED
  BY <1>1, <1>2, <1>3, <1>4

LEMMA WritableSafe ==
    \A r \in Writable : \A d \in Byte :
        Write(r, d) \in Safe /\ Read(r) \in Safe /\ Poll(r, d) \in Safe
BY WriteSafe DEF Writable

\* Every series but the one of the start is safe.
LEMMA SeriesSafe ==
    /\ BufferSetup \in Seq(Safe) /\ FilterSetup \in Seq(Safe)
    /\ MacSetup \in Seq(Safe) /\ AddressSetup \in Seq(Safe)
    /\ General \in Seq(Safe) /\ Fetch \in Seq(Safe)
    /\ ResetTransmitter \in Seq(Safe)
    /\ \A n : Load(n) \in Seq(Safe)
    /\ \A address, d : write_phy(address, d) \in Seq(Safe)
    /\ \A address : \A half \in {MIRDL, MIRDH} : read_phy(address, half) \in Seq(Safe)
<1> USE WritableSafe, EthWritable, MacWritable, DirectSafe, BitsAreBytes
<1>1. BufferSetup \in Seq(Safe)
  BY DEF BufferSetup
<1>2. FilterSetup \in Seq(Safe)
  BY DEF FilterSetup
<1>3. MacSetup \in Seq(Safe)
  BY DEF MacSetup
<1>4. AddressSetup \in Seq(Safe)
  BY DEF AddressSetup
<1>5. General \in Seq(Safe)
  BY DEF General
<1>6. Fetch \in Seq(Safe)
  BY DEF Fetch
<1>7. ResetTransmitter \in Seq(Safe)
  BY DEF ResetTransmitter
<1>8. ASSUME NEW n PROVE Load(n) \in Seq(Safe)
  BY DEF Load
<1>9. ASSUME NEW address, NEW d PROVE write_phy(address, d) \in Seq(Safe)
  BY DEF write_phy, BUSY
<1>10. ASSUME NEW address, NEW half \in {MIRDL, MIRDH}
       PROVE  read_phy(address, half) \in Seq(Safe)
  BY DEF read_phy, BUSY, MIIRD
<1> QED
  BY <1>1, <1>2, <1>3, <1>4, <1>5, <1>6, <1>7, <1>8, <1>9, <1>10

LEMMA SafeIsAccess == Seq(Safe) \subseteq Seq(Access)
<1>1. Safe \subseteq Access
  BY DEF Safe
<1> QED
  BY <1>1, SeqMonotonic

\* A series that begins with the reset may be continued.
LEMMA Continued ==
    ASSUME NEW s \in Restarts, NEW t \in Seq(Safe)
    PROVE  s \o t \in Restarts
<1>1. s \in Seq(Access) /\ t \in Seq(Access) /\ s # << >>
  BY SafeIsAccess DEF Restarts
<1>2. /\ s \o t \in Seq(Access)
      /\ Len(s \o t) = Len(s) + Len(t)
      /\ \A i \in 1 .. Len(s) + Len(t) :
            (s \o t)[i] = IF i <= Len(s) THEN s[i] ELSE t[i - Len(s)]
  BY <1>1, ConcatProperties
<1>3. Len(s) \in Nat \ {0} /\ Len(t) \in Nat
  BY <1>1, EmptySeq, LenProperties
<1>4. s \o t # << >>
  BY <1>2, <1>3, EmptySeq
<1>5. Head(s \o t) = SoftReset
  <2>1. Head(s \o t) = (s \o t)[1] /\ Head(s) = s[1]
    BY <1>1, <1>2, <1>4
  <2> QED
    BY <2>1, <1>2, <1>3 DEF Restarts
<1>6. Tail(s \o t) \in Seq(Safe)
  <2>1. /\ Tail(s) \in Seq(Safe) /\ Len(Tail(s)) = Len(s) - 1
        /\ \A i \in 1 .. Len(Tail(s)) : Tail(s)[i] = s[i + 1]
    BY <1>1, HeadTailProperties DEF Restarts
  <2>2. /\ Tail(s \o t) \in Seq(Access) /\ Len(Tail(s \o t)) = Len(s) + Len(t) - 1
        /\ \A i \in 1 .. Len(Tail(s \o t)) : Tail(s \o t)[i] = (s \o t)[i + 1]
    BY <1>2, <1>4, HeadTailProperties
  <2>3. ASSUME NEW i \in 1 .. Len(Tail(s \o t))
        PROVE  Tail(s \o t)[i] \in Safe
    <3>1. Tail(s \o t)[i] = IF i + 1 <= Len(s) THEN s[i + 1] ELSE t[i + 1 - Len(s)]
      BY <1>2, <1>3, <2>2
    <3>2. CASE i + 1 <= Len(s)
      BY <3>1, <3>2, <2>1, <1>3, ElementOfSeq
    <3>3. CASE ~(i + 1 <= Len(s))
      <4>1. i + 1 - Len(s) \in 1 .. Len(t)
        BY <3>3, <1>3, <2>2
      <4> QED
        BY <4>1, <3>1, <3>3, ElementOfSeq
    <3> QED
      BY <3>2, <3>3
  <2>4. \A i \in 2 .. Len(s \o t) : (s \o t)[i] \in Safe
    <3> SUFFICES ASSUME NEW i \in 2 .. Len(s \o t)
                 PROVE  (s \o t)[i] \in Safe
      OBVIOUS
    <3>1. i - 1 \in 1 .. Len(Tail(s \o t)) /\ (i - 1) + 1 = i
      BY <1>2, <1>3, <2>2
    <3> QED
      BY <3>1, <2>2, <2>3
  <2>5. Tail(s \o t) = SubSeq(s \o t, 2, Len(s \o t))
    BY <1>2, <1>4, TailIsSubSeq
  <2>6. Len(s \o t) \in Int
    BY <1>2, <1>3
  <2>7. SubSeq(s \o t, 2, Len(s \o t)) \in Seq(Safe)
    <3> DEFINE u == s \o t
               n == Len(u)
    <3>1. n \in Int /\ 2 \in Int /\ \A i \in 2 .. n : u[i] \in Safe
      BY <2>4, <2>6
    <3> HIDE DEF u, n
    <3>2. SubSeq(u, 2, n) \in Seq(Safe)
      BY <3>1, SubSeqProperties
    <3> QED
      BY <3>2 DEF u, n
  <2> QED
    BY <2>5, <2>7
<1> QED
  BY <1>2, <1>4, <1>5, <1>6 DEF Restarts

LEMMA StartSeries == network_init \in Restarts
<1>1. << SoftReset >> \in Restarts
  <2>1. SoftReset \in Access
    BY DirectServed DEF SoftReset, Access, Served, Byte
  <2>2. << SoftReset >> \in Seq(Access) /\ Len(<< SoftReset >>) = 1
    BY <2>1
  <2>3. << SoftReset >> # << >> /\ Head(<< SoftReset >>) = SoftReset
    BY <2>2
  <2>4. Tail(<< SoftReset >>) \in Seq(Access) /\ Len(Tail(<< SoftReset >>)) = 0
    BY <2>2, <2>3, HeadTailProperties
  <2>5. Tail(<< SoftReset >>) = << >>
    BY <2>4, EmptySeq
  <2> QED
    BY <2>2, <2>3, <2>5, EmptySeq DEF Restarts
<1>2. << SoftReset >> \o BufferSetup \in Restarts
  BY <1>1, Continued, SeriesSafe
<1>3. << SoftReset >> \o BufferSetup \o FilterSetup \in Restarts
  BY <1>2, Continued, SeriesSafe
<1>4. << SoftReset >> \o BufferSetup \o FilterSetup \o MacSetup \in Restarts
  BY <1>3, Continued, SeriesSafe
<1>5. << SoftReset >> \o BufferSetup \o FilterSetup \o MacSetup
          \o AddressSetup \in Restarts
  BY <1>4, Continued, SeriesSafe
<1>6. << SoftReset >> \o BufferSetup \o FilterSetup \o MacSetup
          \o AddressSetup \o write_phy(16, 256) \in Restarts
  BY <1>5, Continued, SeriesSafe
<1>7. << SoftReset >> \o BufferSetup \o FilterSetup \o MacSetup
          \o AddressSetup \o write_phy(16, 256) \o write_phy(20, 1142) \in Restarts
  BY <1>6, Continued, SeriesSafe
<1> QED
  BY <1>7, Continued, SeriesSafe DEF network_init

-----------------------------------------------------------------------------
\* What an access does to the registers.

Econ1 == Home(ECON1)
Hide(f) == [f EXCEPT ![Econ1] = @ \ BSEL]

LEMMA Cells ==
    /\ Home(ECON1) = <<0, 31>> /\ Home(ECON2) = <<0, 30>> /\ Home(EIR) = <<0, 28>>
    /\ Home(EPKTCNT) = <<1, 25>> /\ Home(MICMD) = <<2, 18>>
    /\ Home(MIWRH) = <<2, 23>> /\ Home(MIRDH) = <<2, 25>> /\ Home(MISTAT) = <<3, 10>>
    /\ \A r \in {ECON1, ECON2, EIR, EPKTCNT, MICMD, MIWRH, MIRDH, MISTAT} :
          Home(r) \in Cell
<1>1. Home(ECON1) = <<0, 31>> /\ Home(ECON2) = <<0, 30>> /\ Home(EIR) = <<0, 28>>
  BY DEF ECON1, ECON2, EIR, Eth, Home, InAllBanks
<1>2. Home(EPKTCNT) = <<1, 25>> /\ Home(MICMD) = <<2, 18>>
  BY DEF EPKTCNT, MICMD, Eth, Mac, Home, InAllBanks
<1>3. Home(MIWRH) = <<2, 23>> /\ Home(MIRDH) = <<2, 25>> /\ Home(MISTAT) = <<3, 10>>
  BY DEF MIWRH, MIRDH, MISTAT, Mac, Home, InAllBanks
<1> QED
  BY <1>1, <1>2, <1>3 DEF Cell

LEMMA OtherCells ==
    /\ \A k \in {Home(ECON2), Home(EIR), Home(EPKTCNT), Home(MISTAT), Home(MIRDH)} :
          k \in Cell /\ k # Econ1
    /\ Econ1 \in Cell
BY Cells DEF Econ1

\* A write to another cell, and one to ECON1.
LEMMA HideOther ==
    ASSUME NEW f \in [Cell -> Byte], NEW k \in Cell, k # Econ1, NEW d \in Byte
    PROVE  /\ [f EXCEPT ![k] = d] \in [Cell -> Byte]
           /\ [f EXCEPT ![k] = d][Econ1] = f[Econ1]
           /\ Hide(f) \in [Cell -> Byte] /\ Hide(f)[k] = f[k]
           /\ Hide([f EXCEPT ![k] = d]) = [Hide(f) EXCEPT ![k] = d]
BY Cells DEF Hide, Byte, Econ1

LEMMA HideEcon1 ==
    ASSUME NEW f \in [Cell -> Byte], NEW d \in Byte
    PROVE  /\ [f EXCEPT ![Econ1] = d] \in [Cell -> Byte]
           /\ [f EXCEPT ![Econ1] = d][Econ1] = d
           /\ Hide(f) \in [Cell -> Byte] /\ Hide(f)[Econ1] = f[Econ1] \ BSEL
           /\ Hide([f EXCEPT ![Econ1] = d]) = [Hide(f) EXCEPT ![Econ1] = d \ BSEL]
BY Cells DEF Hide, Byte, Econ1

\* What the chip does at once does not touch the bits of the bank, and does
\* not depend on them.
LEMMA ReactionHides ==
    ASSUME NEW f \in [Cell -> Byte], NEW c \in Cell
    PROVE  /\ Reaction(c, f) \in [Cell -> Byte]
           /\ Reaction(c, f)[Econ1] \cap BSEL = f[Econ1] \cap BSEL
           /\ Hide(Reaction(c, f)) = Reaction(c, Hide(f))
<1> USE OtherCells
<1>1. Hide(f) \in [Cell -> Byte]
  BY DEF Hide, Byte
<1>2. /\ StartsPhy(c, f) <=> StartsPhy(c, Hide(f))
      /\ DropsFrame(c, f) <=> DropsFrame(c, Hide(f))
      /\ CountsDown(c, f) <=> CountsDown(c, Hide(f))
  BY Cells DEF StartsPhy, DropsFrame, CountsDown, Hide, TXRST, BSEL, Econ1
<1>3. CASE StartsPhy(c, f)
  <2> DEFINE d == f[Home(MISTAT)] \cup {BUSY}
  <2>1. /\ Home(MISTAT) \in Cell /\ Home(MISTAT) # Econ1 /\ d \in Byte
        /\ Hide(f)[Home(MISTAT)] = f[Home(MISTAT)]
    <3>1. Home(MISTAT) \in Cell /\ Home(MISTAT) # Econ1 /\ d \in Byte
      BY DEF Byte, BUSY
    <3>2. \A k \in Cell : k # Econ1 => Hide(f)[k] = f[k]
      BY DEF Hide
    <3> QED
      BY <3>1, <3>2
  <2>2. /\ Reaction(c, f) = [f EXCEPT ![Home(MISTAT)] = d]
        /\ Reaction(c, Hide(f)) = [Hide(f) EXCEPT ![Home(MISTAT)] = d]
    BY Cells, <1>2, <1>3, <2>1 DEF Reaction, StartsPhy, DropsFrame, CountsDown, Econ1
  <2> HIDE DEF d
  <2>3. /\ [f EXCEPT ![Home(MISTAT)] = d] \in [Cell -> Byte]
        /\ [f EXCEPT ![Home(MISTAT)] = d][Econ1] = f[Econ1]
        /\ Hide([f EXCEPT ![Home(MISTAT)] = d]) = [Hide(f) EXCEPT ![Home(MISTAT)] = d]
    BY <2>1, HideOther
  <2> QED
    BY <2>2, <2>3
<1>4. CASE DropsFrame(c, f)
  <2> DEFINE d == f[Econ1] \ {TXRTS}
  <2>1. d \in Byte /\ d \cap BSEL = f[Econ1] \cap BSEL
    BY DEF Byte, TXRTS, BSEL
  <2>2. Hide(f)[Econ1] = f[Econ1] \ BSEL
    BY HideEcon1, <2>1
  <2>3. Hide(f)[Econ1] \ {TXRTS} = d \ BSEL
    BY <2>2
  <2>4. /\ Reaction(c, f) = [f EXCEPT ![Econ1] = d]
        /\ Reaction(c, Hide(f)) = [Hide(f) EXCEPT ![Econ1] = d \ BSEL]
    <3>1. Reaction(c, f) = [f EXCEPT ![Econ1] = d]
      BY Cells, <1>4 DEF Reaction, StartsPhy, DropsFrame, CountsDown, Econ1
    <3>2. Reaction(c, Hide(f)) = [Hide(f) EXCEPT ![Econ1] = Hide(f)[Econ1] \ {TXRTS}]
      BY Cells, <1>2, <1>4 DEF Reaction, StartsPhy, DropsFrame, CountsDown, Econ1
    <3> QED
      BY <3>1, <3>2, <2>3
  <2> HIDE DEF d
  <2>5. /\ [f EXCEPT ![Econ1] = d] \in [Cell -> Byte]
        /\ [f EXCEPT ![Econ1] = d][Econ1] = d
        /\ Hide([f EXCEPT ![Econ1] = d]) = [Hide(f) EXCEPT ![Econ1] = d \ BSEL]
    BY <2>1, HideEcon1
  <2> QED
    BY <2>1, <2>4, <2>5
<1>5. CASE CountsDown(c, f)
  <2> DEFINE d == f[Home(ECON2)] \ {PKTDEC}
             g == [f EXCEPT ![Home(ECON2)] = d]
  <2>1. /\ Home(ECON2) \in Cell /\ Home(ECON2) # Econ1 /\ d \in Byte
        /\ Home(EPKTCNT) \in Cell /\ Home(EPKTCNT) # Econ1 /\ {} \in Byte
        /\ Hide(f)[Home(ECON2)] = f[Home(ECON2)]
    BY HideOther DEF Byte
  <2>2. /\ Reaction(c, f) = [g EXCEPT ![Home(EPKTCNT)] = {}]
        /\ Reaction(c, Hide(f))
              = [[Hide(f) EXCEPT ![Home(ECON2)] = d] EXCEPT ![Home(EPKTCNT)] = {}]
    BY Cells, <1>2, <1>5, <2>1 DEF Reaction, StartsPhy, DropsFrame, CountsDown, Econ1
  <2>3. g \in [Cell -> Byte] /\ g[Econ1] = f[Econ1]
        /\ Hide(g) = [Hide(f) EXCEPT ![Home(ECON2)] = d]
    <3> HIDE DEF d
    <3> QED
      BY <2>1, HideOther
  <2> HIDE DEF d, g
  <2>4. /\ [g EXCEPT ![Home(EPKTCNT)] = {}] \in [Cell -> Byte]
        /\ [g EXCEPT ![Home(EPKTCNT)] = {}][Econ1] = g[Econ1]
        /\ Hide([g EXCEPT ![Home(EPKTCNT)] = {}])
              = [Hide(g) EXCEPT ![Home(EPKTCNT)] = {}]
    <3> DEFINE e == {}
               k == Home(EPKTCNT)
    <3>0. g \in [Cell -> Byte]
      BY <2>3
    <3>1. k \in Cell /\ k # Econ1 /\ e \in Byte
      BY <2>1
    <3> HIDE DEF e, k
    <3>2. [g EXCEPT ![k] = e] \in [Cell -> Byte]
      BY <3>0, <3>1
    <3>3. [g EXCEPT ![k] = e][Econ1] = g[Econ1]
      BY <3>0, <3>1
    <3>4. Hide([g EXCEPT ![k] = e]) = [Hide(g) EXCEPT ![k] = e]
      BY <3>0, <3>1, HideOther
    <3> QED
      BY <3>2, <3>3, <3>4 DEF e, k
  <2> QED
    BY <2>2, <2>3, <2>4
<1>6. CASE ~StartsPhy(c, f) /\ ~DropsFrame(c, f) /\ ~CountsDown(c, f)
  BY <1>1, <1>2, <1>6 DEF Reaction
<1> QED
  BY <1>3, <1>4, <1>5, <1>6

\* An access that is safe does neither.
LEMMA ModifiedHides ==
    ASSUME NEW f \in [Cell -> Byte], NEW a \in Safe, Home(a.reg) \in Cell,
           a.op \in {"write", "set", "clear"}
    PROVE  /\ Modified(a, Home(a.reg), f) \in [Cell -> Byte]
           /\ Modified(a, Home(a.reg), f)[Econ1] \cap BSEL = f[Econ1] \cap BSEL
           /\ Hide(Modified(a, Home(a.reg), f)) = Modified(a, Home(a.reg), Hide(f))
<1> DEFINE c == Home(a.reg)
           g == [f EXCEPT ![c] = Stored(a, @)]
           h == [Hide(f) EXCEPT ![c] = Stored(a, @)]
<1> USE Cells DEF Econ1
<1>1. Hide(f) \in [Cell -> Byte]
  BY DEF Hide, Byte
<1>2. a.data \in Byte
  BY DEF Safe, Access
<1>3. \A v \in Byte : Stored(a, v) \in Byte
  BY <1>2 DEF Stored, Byte
<1>4. g \in [Cell -> Byte] /\ h \in [Cell -> Byte]
  BY <1>1, <1>3
<1>5. c = Econ1 => \A v \in Byte : /\ Stored(a, v) \cap BSEL = v \cap BSEL
                                   /\ Stored(a, v) \ BSEL = Stored(a, v \ BSEL)
  BY <1>2 DEF Safe, Stored, Byte
<1>6. g[Econ1] \cap BSEL = f[Econ1] \cap BSEL
  BY <1>5
<1>7. h = Hide(g)
  BY <1>1, <1>4, <1>5 DEF Hide
<1>8. c \in Cell
  OBVIOUS
<1> HIDE DEF g, h, c
<1>9. Modified(a, c, f) = Reaction(c, g) /\ Modified(a, c, Hide(f)) = Reaction(c, h)
  BY DEF Modified, g, h
<1> QED
  BY <1>4, <1>6, <1>7, <1>8, <1>9, ReactionHides DEF c

-----------------------------------------------------------------------------
\* The inductive invariant.

\* The bank shown follows from the two bits.
LEMMA ShownBits ==
    /\ \A b \in 0 .. 3 : BankBits(b) \subseteq BSEL
    /\ Shown \in 0 .. 3
    /\ Shown = 0 <=> cells[Econ1] \cap BSEL = {}
    /\ cells'[Econ1] \cap BSEL = cells[Econ1] \cap BSEL => Shown' = Shown
    /\ cells[Econ1] \cap BSEL = {} =>
          \A b \in 0 .. 3 : cells'[Econ1] = cells[Econ1] \cup BankBits(b) => Shown' = b
<1> USE DEF Shown, BSEL, Econ1
<1>1. \A b \in 0 .. 3 : BankBits(b) \subseteq BSEL
  BY DEF BankBits
<1>2. Shown \in 0 .. 3 /\ (Shown = 0 <=> cells[Econ1] \cap BSEL = {})
  OBVIOUS
<1>3. cells'[Econ1] \cap BSEL = cells[Econ1] \cap BSEL => Shown' = Shown
  <2>1. cells'[Econ1] \cap BSEL = cells[Econ1] \cap BSEL =>
           (0 \in cells'[Econ1] <=> 0 \in cells[Econ1]) /\ (1 \in cells'[Econ1] <=> 1 \in cells[Econ1])
    OBVIOUS
  <2> QED
    BY <2>1
<1>4. ASSUME cells[Econ1] \cap BSEL = {}, NEW b \in 0 .. 3,
             cells'[Econ1] = cells[Econ1] \cup BankBits(b)
      PROVE  Shown' = b
  <2>1. 0 \notin cells[Econ1] /\ 1 \notin cells[Econ1]
    BY <1>4
  <2>2. CASE b = 0
    BY <1>4, <2>1, <2>2 DEF BankBits
  <2>3. CASE b = 1
    BY <1>4, <2>1, <2>3 DEF BankBits
  <2>4. CASE b = 2
    BY <1>4, <2>1, <2>4 DEF BankBits
  <2>5. CASE b = 3
    BY <1>4, <2>1, <2>5 DEF BankBits
  <2> QED
    BY <2>2, <2>3, <2>4, <2>5
<1> QED
  BY <1>1, <1>2, <1>3, <1>4

\* While accesses are left, the next one is safe or the reset.
LEMMA NextAccess ==
    ASSUME IInv, todo # << >>
    PROVE  \/ /\ todo \in Seq(Safe) /\ Cur \in Safe /\ Tail(todo) \in Seq(Safe)
              /\ switching \/ Shown = bank
           \/ /\ todo \in Restarts /\ Cur = SoftReset /\ Tail(todo) \in Seq(Safe)
              /\ ~switching /\ bank = 0
<1>1. CASE todo \in Seq(Safe)
  <2>1. Cur \in Safe /\ Tail(todo) \in Seq(Safe)
    BY <1>1, HeadTailProperties DEF Cur
  <2>2. Cur # SoftReset
    BY <2>1 DEF Safe, SoftReset
  <2> QED
    BY <1>1, <2>1, <2>2 DEF IInv, BankKnown, Restarts, Cur
<1>2. CASE todo \notin Seq(Safe)
  BY <1>2 DEF IInv, BankKnown, Restarts, Cur
<1> QED
  BY <1>1, <1>2

LEMMA SafeHome ==
    ASSUME NEW a \in Safe
    PROVE  /\ Home(a.reg) \in Cell /\ a.reg \in Register
           /\ a.reg.slow = AnswersLate(Home(a.reg))
           /\ a.reg.bank \in 0 .. 3 /\ a.op # "reset" /\ a.data \in Byte
<1>1. a.reg \in Served /\ a.op # "reset" /\ a.data \in Byte
  BY DEF Safe, Access
<1>2. a.reg \in Register /\ a.reg.slow = AnswersLate(Home(a.reg))
  BY <1>1 DEF Served
<1>3. a.reg.bank \in 0 .. 3 /\ a.reg.addr \in 0 .. 31
  BY <1>2 DEF Register
<1>4. Home(a.reg) \in Cell
  BY <1>3 DEF Home, Cell
<1> QED
  BY <1>1, <1>2, <1>3, <1>4

\* An access that is made reaches the register it names.
LEMMA AtHome ==
    ASSUME IInv, todo # << >>, ~switching, Cur.op # "reset",
           Cur.banked => Cur.reg.bank = bank
    PROVE  /\ todo \in Seq(Safe) /\ Cur \in Safe /\ Tail(todo) \in Seq(Safe)
           /\ Shown = bank
           /\ Cur.op # "none" => Reached(Cur.reg) = Home(Cur.reg)
<1>1. /\ todo \in Seq(Safe) /\ Cur \in Safe /\ Tail(todo) \in Seq(Safe)
      /\ Shown = bank
  BY NextAccess DEF SoftReset
<1>2. Cur.op # "none" /\ ~Cur.banked => InAllBanks(Cur.reg.addr)
  BY <1>1 DEF Safe
<1>3. Cur.op # "none" => Reached(Cur.reg) = Home(Cur.reg)
  BY <1>1, <1>2 DEF Reached, Home
<1> QED
  BY <1>1, <1>3

LEMMA InitIInv == Init => IInv
<1> SUFFICES ASSUME Init
             PROVE  IInv
  OBVIOUS
<1>1. ResetCells \in [Cell -> Byte]
  BY DEF ResetCells, Byte
<1>2. cells \in [Cell -> Byte]
  <2>1. PICK b \in SUBSET BSEL : cells = [ResetCells EXCEPT ![Home(ECON1)] = b]
    BY DEF Init
  <2>2. b \in Byte
    BY DEF BSEL, Byte
  <2> QED
    BY <1>1, <2>1, <2>2
<1>3. todo \in Restarts /\ todo \in Seq(Access)
  BY StartSeries DEF Init, Restarts
<1>4. BankKnown
  BY <1>3 DEF Init, BankKnown
<1>5. /\ bank \in 0 .. 3 /\ switching \in BOOLEAN /\ got \in Byte /\ pc = "boot"
      /\ length \in Lengths \cup {NoFrame} /\ memory \in Lengths \cup {NoFrame}
      /\ stuck \in BOOLEAN /\ answered \in SUBSET BOOLEAN
  <2>1. bank = 0 /\ switching = FALSE /\ got = {} /\ pc = "boot"
    BY DEF Init
  <2>2. length = NoFrame /\ memory = NoFrame /\ stuck = FALSE /\ answered = {}
    BY DEF Init
  <2>3. {} \in Byte /\ {} \in SUBSET BOOLEAN /\ 0 \in 0 .. 3
    BY DEF Byte
  <2>4. switching \in BOOLEAN /\ stuck \in BOOLEAN
    BY <2>1, <2>2
  <2> QED
    BY <2>1, <2>2, <2>3, <2>4
<1> QED
  BY <1>2, <1>3, <1>4, <1>5 DEF IInv, TypeOK

\* A series that is issued when the last one is done.
LEMMA ContinueBank ==
    ASSUME IInv, NEW from, NEW to, NEW series \in Seq(Safe),
           Continue(from, to, series)
    PROVE  BankKnown' /\ todo' \in Seq(Access) /\ todo = << >>
<1>1. todo = << >> /\ todo' = series /\ UNCHANGED <<bank, switching, cells>>
  BY DEF Continue, Issue
<1>2. ~switching /\ Shown = bank
  BY <1>1 DEF IInv, BankKnown, Restarts
<1>3. Shown' = Shown
  BY <1>1 DEF Shown
<1> QED
  BY <1>1, <1>2, <1>3, SafeIsAccess DEF BankKnown

\* The chip leaves the bank alone.
LEMMA ChipBank ==
    ASSUME IInv, UNCHANGED <<bank, switching, todo>>,
           cells'[Econ1] \cap BSEL = cells[Econ1] \cap BSEL
    PROVE  BankKnown'
BY ShownBits DEF IInv, BankKnown

BusTypeOK == /\ bank \in 0 .. 3 /\ switching \in BOOLEAN /\ cells \in [Cell -> Byte]
             /\ todo \in Seq(Access) /\ got \in Byte

\* One transfer over SPI.
LEMMA TransferBank ==
    ASSUME IInv,
           ClearBank \/ SelectBank \/ ReadReg \/ PollReg \/ ModifyReg \/ ResetChip \/ NoRegister
    PROVE  BankKnown' /\ BusTypeOK'
<1> USE OtherCells, SafeIsAccess DEF IInv, TypeOK, BusTypeOK
<1>1. CASE ClearBank
  <2>1. /\ todo # << >> /\ ~switching /\ bank' = Cur.reg.bank /\ switching' = TRUE
        /\ cells' = [cells EXCEPT ![Econ1] = @ \ BSEL] /\ UNCHANGED <<todo, got>>
        /\ Cur.banked
    BY <1>1 DEF ClearBank, Econ1
  <2>2. todo \in Seq(Safe) /\ Cur \in Safe
    BY <2>1, NextAccess DEF SoftReset
  <2>3. cells' \in [Cell -> Byte] /\ cells'[Econ1] = cells[Econ1] \ BSEL
    BY <2>1 DEF Byte
  <2>4. Shown' = 0
    BY <2>3 DEF Shown, BSEL, Econ1
  <2>5. bank' \in 0 .. 3
    BY <2>1, <2>2, SafeHome
  <2> QED
    BY <2>1, <2>2, <2>3, <2>4, <2>5 DEF BankKnown
<1>2. CASE SelectBank
  <2>1. /\ switching /\ switching' = FALSE /\ UNCHANGED <<bank, todo, got>>
        /\ cells' = [cells EXCEPT ![Econ1] = @ \cup BankBits(bank)]
    BY <1>2 DEF SelectBank, Econ1
  <2>2. todo \in Seq(Safe) /\ Shown = 0
    BY <2>1 DEF BankKnown
  <2>3. BankBits(bank) \subseteq BSEL
    BY ShownBits
  <2>4. cells' \in [Cell -> Byte] /\ cells'[Econ1] = cells[Econ1] \cup BankBits(bank)
    BY <2>1, <2>3 DEF Byte, BSEL
  <2>5. Shown' = bank
    BY <2>2, <2>4, ShownBits
  <2> QED
    BY <2>1, <2>2, <2>4, <2>5 DEF BankKnown
<1>3. CASE ReadReg \/ PollReg
  <2>1. /\ todo # << >> /\ ~switching /\ Cur.op # "reset" /\ Cur.op # "none"
        /\ Cur.banked => Cur.reg.bank = bank
        /\ todo' \in {todo, Tail(todo)} /\ got' = read_op(Cur.reg)
        /\ UNCHANGED <<bank, switching, cells>>
    BY <1>3 DEF ReadReg, PollReg, Ready
  <2>2. /\ todo \in Seq(Safe) /\ Tail(todo) \in Seq(Safe) /\ Cur \in Safe
        /\ Shown = bank /\ Reached(Cur.reg) = Home(Cur.reg)
    BY <2>1, AtHome
  <2>3. got' \in Byte
    BY <2>1, <2>2, SafeHome DEF read_op, Byte
  <2>4. Shown' = Shown
    BY <2>1 DEF Shown
  <2> QED
    BY <2>1, <2>2, <2>3, <2>4 DEF BankKnown
<1>4. CASE ModifyReg
  <2>1. /\ todo # << >> /\ ~switching /\ Cur.op \in {"write", "set", "clear"}
        /\ Cur.banked => Cur.reg.bank = bank
        /\ todo' = Tail(todo) /\ cells' = Modified(Cur, Reached(Cur.reg), cells)
        /\ UNCHANGED <<bank, switching, got>>
    BY <1>4 DEF ModifyReg, Ready
  <2>2. /\ Tail(todo) \in Seq(Safe) /\ Cur \in Safe
        /\ Shown = bank /\ Reached(Cur.reg) = Home(Cur.reg)
    BY <2>1, AtHome
  <2>3. Home(Cur.reg) \in Cell
    BY <2>2, SafeHome
  <2>4. cells' \in [Cell -> Byte] /\ cells'[Econ1] \cap BSEL = cells[Econ1] \cap BSEL
    BY <2>1, <2>2, <2>3, ModifiedHides
  <2>5. Shown' = Shown
    BY <2>4, ShownBits
  <2> QED
    BY <2>1, <2>2, <2>4, <2>5 DEF BankKnown
<1>5. CASE ResetChip
  <2>1. /\ todo # << >> /\ ~switching /\ Cur.op = "reset"
        /\ todo' = Tail(todo) /\ cells' = ResetCells /\ UNCHANGED <<bank, switching, got>>
    BY <1>5 DEF ResetChip, Ready
  <2>2. Tail(todo) \in Seq(Safe) /\ bank = 0
    BY <2>1, NextAccess DEF Safe
  <2>3. ResetCells \in [Cell -> Byte] /\ ResetCells[Econ1] = {}
    BY Cells DEF ResetCells, Byte, Econ1, Home, ERXFCON, Eth, InAllBanks
  <2>4. Shown' = 0
    BY <2>1, <2>3 DEF Shown, Econ1
  <2> QED
    BY <2>1, <2>2, <2>3, <2>4 DEF BankKnown
<1>6. CASE NoRegister
  <2>1. /\ todo # << >> /\ ~switching /\ Cur.op = "none"
        /\ Cur.banked => Cur.reg.bank = bank
        /\ todo' = Tail(todo) /\ UNCHANGED <<bank, switching, cells, got>>
    BY <1>6 DEF NoRegister, Ready
  <2>2. Tail(todo) \in Seq(Safe) /\ Shown = bank
    BY <2>1, AtHome
  <2>3. Shown' = Shown
    BY <2>1 DEF Shown
  <2> QED
    BY <2>1, <2>2, <2>3 DEF BankKnown
<1> QED
  BY <1>1, <1>2, <1>3, <1>4, <1>5, <1>6

\* What is not register accesses keeps its type.
NetTypeOK ==
    /\ pc \in {"boot", "idle", "busy", "error", "sending", "enable", "disable",
               "rewrite", "status", "revision", "link", "count", "fetch"}
    /\ length \in Lengths \cup {NoFrame}
    /\ memory \in Lengths \cup {NoFrame}
    /\ stuck \in BOOLEAN
    /\ answered \in SUBSET BOOLEAN

LEMMA TypeParts == TypeOK <=> BusTypeOK /\ NetTypeOK
BY DEF TypeOK, BusTypeOK, NetTypeOK

\* The steps that begin a series of accesses, each with its series.
Series(s) == \E from, to : Continue(from, to, s)

LEMMA BeginsSeries ==
    ASSUME IInv,
           \/ \E n \in Lengths : network_send(n)
           \/ SendBusy \/ SendError \/ SendNoError \/ SendFree
           \/ network_is_link_up \/ network_status \/ get_revision
           \/ network_broadcast_enable \/ network_broadcast_disable \/ Rewrite
           \/ network_receive \/ ReceiveNothing \/ ReceiveFrame
    PROVE  (\E s \in Seq(Safe) : Series(s)) /\ NetTypeOK'
<1> USE DirectSafe, WritableSafe, EthWritable, MacWritable, SeriesSafe DEF Series
<1> USE DEF IInv, TypeOK, NetTypeOK
<1>0. /\ << >> \in Seq(Safe)
      /\ \A a \in Safe : << a >> \in Seq(Safe)
      /\ \A s, t \in Seq(Safe) : s \o t \in Seq(Safe)
  BY EmptySeq, ConcatProperties
<1>1. CASE \E n \in Lengths : network_send(n)
  BY <1>0, <1>1 DEF network_send, Continue
<1>2. CASE SendBusy \/ SendNoError
  BY <1>0, <1>2 DEF SendBusy, SendNoError, Continue
<1>3. CASE SendError
  <2>1. ResetTransmitter \o << ReadOp(ECON1) >> \in Seq(Safe)
    BY <1>0
  <2> QED
    BY <1>3, <2>1 DEF SendError, Continue
<1>4. CASE SendFree
  BY <1>4 DEF SendFree, Continue
<1>5. CASE network_is_link_up
  BY <1>5 DEF network_is_link_up, Continue
<1>6. CASE network_status
  <2>1. read_phy(17, MIRDH) \o read_phy(17, MIRDL) \o read_phy(1, MIRDL) \in Seq(Safe)
    BY <1>0
  <2> QED
    BY <1>6, <2>1 DEF network_status, Continue
<1>7. CASE get_revision
  BY <1>0, <1>7, BitsAreBytes DEF get_revision, Continue
<1>8. CASE network_broadcast_enable \/ network_broadcast_disable
  BY <1>0, <1>8, BitsAreBytes DEF network_broadcast_enable, network_broadcast_disable, Continue
<1>9. CASE Rewrite
  <2>1. got \cup {BCEN} \in Byte /\ got \ {BCEN} \in Byte
    BY DEF Byte, BCEN
  <2>2. << Write(ERXFCON, got \cup {BCEN}) >> \in Seq(Safe)
        /\ << Write(ERXFCON, got \ {BCEN}) >> \in Seq(Safe)
    BY <1>0, <2>1
  <2> QED
    BY <1>9, <2>2 DEF Rewrite, Continue
<1>10. CASE network_receive
  BY <1>0, <1>10, BitsAreBytes DEF network_receive, Continue
<1>11. CASE ReceiveNothing \/ ReceiveFrame
  BY <1>0, <1>11 DEF ReceiveNothing, ReceiveFrame, Continue
<1> QED
  BY <1>1, <1>2, <1>3, <1>4, <1>5, <1>6, <1>7, <1>8, <1>9, <1>10, <1>11

\* The chip by itself: registers it owns, and not the bits of the bank.
ChipStep == Transmitted \/ Aborted \/ PhyDone \/ Arrive

LEMMA ChipSteps ==
    ASSUME IInv, ChipStep
    PROVE  /\ cells' \in [Cell -> Byte] /\ cells'[Econ1] \cap BSEL = cells[Econ1] \cap BSEL
           /\ \A c \in Cell \ ChipOwned : cells'[c] = cells[c]
           /\ UNCHANGED <<bank, switching, todo, got>> /\ NetTypeOK'
<1> USE OtherCells DEF IInv, TypeOK, NetTypeOK
<1>0. {Econ1, Home(EIR), Home(EPKTCNT), Home(MISTAT), Home(MIRDH)} \subseteq ChipOwned
  BY DEF ChipOwned, Econ1
<1>1. CASE Transmitted
  <2>1. /\ cells' = [cells EXCEPT ![Econ1] = @ \ {TXRTS}]
        /\ UNCHANGED <<bank, switching, todo, got, net>>
    BY <1>1 DEF Transmitted, Econ1
  <2> QED
    BY <1>0, <2>1 DEF Byte, BSEL, TXRTS, net
<1>2. CASE Aborted
  <2>1. /\ \/ cells' = [cells EXCEPT ![Home(EIR)] = @ \cup {TXERIF}, ![Econ1] = @ \ {TXRTS}]
           \/ cells' = [cells EXCEPT ![Home(EIR)] = @ \cup {TXERIF}]
        /\ stuck' \in BOOLEAN
        /\ UNCHANGED <<bank, switching, todo, got, pc, length, memory, answered>>
    BY <1>2 DEF Aborted, Econ1
  <2>2. PICK k \in Cell : k = Home(EIR) /\ k # Econ1 /\ k \in ChipOwned
    BY <1>0
  <2>3. /\ cells[k] \cup {TXERIF} \in Byte /\ cells[Econ1] \ {TXRTS} \in Byte
        /\ (cells[Econ1] \ {TXRTS}) \cap BSEL = cells[Econ1] \cap BSEL
    BY DEF Byte, BSEL, TXRTS, TXERIF
  <2>4. \/ cells' = [cells EXCEPT ![k] = @ \cup {TXERIF}, ![Econ1] = @ \ {TXRTS}]
        \/ cells' = [cells EXCEPT ![k] = @ \cup {TXERIF}]
    BY <2>1, <2>2
  <2>5. cells' \in [Cell -> Byte] /\ cells'[Econ1] \cap BSEL = cells[Econ1] \cap BSEL
    BY <2>2, <2>3, <2>4
  <2>6. \A c \in Cell \ ChipOwned : cells'[c] = cells[c]
    BY <1>0, <2>2, <2>4
  <2> QED
    BY <2>1, <2>5, <2>6
<1>3. CASE PhyDone
  <2>1. PICK link \in BOOLEAN :
           /\ cells' = [cells EXCEPT ![Home(MISTAT)] = @ \ {BUSY},
                          ![Home(MIRDH)] = IF MIIRD \notin cells[Home(MICMD)] THEN @
                                           ELSE IF link THEN {2} ELSE {}]
           /\ answered' = IF pc = "link" THEN {link} ELSE answered
    BY <1>3 DEF PhyDone
  <2>2. UNCHANGED <<bank, switching, todo, got, pc, length, memory, stuck>>
    BY <1>3 DEF PhyDone
  <2>3. PICK k \in Cell, l \in Cell : /\ k = Home(MISTAT) /\ l = Home(MIRDH)
                                   /\ Econ1 \notin {k, l} /\ {k, l} \subseteq ChipOwned
    BY <1>0
  <2>4. cells[k] \ {BUSY} \in Byte /\ {2} \in Byte /\ {} \in Byte
    BY DEF Byte
  <2>5. PICK d \in Byte : cells' = [cells EXCEPT ![k] = @ \ {BUSY}, ![l] = d]
    BY <2>1, <2>3, <2>4
  <2>6. cells' \in [Cell -> Byte] /\ cells'[Econ1] = cells[Econ1]
    BY <2>3, <2>4, <2>5
  <2>7. \A c \in Cell \ ChipOwned : cells'[c] = cells[c]
    BY <2>3, <2>5
  <2> QED
    BY <2>1, <2>2, <2>6, <2>7
<1>4. CASE Arrive
  <2>1. /\ cells' = [cells EXCEPT ![Home(EPKTCNT)] = {0}]
        /\ UNCHANGED <<bank, switching, todo, got, net>>
    BY <1>4 DEF Arrive
  <2> QED
    BY <1>0, <2>1 DEF Byte, net
<1> QED
  BY <1>1, <1>2, <1>3, <1>4 DEF ChipStep

LEMMA StepIInv == IInv /\ [Next]_vars => IInv'
<1> SUFFICES ASSUME IInv, [Next]_vars
             PROVE  IInv'
  OBVIOUS
<1>0. IInv' <=> BusTypeOK' /\ NetTypeOK' /\ BankKnown'
  BY TypeParts DEF IInv, TypeOK, BusTypeOK, NetTypeOK
<1>1. CASE /\ pc \in {"boot", "sending", "rewrite", "status", "revision", "link", "fetch"}
           /\ Return
  <2>1. UNCHANGED bus /\ NetTypeOK'
    BY <1>1 DEF Return, IInv, TypeOK, NetTypeOK
  <2>2. BusTypeOK' /\ BankKnown'
    BY <2>1 DEF bus, IInv, TypeOK, BusTypeOK, BankKnown, Shown
  <2> QED
    BY <1>0, <2>1, <2>2
<1>2. CASE Transfer
  <2>1. ClearBank \/ SelectBank \/ ReadReg \/ PollReg \/ ModifyReg \/ ResetChip \/ NoRegister
    BY <1>2 DEF Transfer
  <2>2. NetTypeOK'
    BY <1>2 DEF Transfer, IInv, TypeOK, NetTypeOK
  <2> QED
    BY <1>0, <2>1, <2>2, TransferBank
<1>3. CASE \/ \E n \in Lengths : network_send(n)
           \/ SendBusy \/ SendError \/ SendNoError \/ SendFree
           \/ network_is_link_up \/ network_status \/ get_revision
           \/ network_broadcast_enable \/ network_broadcast_disable \/ Rewrite
           \/ network_receive \/ ReceiveNothing \/ ReceiveFrame
  <2>1. NetTypeOK' /\ \E s \in Seq(Safe) : Series(s)
    BY <1>3, BeginsSeries
  <2>2. PICK s \in Seq(Safe) : \E from, to : Continue(from, to, s)
    BY <2>1 DEF Series
  <2>3. BankKnown' /\ todo' \in Seq(Access)
    BY <2>2, ContinueBank
  <2>4. UNCHANGED <<bank, switching, cells, got>>
    BY <2>2 DEF Continue
  <2>5. BusTypeOK'
    BY <2>3, <2>4 DEF IInv, TypeOK, BusTypeOK
  <2> QED
    BY <1>0, <2>1, <2>3, <2>5
<1>4. CASE ChipStep
  <2>1. BankKnown'
    BY <1>4, ChipSteps, ChipBank
  <2>2. BusTypeOK' /\ NetTypeOK'
    BY <1>4, ChipSteps DEF IInv, TypeOK, BusTypeOK
  <2> QED
    BY <1>0, <2>1, <2>2
<1>5. CASE Restart
  <2>1. network_init \in Restarts /\ network_init \in Seq(Access)
    BY StartSeries DEF Restarts
  <2>2. BankKnown'
    BY <1>5, <2>1 DEF Restart, BankKnown
  <2>3. BusTypeOK' /\ NetTypeOK'
    <3>1. /\ bank' = 0 /\ switching' = FALSE /\ todo' = network_init /\ got' = {}
          /\ pc' = "boot" /\ length' = NoFrame /\ answered' = {}
          /\ UNCHANGED <<cells, memory, stuck>>
      BY <1>5 DEF Restart
    <3>2. BusTypeOK'
      <4>1. {} \in Byte /\ 0 \in 0 .. 3
        BY DEF Byte
      <4>2. switching' \in BOOLEAN
        BY <3>1
      <4>3. cells \in [Cell -> Byte]
        BY DEF IInv, TypeOK
      <4> QED
        BY <2>1, <3>1, <4>1, <4>2, <4>3 DEF BusTypeOK
    <3>3. NetTypeOK'
      BY <3>1 DEF IInv, TypeOK, NetTypeOK
    <3> QED
      BY <3>2, <3>3
  <2> QED
    BY <1>0, <2>2, <2>3
<1>6. CASE UNCHANGED vars
  BY <1>6 DEF vars, bus, net, IInv, TypeOK, BankKnown, Shown
<1> QED
  BY <1>1, <1>2, <1>3, <1>4, <1>5, <1>6 DEF Next, Program, Return, ChipStep

\* Every variable keeps its type; in particular no series of accesses and no
\* register holds anything else, whatever frames are sent (network.c).
THEOREM TypeCorrect == Spec => []TypeOK
<1>1. IInv => TypeOK
  BY DEF IInv
<1> QED
  BY <1>1, InitIInv, StepIInv, PTL DEF Spec

-----------------------------------------------------------------------------
\* The register file without banks.

\* The names of the register map mean the same in both modules.
LEMMA SameMap ==
    /\ Flat!Cell = Cell /\ Flat!Byte = Byte /\ Flat!Access = Access
    /\ Flat!ResetCells = ResetCells /\ Flat!ChipOwned = ChipOwned
    /\ \A r : Flat!Home(r) = Home(r)
    /\ \A c : Flat!Hidden(c) = IF c = Econ1 THEN BSEL ELSE {}
    /\ \A a, c, f : Flat!Modified(a, c, f) = Modified(a, c, f)
<1>1. Flat!Cell = Cell /\ Flat!Byte = Byte
  BY DEF Flat!Cell, Cell, Flat!Byte, Byte
<1>2. Flat!Access = Access
  BY <1>1 DEF Flat!Access, Access, Flat!Register, Register
<1>3. \A r : Flat!Home(r) = Home(r)
  BY DEF Flat!Home, Home, Flat!InAllBanks, InAllBanks
<1>4. \A b, a : Flat!Eth(b, a) = Eth(b, a) /\ Flat!Mac(b, a) = Mac(b, a)
  BY DEF Flat!Eth, Eth, Flat!Mac, Mac
<1>5. /\ Flat!ECON1 = ECON1 /\ Flat!ECON2 = ECON2 /\ Flat!EIR = EIR
      /\ Flat!EPKTCNT = EPKTCNT /\ Flat!ERXFCON = ERXFCON
  BY <1>4 DEF Flat!ECON1, ECON1, Flat!ECON2, ECON2, Flat!EIR, EIR,
              Flat!EPKTCNT, EPKTCNT, Flat!ERXFCON, ERXFCON
<1>6. /\ Flat!MISTAT = MISTAT /\ Flat!MIRDL = MIRDL /\ Flat!MIRDH = MIRDH
      /\ Flat!MIWRH = MIWRH /\ Flat!MICMD = MICMD
  BY <1>4 DEF Flat!MISTAT, MISTAT, Flat!MIRDL, MIRDL, Flat!MIRDH, MIRDH,
              Flat!MIWRH, MIWRH, Flat!MICMD, MICMD
<1>7. Flat!ChipOwned = ChipOwned
  BY <1>3, <1>5, <1>6 DEF Flat!ChipOwned, ChipOwned
<1>8. Flat!ResetCells = ResetCells
  BY <1>1, <1>3, <1>5 DEF Flat!ResetCells, ResetCells
<1>9. \A c : Flat!Hidden(c) = IF c = Econ1 THEN BSEL ELSE {}
  BY <1>3, <1>5 DEF Flat!Hidden, Econ1, Flat!BSEL, BSEL
<1>10. ASSUME NEW a, NEW c, NEW f
       PROVE  Flat!Modified(a, c, f) = Modified(a, c, f)
  <2>1. \A g : /\ Flat!StartsPhy(c, g) = StartsPhy(c, g)
              /\ Flat!DropsFrame(c, g) = DropsFrame(c, g)
              /\ Flat!CountsDown(c, g) = CountsDown(c, g)
    BY <1>3, <1>5, <1>6 DEF Flat!StartsPhy, StartsPhy, Flat!DropsFrame, DropsFrame,
       Flat!CountsDown, CountsDown, Flat!MIIRD, MIIRD, Flat!TXRST, TXRST, Flat!PKTDEC, PKTDEC
  <2>2. \A g : Flat!Reaction(c, g) = Reaction(c, g)
    BY <1>3, <1>5, <1>6, <2>1 DEF Flat!Reaction, Reaction, Flat!BUSY, BUSY,
       Flat!TXRTS, TXRTS, Flat!PKTDEC, PKTDEC
  <2>3. \A v : Flat!Stored(a, v) = Stored(a, v)
    BY DEF Flat!Stored, Stored
  <2> QED
    BY <2>2, <2>3 DEF Flat!Modified, Modified
<1> QED
  BY <1>1, <1>2, <1>3, <1>7, <1>8, <1>9, <1>10

LEMMA VisibleHides == Visible = Hide(cells) /\ Visible' = Hide(cells)'
BY DEF Visible, Hide, Econ1

LEMMA InitFlat == Init => Flat!Init
<1> SUFFICES ASSUME Init
             PROVE  Flat!Init
  OBVIOUS
<1>1. cells \in [Cell -> Byte] /\ todo \in Seq(Access) /\ got \in Byte
  BY InitIInv DEF IInv, TypeOK
<1>2. Hide(cells) \in [Cell -> Byte]
  BY <1>1, OtherCells DEF Hide, Byte
<1> QED
  BY <1>1, <1>2, SameMap, VisibleHides DEF Flat!Init

\* One transfer is one access to the file, and set_bank is none.
LEMMA TransferFlat ==
    ASSUME IInv,
           ClearBank \/ SelectBank \/ ReadReg \/ PollReg \/ ModifyReg \/ ResetChip \/ NoRegister
    PROVE  Flat!Next \/ UNCHANGED Flat!vars
<1> USE OtherCells, VisibleHides
<1>0. cells \in [Cell -> Byte] /\ bank \in 0 .. 3
  BY DEF IInv, TypeOK
<1>1. CASE ClearBank \/ SelectBank
  <2>1. PICK b \in SUBSET BSEL :
           /\ \/ cells' = [cells EXCEPT ![Econ1] = @ \ BSEL]
              \/ cells' = [cells EXCEPT ![Econ1] = @ \cup b]
           /\ UNCHANGED <<todo, got>>
    BY <1>0, <1>1, ShownBits DEF ClearBank, SelectBank, Econ1
  <2>2. Hide(cells)' = Hide(cells)
    BY <1>0, <2>1 DEF Hide
  <2> QED
    BY <2>1, <2>2 DEF Flat!vars
<1>2. CASE ReadReg \/ PollReg
  <2>1. /\ todo # << >> /\ ~switching /\ Cur.op # "reset" /\ Cur.op # "none"
        /\ Cur.banked => Cur.reg.bank = bank
        /\ got' = read_op(Cur.reg) /\ UNCHANGED <<bank, switching, cells>>
    BY <1>2 DEF ReadReg, PollReg, Ready
  <2>2. Cur \in Safe /\ Reached(Cur.reg) = Home(Cur.reg)
    BY <2>1, AtHome
  <2>3. /\ Home(Cur.reg) \in Cell
        /\ Cur.reg.slow = AnswersLate(Home(Cur.reg))
    BY <2>2, SafeHome
  <2>4. got' = cells[Home(Cur.reg)]
    BY <2>1, <2>2, <2>3 DEF read_op
  <2>5. got' \ Flat!Hidden(Home(Cur.reg)) = Visible[Home(Cur.reg)]
    BY <1>0, <2>3, <2>4, SameMap DEF Hide
  <2>6. Flat!Asked = Home(Cur.reg) /\ Flat!Cur = Cur /\ UNCHANGED Visible
    BY <2>1, SameMap DEF Flat!Asked, Flat!Cur, Cur, Visible
  <2>7. CASE ReadReg
    BY <2>5, <2>6, <2>7 DEF ReadReg, Ready, Cur, Flat!ReadCell, Flat!Does, Flat!Next
  <2>8. CASE PollReg
    BY <2>5, <2>6, <2>8 DEF PollReg, Ready, Cur, Flat!PollCell, Flat!Does, Flat!Next
  <2> QED
    BY <1>2, <2>7, <2>8
<1>3. CASE ModifyReg
  <2>1. /\ todo # << >> /\ ~switching /\ Cur.op \in {"write", "set", "clear"}
        /\ Cur.banked => Cur.reg.bank = bank
        /\ todo' = Tail(todo) /\ cells' = Modified(Cur, Reached(Cur.reg), cells)
        /\ UNCHANGED got
    BY <1>3 DEF ModifyReg, Ready
  <2>2. Cur \in Safe /\ Reached(Cur.reg) = Home(Cur.reg)
    BY <2>1, AtHome
  <2>3. Home(Cur.reg) \in Cell
    BY <2>2, SafeHome
  <2>4. Hide(cells)' = Modified(Cur, Home(Cur.reg), Hide(cells))
    <3>1. Hide(Modified(Cur, Home(Cur.reg), cells)) = Modified(Cur, Home(Cur.reg), Hide(cells))
      BY <1>0, <2>1, <2>2, <2>3, ModifiedHides
    <3>2. Hide(cells)' = Hide(cells')
      BY DEF Hide
    <3> QED
      BY <3>1, <3>2, <2>1, <2>2
  <2>5. Flat!Asked = Home(Cur.reg) /\ Flat!Cur = Cur
    BY SameMap DEF Flat!Asked, Flat!Cur, Cur
  <2>6. Visible' = Flat!Modified(Cur, Home(Cur.reg), Visible)
    BY <2>4, SameMap
  <2> QED
    BY <2>1, <2>5, <2>6 DEF Flat!ModifyCell, Flat!Does, Flat!Next, Cur
<1>4. CASE ResetChip
  <2>1. /\ todo # << >> /\ Cur.op = "reset"
        /\ todo' = Tail(todo) /\ cells' = ResetCells /\ UNCHANGED got
    BY <1>4 DEF ResetChip, Ready
  <2>2. Hide(ResetCells) = ResetCells
    <3>1. ResetCells[Econ1] = {} /\ ResetCells \in [Cell -> Byte]
      BY Cells DEF ResetCells, Byte, Econ1, Home, ERXFCON, Eth, InAllBanks
    <3> QED
      BY <3>1 DEF Hide
  <2>3. Visible' = ResetCells
    BY <2>1, <2>2 DEF Hide
  <2> QED
    BY <2>1, <2>3, SameMap DEF Flat!ResetFile, Flat!Does, Flat!Next, Cur
<1>5. CASE NoRegister
  <2>1. /\ todo # << >> /\ Cur.op = "none"
        /\ todo' = Tail(todo) /\ UNCHANGED <<cells, got>>
    BY <1>5 DEF NoRegister, Ready
  <2>2. UNCHANGED Visible
    BY <2>1 DEF Visible
  <2> QED
    BY <2>1, <2>2 DEF Flat!NoRegister, Flat!Does, Flat!Next, Cur
<1> QED
  BY <1>1, <1>2, <1>3, <1>4, <1>5

LEMMA StepFlat == IInv /\ [Next]_vars => [Flat!Next]_(Flat!vars)
<1> SUFFICES ASSUME IInv, [Next]_vars
             PROVE  Flat!Next \/ UNCHANGED Flat!vars
  OBVIOUS
<1>1. CASE Return
  BY <1>1 DEF Return, bus, Flat!vars, Visible
<1>2. CASE Transfer
  BY <1>2, TransferFlat DEF Transfer
<1>3. CASE \/ \E n \in Lengths : network_send(n)
           \/ SendBusy \/ SendError \/ SendNoError \/ SendFree
           \/ network_is_link_up \/ network_status \/ get_revision
           \/ network_broadcast_enable \/ network_broadcast_disable \/ Rewrite
           \/ network_receive \/ ReceiveNothing \/ ReceiveFrame
  <2>1. PICK s \in Seq(Safe) : \E from, to : Continue(from, to, s)
    BY <1>3, BeginsSeries DEF Series
  <2>2. todo = << >> /\ todo' \in Seq(Access)
    BY <2>1, ContinueBank
  <2>3. UNCHANGED <<Visible, got>>
    BY <2>1 DEF Continue, Visible
  <2> QED
    BY <2>2, <2>3, SameMap DEF Flat!Issue, Flat!Next
<1>4. CASE ChipStep
  <2>1. /\ cells' \in [Cell -> Byte] /\ \A c \in Cell \ ChipOwned : cells'[c] = cells[c]
        /\ UNCHANGED <<todo, got>> /\ cells \in [Cell -> Byte]
    BY <1>4, ChipSteps DEF IInv, TypeOK
  <2>2. /\ Visible' \in [Cell -> Byte]
        /\ \A c \in Cell \ ChipOwned : Visible'[c] = Visible[c]
    BY <2>1, OtherCells, VisibleHides DEF Hide, Byte
  <2> QED
    BY <2>1, <2>2, SameMap DEF Flat!Chip, Flat!Next
<1>5. CASE Restart
  <2>1. network_init \in Seq(Access) /\ network_init # << >> /\ Head(network_init) = SoftReset
    BY StartSeries DEF Restarts
  <2>2. todo' = network_init /\ got' = {} /\ UNCHANGED Visible
    BY <1>5 DEF Restart, Visible
  <2>3. Head(todo').op = "reset" /\ {} \in Byte
    BY <2>1, <2>2 DEF SoftReset, Byte
  <2> QED
    BY <2>1, <2>2, <2>3, SameMap DEF Flat!Restart, Flat!Next
<1>6. CASE UNCHANGED vars
  BY <1>6 DEF vars, bus, Flat!vars, Visible
<1> QED
  BY <1>1, <1>2, <1>3, <1>4, <1>5, <1>6 DEF Next, Program, ChipStep

\* Whatever series of accesses the driver makes, in whatever order its calls
\* come, and also when the microcontroller is reset between the two transfers
\* of set_bank: every access by name reaches the register of that name
\* (network.c, set_bank and read_op).
THEOREM BanksAreHidden == Spec => ImplementsFlat
<1> QED
  BY InitFlat, InitIInv, StepIInv, StepFlat, PTL DEF Spec, ImplementsFlat, Flat!Spec

-----------------------------------------------------------------------------
(* What the driver asks of the chip.  The accesses are known to reach      *)
(* their registers; what is added is what the series still to be done      *)
(* look like.                                                              *)

\* An access that changes the register r.
Writes(a, r) == a.op \in {"write", "set", "clear"} /\ Home(a.reg) = Home(r)

\* The two accesses that make the chip start on the PHY, and the loop that
\* waits for it.
Starts(a) == \/ Writes(a, MIWRH)
             \/ Writes(a, MICMD) /\ (a.op = "write" => MIIRD \in a.data)
Wait == Poll(MISTAT, {BUSY})

\* Accesses that leave to the chip what is the chip's.
Mild == {a \in Safe : ~Writes(a, MISTAT) /\ ~Writes(a, MIRDH)}

\* In a series, the loop follows each start immediately.
Polled(s) == /\ s \in Seq(Mild \cup {SoftReset})
             /\ \A i \in 1 .. Len(s) : Starts(s[i]) => i < Len(s) /\ s[i + 1] = Wait

\* The PHY is busy only while the program waits for it, or resets the chip.
MiiInv == /\ Polled(todo)
          /\ BUSY \in cells[Home(MISTAT)] => todo # << >> /\ Head(todo) \in {Wait, SoftReset}

\* What is left to do of a series, from its i-th access on.
From(s, i) == /\ Len(todo) = Len(s) + 1 - i
              /\ \A j \in 1 .. Len(todo) : todo[j] = s[i + j - 1]

\* The accesses of network_is_link_up.
Question == read_phy(17, MIRDH)

\* network_is_link_up before its i-th access: the data register holds the
\* answer of this call once the PHY is done, and until it is read.
Asking(i) == /\ From(Question, i)
             /\ i = 3 => /\ MIIRD \in cells[Home(MICMD)]
                         /\ BUSY \notin cells[Home(MISTAT)] =>
                               answered = {2 \in cells[Home(MIRDH)]}
             /\ i \in {4, 5} => answered = {2 \in cells[Home(MIRDH)]}
             /\ i = 6 => answered = {2 \in got}

LinkInv == pc = "link" => \E i \in 1 .. 6 : Asking(i)

\* Accesses that start no transmission, and those that do not touch the end of
\* the frame either.
NoStart == {a \in Safe : a.op = "set" /\ Home(a.reg) = Econ1 => TXRTS \notin a.data}
Calm == {a \in NoStart : ~Writes(a, ETXNDL) /\ ~Writes(a, ETXNDH)}

\* network_send before its i-th access of Load: what is loaded so far.
Loading(i) == /\ From(Load(length), i)
              /\ i <= 6 => TXRTS \notin cells[Econ1]
              /\ i > 3 => cells[Home(ETXNDL)] = Low(TXSTART_INIT + length)
              /\ i > 4 => cells[Home(ETXNDH)] = High(TXSTART_INIT + length)
              /\ i > 5 => memory = length

\* The transmitter runs during the start only until the chip is reset, it does
\* not while a frame is loaded, and network_send knows.
SendInv ==
    /\ TransmitIntact
    /\ pc = "boot" =>
          /\ todo \in Seq(NoStart \cup {SoftReset})
          /\ TXRTS \in cells[Econ1] => todo # << >> /\ Head(todo) = SoftReset
    /\ pc = "sending" => \E i \in 1 .. 7 : Loading(i)
    /\ pc \notin {"boot", "sending"} => todo \in Seq(Calm)
    /\ pc = "busy" =>
          IF todo = << >> THEN TXRTS \notin got => TXRTS \notin cells[Econ1]
                          ELSE todo[Len(todo)] = ReadOp(ECON1)

-----------------------------------------------------------------------------
\* What the registers are.

LEMMA Places ==
    /\ \A b, a : Home(Eth(b, a)) = IF a >= 27 THEN <<0, a>> ELSE <<b, a>>
    /\ \A b, a : Home(Mac(b, a)) = IF a >= 27 THEN <<0, a>> ELSE <<b, a>>
    /\ Home(ETXNDL) = <<0, 6>> /\ Home(ETXNDH) = <<0, 7>> /\ Econ1 = <<0, 31>>
    /\ Home(ECON2) = <<0, 30>> /\ Home(EIR) = <<0, 28>> /\ Home(EPKTCNT) = <<1, 25>>
    /\ Home(MICMD) = <<2, 18>> /\ Home(MIWRH) = <<2, 23>>
    /\ Home(MIRDH) = <<2, 25>> /\ Home(MISTAT) = <<3, 10>>
<1>1. \A b, a : Home(Eth(b, a)) = IF a >= 27 THEN <<0, a>> ELSE <<b, a>>
  BY DEF Home, Eth, InAllBanks
<1>2. \A b, a : Home(Mac(b, a)) = IF a >= 27 THEN <<0, a>> ELSE <<b, a>>
  BY DEF Home, Mac, InAllBanks
<1>3. Home(ETXNDL) = <<0, 6>> /\ Home(ETXNDH) = <<0, 7>>
  BY <1>1 DEF ETXNDL, ETXNDH
<1> QED
  BY <1>1, <1>2, <1>3, Cells DEF Econ1

\* Registers that neither the PHY nor the end of a frame depends on.
Ordinary == {r \in Writable :
    Home(r) \notin {<<0, 6>>, <<0, 7>>, <<2, 18>>, <<2, 23>>, <<2, 25>>, <<3, 10>>}}

LEMMA OrdinaryRegisters ==
    /\ {ETXSTL, ETXSTH, ERXSTL, ERXSTH, ERXNDL, ERXNDH, ERXRDPTL, ERXRDPTH,
        ERDPTL, ERDPTH, EWRPTL, EWRPTH} \subseteq Ordinary
    /\ {ERXFCON, EPMM0, EPMM1, EPMCSL, EPMCSH, EPKTCNT, EREVID, ECOCON}
          \subseteq Ordinary
    /\ {MACON1, MACON2, MACON3, MACON4, MABBIPG, MAIPGL, MAIPGH, MAMXFLL,
        MAMXFLH, MIREGADR, MIWRL, MAADR0, MAADR1, MAADR2, MAADR3, MAADR4, MAADR5}
          \subseteq Ordinary
<1> USE Places, EthWritable, MacWritable DEF Ordinary
<1>1. {ETXSTL, ETXSTH, ERXSTL, ERXSTH, ERXNDL, ERXNDH} \subseteq Ordinary
  BY DEF ETXSTL, ETXSTH, ERXSTL, ERXSTH, ERXNDL, ERXNDH
<1>2. {ERXRDPTL, ERXRDPTH, ERDPTL, ERDPTH, EWRPTL, EWRPTH} \subseteq Ordinary
  BY DEF ERXRDPTL, ERXRDPTH, ERDPTL, ERDPTH, EWRPTL, EWRPTH
<1>3. {ERXFCON, EPMM0, EPMM1, EPMCSL, EPMCSH, EPKTCNT, EREVID, ECOCON}
          \subseteq Ordinary
  BY DEF ERXFCON, EPMM0, EPMM1, EPMCSL, EPMCSH, EPKTCNT, EREVID, ECOCON
<1>4. {MACON1, MACON2, MACON3, MACON4, MABBIPG, MAIPGL, MAIPGH, MAMXFLL}
          \subseteq Ordinary
  BY DEF MACON1, MACON2, MACON3, MACON4, MABBIPG, MAIPGL, MAIPGH, MAMXFLL
<1>5. {MAMXFLH, MIREGADR, MIWRL, MAADR0, MAADR1, MAADR2, MAADR3, MAADR4, MAADR5}
          \subseteq Ordinary
  BY DEF MAMXFLH, MIREGADR, MIWRL, MAADR0, MAADR1, MAADR2, MAADR3, MAADR4, MAADR5
<1> QED
  BY <1>1, <1>2, <1>3, <1>4, <1>5

-----------------------------------------------------------------------------
\* What the accesses of the series are.

Harmless == {a \in Mild : ~Starts(a)}

LEMMA WriteKinds ==
    ASSUME NEW r \in Writable, NEW d \in Byte
    PROVE  /\ Write(r, d) \in NoStart
           /\ Home(r) \notin {<<3, 10>>, <<2, 25>>} => Write(r, d) \in Mild
           /\ Home(r) \notin {<<3, 10>>, <<2, 25>>, <<2, 18>>, <<2, 23>>} =>
                 Write(r, d) \in Harmless
           /\ Home(r) \notin {<<0, 6>>, <<0, 7>>} => Write(r, d) \in Calm
           /\ Read(r) \in Harmless \cap Calm /\ Poll(r, d) \in Harmless \cap Calm
<1>1. Write(r, d) \in Safe /\ Read(r) \in Safe /\ Poll(r, d) \in Safe
  BY WritableSafe
<1>2. /\ Write(r, d).op = "write" /\ Write(r, d).reg = r
      /\ Read(r).op = "read" /\ Poll(r, d).op = "poll"
  BY DEF Write, Read, Poll
<1>3. Write(r, d) \in NoStart /\ Read(r) \in NoStart /\ Poll(r, d) \in NoStart
  BY <1>1, <1>2 DEF NoStart
<1>4. \A s : ~Writes(Read(r), s) /\ ~Writes(Poll(r, d), s)
  BY <1>2 DEF Writes
<1>5. \A s : Writes(Write(r, d), s) => Home(r) = Home(s)
  BY <1>2 DEF Writes
<1> QED
  BY <1>1, <1>3, <1>4, <1>5, Places DEF Mild, Harmless, Starts, Calm

Easy == Harmless \cap Calm

LEMMA OrdinaryEasy ==
    ASSUME NEW r \in Ordinary, NEW d \in Byte
    PROVE  Write(r, d) \in Easy /\ Read(r) \in Easy
BY WriteKinds DEF Ordinary, Easy

\* Accesses that go to the chip directly.
LEMMA DirectKinds ==
    ASSUME NEW a \in Safe, ~a.banked \/ a.op = "none"
    PROVE  /\ a \in Harmless
           /\ a \in NoStart => a \in Calm
<1>1. a.op \in {"write", "set", "clear"} => InAllBanks(a.reg.addr)
  BY DEF Safe
<1>2. a.op \in {"write", "set", "clear"} =>
         Home(a.reg) = <<0, a.reg.addr>> /\ a.reg.addr >= 27
  BY <1>1 DEF Home, InAllBanks
<1>3. \A r \in {MISTAT, MIRDH, MIWRH, MICMD, ETXNDL, ETXNDH} : ~Writes(a, r)
  BY <1>2, Places DEF Writes
<1> QED
  BY <1>3 DEF Harmless, Mild, Starts, Calm

LEMMA DirectEasy ==
    /\ ReadOp(ECON1) \in Easy /\ ReadOp(EIR) \in Easy
    /\ SetOp(EIE, {7, 6}) \in Easy /\ SetOp(ECON2, {PKTDEC}) \in Easy
    /\ SetOp(ECON1, {RXEN}) \in Easy /\ SetOp(ECON1, {TXRST}) \in Easy
    /\ ClearOp(ECON1, {TXRST}) \in Easy
    /\ Select(ECON1) \in Easy /\ UseBuffer \in Easy
    /\ SetOp(ECON1, {TXRTS}) \in Harmless
<1> USE DirectSafe, DirectKinds
<1>0. \A a \in Safe : a \in NoStart /\ (~a.banked \/ a.op = "none") => a \in Easy
  BY DEF Easy
<1>1. ReadOp(ECON1) \in Easy /\ ReadOp(EIR) \in Easy
  BY <1>0 DEF NoStart, ReadOp
<1>2. SetOp(EIE, {7, 6}) \in Easy /\ SetOp(ECON2, {PKTDEC}) \in Easy
  BY <1>0 DEF NoStart, SetOp, TXRTS, PKTDEC
<1>3. SetOp(ECON1, {RXEN}) \in Easy /\ SetOp(ECON1, {TXRST}) \in Easy
  BY <1>0 DEF NoStart, SetOp, TXRTS, RXEN, TXRST
<1>4. ClearOp(ECON1, {TXRST}) \in Easy
  BY <1>0 DEF NoStart, ClearOp
<1>5. Select(ECON1) \in Easy /\ UseBuffer \in Easy
  BY <1>0 DEF NoStart, Select, UseBuffer
<1>6. SetOp(ECON1, {TXRTS}) \in Harmless
  BY DEF SetOp
<1> QED
  BY <1>1, <1>2, <1>3, <1>4, <1>5, <1>6

\* The accesses to the PHY, and those that set the end of a frame.
LEMMA PhyAccesses ==
    /\ \A d \in Byte : Write(MICMD, d) \in Mild \cap Calm /\ Write(MIWRH, d) \in Mild \cap Calm
    /\ Starts(Write(MICMD, {MIIRD})) /\ ~Starts(Write(MICMD, {}))
    /\ \A d : Starts(Write(MIWRH, d))
    /\ Wait \in Easy /\ Read(MIRDL) \in Easy /\ Read(MIRDH) \in Easy
    /\ \A d \in Byte : Write(ETXNDL, d) \in Harmless \cap NoStart
                       /\ Write(ETXNDH, d) \in Harmless \cap NoStart
<1> USE Places
<1>1. {MICMD, MIWRH, MISTAT, MIRDL, MIRDH, ETXNDL, ETXNDH} \subseteq Writable
  BY EthWritable, MacWritable
<1>2. \A d \in Byte : Write(MICMD, d) \in Mild \cap Calm /\ Write(MIWRH, d) \in Mild \cap Calm
  BY <1>1, WriteKinds
<1>3. \A d \in Byte : Write(ETXNDL, d) \in Harmless \cap NoStart
                      /\ Write(ETXNDH, d) \in Harmless \cap NoStart
  BY <1>1, WriteKinds
<1>4. Wait \in Easy /\ Read(MIRDL) \in Easy /\ Read(MIRDH) \in Easy
  <2>1. {BUSY} \in Byte
    BY DEF BUSY, Byte
  <2> QED
    BY <1>1, <2>1, WriteKinds DEF Wait, Easy
<1>5. Starts(Write(MICMD, {MIIRD})) /\ ~Starts(Write(MICMD, {}))
  BY DEF Starts, Writes, Write
<1>6. \A d : Starts(Write(MIWRH, d))
  BY DEF Starts, Writes, Write
<1> QED
  BY <1>2, <1>3, <1>4, <1>5, <1>6

-----------------------------------------------------------------------------
\* What the series are.

LEMMA EasySeries ==
    /\ FilterSetup \in Seq(Easy) /\ MacSetup \in Seq(Easy) /\ AddressSetup \in Seq(Easy)
    /\ General \in Seq(Easy) /\ Fetch \in Seq(Easy) /\ ResetTransmitter \in Seq(Easy)
    /\ BufferSetup \in Seq(Harmless \cap NoStart)
    /\ \A n : Load(n) \in Seq(Harmless)
<1> USE OrdinaryEasy, OrdinaryRegisters, DirectEasy, BitsAreBytes
<1>1. FilterSetup \in Seq(Easy)
  BY DEF FilterSetup
<1>2. MacSetup \in Seq(Easy)
  BY DEF MacSetup
<1>3. AddressSetup \in Seq(Easy)
  BY DEF AddressSetup
<1>4. General \in Seq(Easy)
  BY DEF General
<1>5. Fetch \in Seq(Easy)
  BY DEF Fetch
<1>6. ResetTransmitter \in Seq(Easy)
  BY DEF ResetTransmitter
<1>7. BufferSetup \in Seq(Harmless \cap NoStart)
  BY PhyAccesses DEF BufferSetup, Easy, Calm
<1>8. ASSUME NEW n PROVE Load(n) \in Seq(Harmless)
  BY PhyAccesses DEF Load, Easy
<1> QED
  BY <1>1, <1>2, <1>3, <1>4, <1>5, <1>6, <1>7, <1>8

\* Series without a start need no loop; series may follow each other.
LEMMA HarmlessPolled ==
    ASSUME NEW s \in Seq(Harmless)
    PROVE  Polled(s)
<1>1. Harmless \subseteq Mild \cup {SoftReset}
  BY DEF Harmless
<1>2. s \in Seq(Mild \cup {SoftReset})
  BY <1>1, SeqMonotonic
<1>3. \A i \in 1 .. Len(s) : s[i] \in Harmless
  BY ElementOfSeq
<1> QED
  BY <1>2, <1>3 DEF Polled, Harmless

LEMMA JoinPolled ==
    ASSUME NEW s, Polled(s), NEW t, Polled(t)
    PROVE  Polled(s \o t)
<1> DEFINE S == Mild \cup {SoftReset}
           u == s \o t
<1>1. s \in Seq(S) /\ t \in Seq(S)
  BY DEF Polled
<1> HIDE DEF S
<1>2. /\ u \in Seq(S) /\ Len(u) = Len(s) + Len(t) /\ Len(s) \in Nat /\ Len(t) \in Nat
      /\ \A i \in 1 .. Len(s) + Len(t) : u[i] = IF i <= Len(s) THEN s[i] ELSE t[i - Len(s)]
  BY <1>1, ConcatProperties, LenProperties
<1> HIDE DEF u
<1>3. ASSUME NEW i \in 1 .. Len(u), Starts(u[i])
      PROVE  i < Len(u) /\ u[i + 1] = Wait
  <2>1. CASE i <= Len(s)
    <3>1. i \in 1 .. Len(s) /\ u[i] = s[i]
      BY <1>2, <2>1
    <3>2. i < Len(s) /\ s[i + 1] = Wait
      BY <1>3, <3>1 DEF Polled
    <3>3. u[i + 1] = s[i + 1]
      BY <1>2, <3>2
    <3> QED
      BY <1>2, <3>2, <3>3
  <2>2. CASE ~(i <= Len(s))
    <3> DEFINE j == i - Len(s)
    <3>1. j \in 1 .. Len(t) /\ u[i] = t[j]
      BY <1>2, <2>2
    <3>2. j < Len(t) /\ t[j + 1] = Wait
      BY <1>3, <3>1 DEF Polled
    <3>3. i + 1 \in 1 .. Len(s) + Len(t) /\ ~(i + 1 <= Len(s)) /\ (i + 1) - Len(s) = j + 1
      BY <1>2, <2>2, <3>2
    <3>4. u[i + 1] = t[j + 1]
      BY <1>2, <3>3
    <3> QED
      BY <1>2, <3>2, <3>3, <3>4
  <2> QED
    BY <2>1, <2>2
<1> QED
  BY <1>2, <1>3 DEF Polled, S, u

LEMMA PhyPolled ==
    /\ \A address, d : /\ Polled(write_phy(address, d))
                       /\ write_phy(address, d) \in Seq(Calm)
    /\ \A address : \A half \in {MIRDL, MIRDH} :
          Polled(read_phy(address, half)) /\ read_phy(address, half) \in Seq(Calm)
<1> USE PhyAccesses, BitsAreBytes
<1>0. /\ \A d \in Byte : Write(MIREGADR, d) \in Easy /\ Write(MIWRL, d) \in Easy
      /\ {} \in Byte /\ {MIIRD} \in Byte
  BY OrdinaryEasy, OrdinaryRegisters DEF Byte, MIIRD
<1>1. ASSUME NEW address, NEW d
      PROVE  Polled(write_phy(address, d)) /\ write_phy(address, d) \in Seq(Calm)
  <2> DEFINE a == Write(MIREGADR, Bits(address))
             b == Write(MIWRL, Low(d))
             c == Write(MIWRH, High(d))
             s == write_phy(address, d)
  <2>1. a \in Easy /\ b \in Easy /\ c \in Mild \cap Calm /\ Wait \in Easy
    BY <1>0
  <2>2. s = <<a, b, c, Wait>>
    BY DEF write_phy, Wait
  <2> HIDE DEF a, b, c, s
  <2>3. s \in Seq(Calm)
    BY <2>1, <2>2 DEF Easy
  <2>4. s \in Seq(Mild \cup {SoftReset})
    BY <2>1, <2>2 DEF Easy, Harmless
  <2>5. ~Starts(a) /\ ~Starts(b) /\ ~Starts(Wait)
    BY <2>1 DEF Easy, Harmless
  <2>6. Len(s) = 4 /\ s[1] = a /\ s[2] = b /\ s[3] = c /\ s[4] = Wait
    BY <2>2
  <2>7. \A i \in 1 .. 4 : i = 1 \/ i = 2 \/ i = 3 \/ i = 4
    OBVIOUS
  <2>8. \A i \in 1 .. 4 : Starts(s[i]) => i = 3
    BY <2>5, <2>6, <2>7
  <2>9. Polled(s)
    BY <2>4, <2>6, <2>8 DEF Polled
  <2> QED
    BY <2>3, <2>9 DEF s
<1>2. ASSUME NEW address, NEW half \in {MIRDL, MIRDH}
      PROVE  Polled(read_phy(address, half)) /\ read_phy(address, half) \in Seq(Calm)
  <2> DEFINE a == Write(MIREGADR, Bits(address))
             b == Write(MICMD, {MIIRD})
             c == Write(MICMD, {})
             e == Read(half)
             s == read_phy(address, half)
  <2>1. /\ a \in Easy /\ b \in Mild \cap Calm /\ Wait \in Easy
        /\ c \in Mild \cap Calm /\ ~Starts(c) /\ e \in Easy
    BY <1>0
  <2>2. s = <<a, b, Wait, c, e>>
    BY DEF read_phy, Wait
  <2> HIDE DEF a, b, c, e, s
  <2>3. s \in Seq(Calm)
    BY <2>1, <2>2 DEF Easy
  <2>4. s \in Seq(Mild \cup {SoftReset})
    BY <2>1, <2>2 DEF Easy, Harmless
  <2>5. ~Starts(a) /\ ~Starts(c) /\ ~Starts(Wait) /\ ~Starts(e)
    BY <2>1 DEF Easy, Harmless
  <2>6. Len(s) = 5 /\ s[1] = a /\ s[2] = b /\ s[3] = Wait /\ s[4] = c /\ s[5] = e
    BY <2>2
  <2>7. \A i \in 1 .. 5 : i = 1 \/ i = 2 \/ i = 3 \/ i = 4 \/ i = 5
    OBVIOUS
  <2>8. \A i \in 1 .. 5 : Starts(s[i]) => i = 2
    BY <2>5, <2>6, <2>7
  <2>9. Polled(s)
    BY <2>4, <2>6, <2>8 DEF Polled
  <2> QED
    BY <2>3, <2>9 DEF s
<1> QED
  BY <1>1, <1>2

\* The series of the start.
LEMMA StartPolled ==
    /\ Polled(network_init) /\ network_init \in Seq(NoStart \cup {SoftReset})
    /\ network_init # << >> /\ Head(network_init) = SoftReset
<1> DEFINE N == NoStart \cup {SoftReset}
<1>1. /\ Seq(Easy) \subseteq Seq(Harmless) /\ Seq(Harmless \cap NoStart) \subseteq Seq(Harmless)
      /\ Seq(Easy) \subseteq Seq(N) /\ Seq(Calm) \subseteq Seq(N)
      /\ Seq(Harmless \cap NoStart) \subseteq Seq(N)
  <2>1. Easy \subseteq Harmless /\ Easy \subseteq N /\ Calm \subseteq N
    BY DEF Easy, Calm
  <2>2. Harmless \cap NoStart \subseteq Harmless /\ Harmless \cap NoStart \subseteq N
    OBVIOUS
  <2> HIDE DEF N
  <2> QED
    BY <2>1, <2>2, SeqMonotonic
<1>2. Polled(<< SoftReset >>) /\ << SoftReset >> \in Seq(N)
  <2>1. ~Starts(SoftReset)
    BY DEF Starts, Writes, SoftReset
  <2> QED
    BY <2>1 DEF Polled
<1>3. /\ Polled(BufferSetup) /\ Polled(FilterSetup) /\ Polled(MacSetup)
      /\ Polled(AddressSetup) /\ Polled(General)
      /\ Polled(write_phy(16, 256)) /\ Polled(write_phy(20, 1142))
  BY <1>1, EasySeries, HarmlessPolled, PhyPolled
<1>4. /\ BufferSetup \in Seq(N) /\ FilterSetup \in Seq(N) /\ MacSetup \in Seq(N)
      /\ AddressSetup \in Seq(N) /\ General \in Seq(N)
      /\ write_phy(16, 256) \in Seq(N) /\ write_phy(20, 1142) \in Seq(N)
  BY <1>1, EasySeries, PhyPolled
<1> DEFINE s1 == << SoftReset >> \o BufferSetup
           s2 == s1 \o FilterSetup
           s3 == s2 \o MacSetup
           s4 == s3 \o AddressSetup
           s5 == s4 \o write_phy(16, 256)
           s6 == s5 \o write_phy(20, 1142)
<1>5. Polled(s1) /\ s1 \in Seq(N)
  BY <1>2, <1>3, <1>4, JoinPolled, ConcatProperties
<1>6. Polled(s2) /\ s2 \in Seq(N)
  <2> HIDE DEF s1
  <2> QED
    BY <1>3, <1>4, <1>5, JoinPolled, ConcatProperties
<1>7. Polled(s3) /\ s3 \in Seq(N)
  <2> HIDE DEF s2
  <2> QED
    BY <1>3, <1>4, <1>6, JoinPolled, ConcatProperties
<1>8. Polled(s4) /\ s4 \in Seq(N)
  <2> HIDE DEF s3
  <2> QED
    BY <1>3, <1>4, <1>7, JoinPolled, ConcatProperties
<1>9. Polled(s5) /\ s5 \in Seq(N)
  <2> HIDE DEF s4
  <2> QED
    BY <1>3, <1>4, <1>8, JoinPolled, ConcatProperties
<1>10. Polled(s6) /\ s6 \in Seq(N)
  <2> HIDE DEF s5
  <2> QED
    BY <1>3, <1>4, <1>9, JoinPolled, ConcatProperties
<1>11. Polled(s6 \o General) /\ s6 \o General \in Seq(N)
  <2> HIDE DEF s6
  <2> QED
    BY <1>3, <1>4, <1>10, JoinPolled, ConcatProperties
<1>12. network_init = s6 \o General
  BY DEF network_init
<1> QED
  BY <1>11, <1>12, StartSeries DEF Restarts

\* What is left of a series after its first access.
LEMMA RestPolled ==
    ASSUME Polled(todo), todo # << >>
    PROVE  /\ Polled(Tail(todo))
           /\ Cur \in Mild \cup {SoftReset}
           /\ Starts(Cur) => Tail(todo) # << >> /\ Head(Tail(todo)) = Wait
<1> DEFINE S == Mild \cup {SoftReset}
           t == Tail(todo)
<1>1. todo \in Seq(S)
  BY DEF Polled
<1> HIDE DEF S
<1>2. /\ t \in Seq(S) /\ Len(t) = Len(todo) - 1 /\ Len(todo) \in Nat \ {0}
      /\ \A i \in 1 .. Len(t) : t[i] = todo[i + 1]
      /\ Cur \in S /\ Cur = todo[1]
  BY <1>1, HeadTailProperties, LenProperties, EmptySeq DEF Cur
<1> HIDE DEF t
<1>3. ASSUME NEW i \in 1 .. Len(t), Starts(t[i])
      PROVE  i < Len(t) /\ t[i + 1] = Wait
  <2>1. i + 1 \in 1 .. Len(todo) /\ Starts(todo[i + 1])
    BY <1>2, <1>3
  <2>2. i + 1 < Len(todo) /\ todo[(i + 1) + 1] = Wait
    BY <2>1 DEF Polled
  <2>3. i + 1 \in 1 .. Len(t)
    BY <1>2, <2>2
  <2> QED
    BY <1>2, <2>2, <2>3
<1>4. Polled(t)
  BY <1>2, <1>3 DEF Polled, S
<1>5. ASSUME Starts(Cur)
      PROVE  t # << >> /\ Head(t) = Wait
  <2>1. 1 \in 1 .. Len(todo) /\ Starts(todo[1])
    BY <1>2, <1>5
  <2>2. 1 < Len(todo) /\ todo[1 + 1] = Wait
    BY <2>1 DEF Polled
  <2>3. 1 \in 1 .. Len(t) /\ t[1] = Wait
    BY <1>2, <2>2
  <2>4. t # << >>
    BY <1>2, <2>3, EmptySeq
  <2> QED
    BY <1>2, <2>3, <2>4
<1> QED
  BY <1>2, <1>4, <1>5 DEF t, S

-----------------------------------------------------------------------------
\* The kinds of transfers, with what they do.

BankStep == /\ \A k \in Cell \ {Econ1} : cells'[k] = cells[k]
            /\ cells'[Econ1] \ BSEL = cells[Econ1] \ BSEL
            /\ UNCHANGED <<todo, got>>
ReadStep == /\ todo # << >> /\ Cur \in Safe
            /\ got' = cells[Home(Cur.reg)] /\ UNCHANGED cells
            /\ \/ Cur.op = "read" /\ todo' = Tail(todo)
               \/ /\ Cur.op = "poll"
                  /\ todo' = IF got' \cap Cur.data = {} THEN Tail(todo) ELSE todo
WriteStep == /\ todo # << >> /\ Cur \in Safe /\ Cur.op \in {"write", "set", "clear"}
             /\ cells' = Modified(Cur, Home(Cur.reg), cells)
             /\ todo' = Tail(todo) /\ UNCHANGED got
ResetStep == /\ todo # << >> /\ Cur = SoftReset
             /\ cells' = ResetCells
             /\ todo' = Tail(todo) /\ UNCHANGED got
PassStep == /\ todo # << >> /\ Cur.op = "none"
            /\ todo' = Tail(todo) /\ UNCHANGED <<cells, got>>

LEMMA TransferKinds ==
    ASSUME IInv, Transfer
    PROVE  /\ UNCHANGED <<pc, length, answered>>
           /\ \/ (BankStep \/ ReadStep \/ WriteStep) /\ UNCHANGED memory
              \/ ResetStep /\ memory' = NoFrame
              \/ PassStep /\ memory' = IF pc = "sending" THEN length ELSE memory
<1> USE OtherCells
<1>0. cells \in [Cell -> Byte] /\ bank \in 0 .. 3
  BY DEF IInv, TypeOK
<1>1. UNCHANGED <<pc, length, answered>>
  BY DEF Transfer
<1>2. CASE (ClearBank \/ SelectBank) /\ UNCHANGED memory
  <2>1. PICK b \in SUBSET BSEL :
           /\ \/ cells' = [cells EXCEPT ![Econ1] = @ \ BSEL]
              \/ cells' = [cells EXCEPT ![Econ1] = @ \cup b]
           /\ UNCHANGED <<todo, got>>
    BY <1>0, <1>2, ShownBits DEF ClearBank, SelectBank, Econ1
  <2> QED
    BY <1>0, <1>1, <1>2, <2>1 DEF BankStep
<1>3. CASE (ReadReg \/ PollReg) /\ UNCHANGED memory
  <2>1. /\ todo # << >> /\ ~switching /\ Cur.op # "reset" /\ Cur.op # "none"
        /\ Cur.banked => Cur.reg.bank = bank
        /\ got' = read_op(Cur.reg) /\ UNCHANGED <<bank, switching, cells>>
    BY <1>3 DEF ReadReg, PollReg, Ready
  <2>2. Cur \in Safe /\ Reached(Cur.reg) = Home(Cur.reg)
    BY <2>1, AtHome
  <2>3. Cur.reg.slow = AnswersLate(Home(Cur.reg))
    BY <2>2, SafeHome
  <2>4. got' = cells[Home(Cur.reg)]
    BY <2>1, <2>2, <2>3 DEF read_op
  <2> QED
    BY <1>1, <1>3, <2>1, <2>2, <2>4 DEF ReadReg, PollReg, Ready, ReadStep
<1>4. CASE ModifyReg /\ UNCHANGED memory
  <2>1. /\ todo # << >> /\ ~switching /\ Cur.op \in {"write", "set", "clear"}
        /\ Cur.banked => Cur.reg.bank = bank
        /\ todo' = Tail(todo) /\ cells' = Modified(Cur, Reached(Cur.reg), cells)
        /\ UNCHANGED got
    BY <1>4 DEF ModifyReg, Ready
  <2>2. Cur \in Safe /\ Reached(Cur.reg) = Home(Cur.reg)
    BY <2>1, AtHome
  <2> QED
    BY <1>1, <1>4, <2>1, <2>2 DEF WriteStep
<1>5. CASE ResetChip /\ memory' = NoFrame
  <2>1. /\ todo # << >> /\ Cur.op = "reset"
        /\ todo' = Tail(todo) /\ cells' = ResetCells /\ UNCHANGED got
    BY <1>5 DEF ResetChip, Ready
  <2>2. Cur = SoftReset
    BY <2>1, NextAccess DEF Safe
  <2> QED
    BY <1>1, <1>5, <2>1, <2>2 DEF ResetStep
<1>6. CASE NoRegister /\ memory' = IF pc = "sending" THEN length ELSE memory
  BY <1>1, <1>6 DEF NoRegister, Ready, PassStep
<1> QED
  BY <1>2, <1>3, <1>4, <1>5, <1>6 DEF Transfer

\* What a write changes besides its register.
LEMMA Written ==
    ASSUME NEW f \in [Cell -> Byte], NEW a \in Safe, a.op \in {"write", "set", "clear"}
    PROVE  LET c == Home(a.reg)
               g == Modified(a, c, f)
           IN  /\ \A k \in Cell :
                    k \notin {c, Home(MISTAT), Econ1, Home(ECON2), Home(EPKTCNT)}
                      => g[k] = f[k]
               /\ a.op = "write" /\ c \notin {Home(MISTAT), Econ1, Home(ECON2), Home(EPKTCNT)}
                      => g[c] = a.data
               /\ BUSY \in g[Home(MISTAT)] /\ c # Home(MISTAT)
                      => BUSY \in f[Home(MISTAT)] \/ Starts(a)
               /\ a.op = "write" /\ Starts(a) => BUSY \in g[Home(MISTAT)]
               /\ TXRTS \in g[Econ1] /\ (c = Econ1 /\ a.op = "set" => TXRTS \notin a.data)
                      => TXRTS \in f[Econ1]
<1> DEFINE c == Home(a.reg)
           d == Stored(a, f[c])
           h == [f EXCEPT ![c] = d]
           g == Modified(a, c, f)
<1> USE OtherCells
<1>1. c \in Cell
  BY SafeHome
<1>2. d \in Byte
  BY <1>1, SafeHome DEF Stored, Byte
<1>3. g = Reaction(c, h)
  BY DEF Modified
<1>4. a.op = "write" => d = a.data
  BY DEF Stored
<1>5. c = Econ1 => /\ a.op # "write"
                   /\ TXRTS \in d /\ (a.op = "set" => TXRTS \notin a.data)
                         => TXRTS \in f[c]
  <2>1. c = Econ1 => a.op # "write"
    BY DEF Safe, Econ1
  <2> QED
    BY <2>1 DEF Stored
<1> HIDE DEF d, c
<1>6. /\ h \in [Cell -> Byte] /\ h[c] = d
      /\ \A k \in Cell : k # c => h[k] = f[k]
  BY <1>1, <1>2
<1>7. /\ StartsPhy(c, h) => Starts(a)
      /\ a.op = "write" /\ Starts(a) => StartsPhy(c, h)
  BY <1>4, <1>6 DEF StartsPhy, Starts, Writes, c
<1>8. TXRTS \in h[Econ1] /\ (c = Econ1 /\ a.op = "set" => TXRTS \notin a.data)
         => TXRTS \in f[Econ1]
  BY <1>5, <1>6
<1>9. /\ Econ1 # Home(MISTAT) /\ Econ1 # Home(ECON2) /\ Econ1 # Home(EPKTCNT)
      /\ Home(MISTAT) # Home(ECON2) /\ Home(MISTAT) # Home(EPKTCNT)
  BY Places
<1> HIDE DEF h
<1>10. /\ StartsPhy(c, h) => ~DropsFrame(c, h) /\ ~CountsDown(c, h)
       /\ DropsFrame(c, h) => ~CountsDown(c, h)
  BY Places DEF StartsPhy, DropsFrame, CountsDown, Econ1
<1>11. CASE StartsPhy(c, h)
  <2>1. g = [h EXCEPT ![Home(MISTAT)] = @ \cup {BUSY}]
    BY <1>3, <1>11, <1>10 DEF Reaction
  <2> HIDE DEF g
  <2> QED
    BY <1>1, <1>4, <1>6, <1>7, <1>8, <1>9, <1>11, <2>1 DEF c, g
<1>12. CASE ~StartsPhy(c, h) /\ DropsFrame(c, h)
  <2>1. g = [h EXCEPT ![Econ1] = @ \ {TXRTS}]
    BY <1>3, <1>12, <1>10 DEF Reaction, Econ1
  <2> HIDE DEF g
  <2> QED
    BY <1>1, <1>4, <1>6, <1>7, <1>8, <1>12, <1>9, <2>1 DEF c, g
<1>13. CASE ~StartsPhy(c, h) /\ ~DropsFrame(c, h) /\ CountsDown(c, h)
  <2>1. g = [h EXCEPT ![Home(ECON2)] = @ \ {PKTDEC}, ![Home(EPKTCNT)] = {}]
    BY <1>3, <1>13 DEF Reaction
  <2> HIDE DEF g
  <2> QED
    BY <1>1, <1>4, <1>6, <1>7, <1>8, <1>13, <1>9, <2>1 DEF c, g
<1>14. CASE ~StartsPhy(c, h) /\ ~DropsFrame(c, h) /\ ~CountsDown(c, h)
  <2>1. g = h
    BY <1>3, <1>14 DEF Reaction
  <2> HIDE DEF g
  <2> QED
    BY <1>1, <1>4, <1>6, <1>7, <1>8, <1>14, <2>1 DEF c, g
<1> QED
  BY <1>11, <1>12, <1>13, <1>14

\* The registers that matter here, when one is written.
LEMMA WriteStepCells ==
    ASSUME IInv, WriteStep
    PROVE  \A r \in {MICMD, MIRDH, ETXNDL, ETXNDH} :
              /\ Home(Cur.reg) # Home(r) => cells'[Home(r)] = cells[Home(r)]
              /\ Home(Cur.reg) = Home(r) /\ Cur.op = "write" => cells'[Home(r)] = Cur.data
<1> DEFINE c == Home(Cur.reg)
           g == Modified(Cur, c, cells)
           Others == {Home(MISTAT), Econ1, Home(ECON2), Home(EPKTCNT)}
<1>1. /\ cells \in [Cell -> Byte] /\ Cur \in Safe /\ Cur.op \in {"write", "set", "clear"}
      /\ cells' = g
  BY DEF IInv, TypeOK, WriteStep
<1>2. /\ \A k \in Cell : k # c /\ k \notin Others => g[k] = cells[k]
      /\ Cur.op = "write" /\ c \notin Others => g[c] = Cur.data
  BY <1>1, Written
<1>3. \A r \in {MICMD, MIRDH, ETXNDL, ETXNDH} : Home(r) \in Cell /\ Home(r) \notin Others
  BY Places DEF Cell
<1> HIDE DEF g, Others
<1> QED
  BY <1>1, <1>2, <1>3

\* What the chip does by itself.
LEMMA ChipKinds ==
    ASSUME IInv, ChipStep
    PROVE  /\ UNCHANGED <<todo, got, pc, length, memory>>
           /\ \A r \in {ETXNDL, ETXNDH, MICMD} : cells'[Home(r)] = cells[Home(r)]
           /\ TXRTS \in cells'[Econ1] => TXRTS \in cells[Econ1]
           /\ BUSY \in cells'[Home(MISTAT)] => BUSY \in cells[Home(MISTAT)]
           /\ \/ UNCHANGED answered /\ cells'[Home(MIRDH)] = cells[Home(MIRDH)]
                 /\ cells'[Home(MISTAT)] = cells[Home(MISTAT)]
              \/ BUSY \in cells[Home(MISTAT)] /\ BUSY \notin cells'[Home(MISTAT)]
                 /\ (pc = "link" /\ MIIRD \in cells[Home(MICMD)] =>
                       answered' = {2 \in cells'[Home(MIRDH)]})
<1> USE OtherCells, Places DEF net
<1>0. /\ cells \in [Cell -> Byte]
      /\ Home(ETXNDL) \in Cell /\ Home(ETXNDH) \in Cell /\ Home(MICMD) \in Cell
  BY DEF IInv, TypeOK, Cell
<1>1. CASE Transmitted
  <2>1. /\ cells' = [cells EXCEPT ![Econ1] = @ \ {TXRTS}]
        /\ UNCHANGED <<todo, got, net>>
    BY <1>1 DEF Transmitted, Econ1
  <2> QED
    BY <1>0, <2>1
<1>2. CASE Aborted
  <2>1. /\ \/ cells' = [cells EXCEPT ![Home(EIR)] = @ \cup {TXERIF}, ![Econ1] = @ \ {TXRTS}]
           \/ cells' = [cells EXCEPT ![Home(EIR)] = @ \cup {TXERIF}]
        /\ UNCHANGED <<todo, got, pc, length, memory, answered>>
    BY <1>2 DEF Aborted, Econ1
  <2> QED
    BY <1>0, <2>1
<1>3. CASE PhyDone
  <2>1. PICK link \in BOOLEAN :
           /\ cells' = [cells EXCEPT ![Home(MISTAT)] = @ \ {BUSY},
                          ![Home(MIRDH)] = IF MIIRD \notin cells[Home(MICMD)] THEN @
                                           ELSE IF link THEN {2} ELSE {}]
           /\ answered' = IF pc = "link" THEN {link} ELSE answered
    BY <1>3 DEF PhyDone
  <2>2. UNCHANGED <<todo, got, pc, length, memory>> /\ BUSY \in cells[Home(MISTAT)]
    BY <1>3 DEF PhyDone
  <2>3. MIIRD \in cells[Home(MICMD)] => cells'[Home(MIRDH)] = IF link THEN {2} ELSE {}
    BY <1>0, <2>1
  <2>4. MIIRD \in cells[Home(MICMD)] => (2 \in cells'[Home(MIRDH)]) = link
    BY <2>3
  <2>5. BUSY \notin cells'[Home(MISTAT)]
    BY <1>0, <2>1
  <2>6. /\ \A r \in {ETXNDL, ETXNDH, MICMD} : cells'[Home(r)] = cells[Home(r)]
        /\ cells'[Econ1] = cells[Econ1]
    BY <1>0, <2>1
  <2> QED
    BY <2>1, <2>2, <2>4, <2>5, <2>6
<1>4. CASE Arrive
  <2>1. /\ cells' = [cells EXCEPT ![Home(EPKTCNT)] = {0}]
        /\ UNCHANGED <<todo, got, net>>
    BY <1>4 DEF Arrive
  <2> QED
    BY <1>0, <2>1
<1> QED
  BY <1>1, <1>2, <1>3, <1>4 DEF ChipStep

\* What the program begins when a series is done.
Begins == \/ \E n \in Lengths : network_send(n)
          \/ SendBusy \/ SendError \/ SendNoError \/ SendFree
          \/ network_is_link_up \/ network_status \/ get_revision
          \/ network_broadcast_enable \/ network_broadcast_disable \/ Rewrite
          \/ network_receive \/ ReceiveNothing \/ ReceiveFrame

LEMMA BeginKinds ==
    ASSUME IInv, Begins
    PROVE  /\ todo = << >> /\ UNCHANGED <<cells, got, memory>>
           /\ Polled(todo') /\ pc' # "boot"
           /\ pc' = "link" => todo' = read_phy(17, MIRDH)
           /\ pc' = "sending" => /\ todo' = Load(length') /\ pc = "busy" /\ TXRTS \notin got
           /\ pc' # "sending" => todo' \in Seq(Calm)
           /\ pc' = "busy" => todo' # << >> /\ todo'[Len(todo')] = ReadOp(ECON1)
<1> USE PhyPolled, EasySeries
<1>0. \A s \in Seq(Easy) : Polled(s) /\ s \in Seq(Calm)
  <2>1. Easy \subseteq Harmless /\ Easy \subseteq Calm
    BY DEF Easy
  <2>2. Seq(Easy) \subseteq Seq(Harmless) /\ Seq(Easy) \subseteq Seq(Calm)
    BY <2>1, SeqMonotonic
  <2> QED
    BY <2>2, HarmlessPolled
<1>1. /\ << ReadOp(ECON1) >> \in Seq(Easy) /\ << ReadOp(EIR) >> \in Seq(Easy)
      /\ << Read(EREVID) >> \in Seq(Easy) /\ << Read(ERXFCON) >> \in Seq(Easy)
      /\ << Read(EPKTCNT) >> \in Seq(Easy) /\ << >> \in Seq(Easy)
  BY DirectEasy, OrdinaryEasy, OrdinaryRegisters, BitsAreBytes
<1>2. CASE (\E n \in Lengths : network_send(n)) \/ SendNoError
  <2>1. todo = << >> /\ todo' = << ReadOp(ECON1) >> /\ pc' = "busy"
        /\ UNCHANGED <<cells, got, memory>>
    BY <1>2 DEF network_send, SendNoError, Continue, Issue
  <2>2. todo' # << >> /\ todo'[Len(todo')] = ReadOp(ECON1)
    BY <2>1
  <2> QED
    BY <1>0, <1>1, <2>1, <2>2
<1>3. CASE SendBusy
  BY <1>0, <1>1, <1>3 DEF SendBusy, Continue, Issue
<1>4. CASE SendError
  <2> DEFINE r == ResetTransmitter
             l == << ReadOp(ECON1) >>
  <2>1. todo = << >> /\ todo' = r \o l /\ pc' = "busy" /\ UNCHANGED <<cells, got, memory>>
    BY <1>4 DEF SendError, Continue, Issue
  <2>2. r \in Seq(Easy) /\ l \in Seq(Easy) /\ Len(l) = 1 /\ l[1] = ReadOp(ECON1)
    BY <1>1
  <2> HIDE DEF r, l
  <2>3. /\ r \o l \in Seq(Easy) /\ Len(r \o l) = Len(r) + 1 /\ Len(r) \in Nat
        /\ (r \o l)[Len(r) + 1] = l[1]
    <3>1. Len(r) \in Nat
      BY <2>2, LenProperties
    <3>2. /\ r \o l \in Seq(Easy) /\ Len(r \o l) = Len(r) + Len(l)
          /\ \A i \in 1 .. Len(r) + Len(l) :
               (r \o l)[i] = IF i <= Len(r) THEN r[i] ELSE l[i - Len(r)]
      BY <2>2, ConcatProperties
    <3>3. (r \o l)[Len(r) + 1] = l[(Len(r) + 1) - Len(r)]
      BY <2>2, <3>1, <3>2
    <3> QED
      BY <2>2, <3>1, <3>2, <3>3
  <2>4. r \o l # << >>
    BY <2>3, EmptySeq
  <2> QED
    BY <1>0, <2>1, <2>2, <2>3, <2>4
<1>5. CASE SendFree
  <2>1. todo = << >> /\ todo' = Load(length) /\ pc = "busy" /\ pc' = "sending"
        /\ TXRTS \notin got /\ UNCHANGED <<cells, got, memory, length>>
    BY <1>5 DEF SendFree, Continue, Issue
  <2> QED
    BY <2>1, HarmlessPolled
<1>6. CASE network_is_link_up
  BY <1>6 DEF network_is_link_up, Continue, Issue
<1>7. CASE network_status
  <2> DEFINE r1 == read_phy(17, MIRDH)
             r2 == read_phy(17, MIRDL)
             r3 == read_phy(1, MIRDL)
  <2>1. todo = << >> /\ todo' = (r1 \o r2) \o r3 /\ pc' = "status"
        /\ UNCHANGED <<cells, got, memory>>
    BY <1>7 DEF network_status, Continue, Issue
  <2>2. /\ Polled(r1) /\ Polled(r2) /\ Polled(r3)
        /\ r1 \in Seq(Calm) /\ r2 \in Seq(Calm) /\ r3 \in Seq(Calm)
    OBVIOUS
  <2> HIDE DEF r1, r2, r3
  <2>3. Polled(r1 \o r2) /\ r1 \o r2 \in Seq(Calm)
    BY <2>2, JoinPolled, ConcatProperties
  <2>4. Polled((r1 \o r2) \o r3) /\ (r1 \o r2) \o r3 \in Seq(Calm)
    BY <2>2, <2>3, JoinPolled, ConcatProperties
  <2> QED
    BY <2>1, <2>4
<1>8. CASE get_revision \/ network_broadcast_enable \/ network_broadcast_disable
           \/ network_receive
  BY <1>0, <1>1, <1>8 DEF get_revision, network_broadcast_enable,
     network_broadcast_disable, network_receive, Continue, Issue
<1>9. CASE Rewrite
  <2>1. got \in Byte
    BY DEF IInv, TypeOK
  <2>2. got \cup {BCEN} \in Byte /\ got \ {BCEN} \in Byte
    BY <2>1 DEF Byte, BCEN
  <2>3. /\ << Write(ERXFCON, got \cup {BCEN}) >> \in Seq(Easy)
        /\ << Write(ERXFCON, got \ {BCEN}) >> \in Seq(Easy)
    BY <2>2, OrdinaryEasy, OrdinaryRegisters
  <2>4. todo = << >> /\ todo' \in Seq(Easy) /\ pc' = "rewrite"
        /\ UNCHANGED <<cells, got, memory>>
    BY <1>9, <2>3 DEF Rewrite, Continue, Issue
  <2> QED
    BY <1>0, <2>4
<1>10. CASE ReceiveNothing \/ ReceiveFrame
  BY <1>0, <1>1, <1>10 DEF ReceiveNothing, ReceiveFrame, Continue, Issue
<1> QED
  BY <1>2, <1>3, <1>4, <1>5, <1>6, <1>7, <1>8, <1>9, <1>10 DEF Begins

\* Every step is one of these.
LEMMA StepKinds ==
    ASSUME [Next]_vars
    PROVE  \/ Transfer \/ Begins \/ ChipStep \/ Restart
           \/ todo = << >> /\ pc' = "idle" /\ UNCHANGED <<todo, cells, got, memory>>
           \/ UNCHANGED <<todo, cells, got, memory, pc, length, answered>>
BY DEF Next, Program, Begins, ChipStep, Return, vars, bus, net

\* A restart, and the reset of the chip.
LEMMA RestartKinds ==
    /\ Restart => /\ todo' = network_init /\ pc' = "boot"
                  /\ UNCHANGED <<cells, memory>>
    /\ ResetCells[Home(MISTAT)] = {} /\ ResetCells[Econ1] = {}
<1>1. ResetCells[Home(MISTAT)] = {} /\ ResetCells[Econ1] = {}
  BY Places, OtherCells DEF ResetCells, ERXFCON
<1> QED
  BY <1>1 DEF Restart

-----------------------------------------------------------------------------
\* The PHY.

LEMMA InitMii == Init => MiiInv
BY StartPolled DEF Init, MiiInv

LEMMA StepMii == IInv /\ MiiInv /\ [Next]_vars => MiiInv'
<1> SUFFICES ASSUME IInv, MiiInv, [Next]_vars
             PROVE  MiiInv'
  OBVIOUS
<1> DEFINE busy == BUSY \in cells[Home(MISTAT)]
<1>0. /\ cells \in [Cell -> Byte]
      /\ busy => todo # << >> /\ Cur \in {Wait, SoftReset}
      /\ Wait.op = "poll" /\ Wait.reg = MISTAT /\ Wait.data = {BUSY} /\ SoftReset.op = "reset"
  BY DEF IInv, TypeOK, MiiInv, Cur, Wait, Poll, SoftReset
<1>1. CASE Transfer
  <2>1. CASE BankStep
    BY <2>1, OtherCells DEF BankStep, MiiInv
  <2>2. CASE ReadStep
    <3>1. /\ todo # << >> /\ Cur \in Safe /\ UNCHANGED cells
          /\ got' = cells[Home(Cur.reg)] /\ Cur.op \in {"read", "poll"}
          /\ todo' = todo \/ (todo' = Tail(todo) /\ (Cur.op = "poll" => got' \cap Cur.data = {}))
      BY <2>2 DEF ReadStep
    <3>2. CASE todo' = todo
      BY <3>1, <3>2 DEF MiiInv
    <3>3. CASE todo' = Tail(todo) /\ (Cur.op = "poll" => got' \cap Cur.data = {})
      <4>1. ~busy
        <5> SUFFICES ASSUME busy PROVE FALSE
          OBVIOUS
        <5>1. Cur = Wait
          BY <1>0, <3>1
        <5> QED
          BY <1>0, <3>1, <3>3, <5>1
      <4> QED
        BY <3>1, <3>3, <4>1, RestPolled DEF MiiInv
    <3> QED
      BY <3>1, <3>2, <3>3
  <2>3. CASE WriteStep
    <3>1. /\ todo # << >> /\ Cur \in Safe /\ Cur.op \in {"write", "set", "clear"}
          /\ cells' = Modified(Cur, Home(Cur.reg), cells) /\ todo' = Tail(todo)
      BY <2>3 DEF WriteStep
    <3>2. Cur \in Mild
      BY <1>0, <3>1, RestPolled DEF MiiInv
    <3>3. Home(Cur.reg) # Home(MISTAT)
      BY <3>1, <3>2 DEF Mild, Writes
    <3>4. ~busy
      BY <1>0, <3>1
    <3>5. BUSY \in cells'[Home(MISTAT)] => Starts(Cur)
      BY <1>0, <3>1, <3>3, <3>4, Written
    <3> QED
      BY <3>1, <3>5, RestPolled DEF MiiInv
  <2>4. CASE ResetStep
    BY <2>4, RestPolled, RestartKinds DEF ResetStep, MiiInv
  <2>5. CASE PassStep
    <3>1. todo # << >> /\ Cur.op = "none" /\ todo' = Tail(todo) /\ UNCHANGED cells
      BY <2>5 DEF PassStep
    <3>2. ~busy
      BY <1>0, <3>1
    <3> QED
      BY <3>1, <3>2, RestPolled DEF MiiInv
  <2> QED
    BY <1>1, <2>1, <2>2, <2>3, <2>4, <2>5, TransferKinds
<1>2. CASE Begins
  <2>1. todo = << >> /\ UNCHANGED cells /\ Polled(todo')
    BY <1>2, BeginKinds
  <2> QED
    BY <2>1 DEF MiiInv
<1>3. CASE ChipStep
  BY <1>3, ChipKinds DEF MiiInv
<1>4. CASE Restart
  BY <1>4, RestartKinds, StartPolled DEF MiiInv
<1>5. CASE UNCHANGED <<todo, cells>>
  BY <1>5 DEF MiiInv
<1> QED
  BY <1>1, <1>2, <1>3, <1>4, <1>5, StepKinds

\* In whatever order the calls come, and whenever the microcontroller is reset,
\* no register of the MII is written while the PHY is accessed (write_phy,
\* read_phy_high, read_phy_low).
THEOREM MiiStaysExclusive == Spec => []MiiExclusive
<1>1. MiiInv => MiiExclusive
  <2> SUFFICES ASSUME MiiInv, BUSY \in cells[Home(MISTAT)], Ready("write")
               PROVE  FALSE
    BY DEF MiiExclusive
  <2> QED
    BY DEF MiiInv, Ready, Cur, Wait, Poll, SoftReset
<1> QED
  BY <1>1, InitIInv, StepIInv, InitMii, StepMii, PTL DEF Spec

-----------------------------------------------------------------------------
\* The link.

\* The place in a series moves with its first access.
LEMMA FromTail ==
    ASSUME todo \in Seq(Access), NEW s \in Seq(Access), NEW i \in Nat \ {0},
           From(s, i), todo # << >>
    PROVE  /\ i <= Len(s) /\ Cur = s[i]
           /\ Len(Tail(todo)) = Len(s) + 1 - (i + 1)
           /\ \A j \in 1 .. Len(Tail(todo)) : Tail(todo)[j] = s[(i + 1) + j - 1]
<1> DEFINE t == Tail(todo)
<1>1. /\ t \in Seq(Access) /\ Len(t) = Len(todo) - 1 /\ Len(todo) \in Nat \ {0}
      /\ \A j \in 1 .. Len(t) : t[j] = todo[j + 1]
      /\ Cur = todo[1]
  BY HeadTailProperties, LenProperties, EmptySeq DEF Cur
<1>2. Len(todo) = Len(s) + 1 - i /\ Len(s) \in Nat
      /\ \A j \in 1 .. Len(todo) : todo[j] = s[i + j - 1]
  BY LenProperties DEF From
<1> HIDE DEF t
<1>3. i <= Len(s)
  BY <1>1, <1>2
<1>4. Cur = s[i]
  <2>1. todo[1] = s[i + 1 - 1] /\ i + 1 - 1 = i
    BY <1>1, <1>2
  <2> QED
    BY <1>1, <2>1
<1>5. Len(t) = Len(s) + 1 - (i + 1)
  BY <1>1, <1>2
<1>6. ASSUME NEW j \in 1 .. Len(t)
      PROVE  t[j] = s[(i + 1) + j - 1]
  <2>1. t[j] = todo[j + 1] /\ j + 1 \in 1 .. Len(todo)
    BY <1>1
  <2>2. todo[j + 1] = s[i + (j + 1) - 1]
    BY <1>2, <2>1
  <2>3. i + (j + 1) - 1 = (i + 1) + j - 1
    BY <2>1
  <2> QED
    BY <2>1, <2>2, <2>3
<1> QED
  BY <1>3, <1>4, <1>5, <1>6 DEF t

LEMMA FromNext ==
    ASSUME todo \in Seq(Access), NEW s \in Seq(Access), NEW i \in Nat \ {0},
           From(s, i), todo # << >>, todo' = Tail(todo)
    PROVE  i <= Len(s) /\ Cur = s[i] /\ From(s, i + 1)'
BY FromTail DEF From

\* The five accesses of the question.
LEMMA QuestionSeries ==
    /\ Question \in Seq(Access) /\ Len(Question) = 5
    /\ Question[1].op = "write" /\ Home(Question[1].reg) = Home(MIREGADR)
    /\ Question[2].op = "write" /\ Question[2].reg = MICMD /\ Question[2].data = {MIIRD}
    /\ Question[3] = Wait
    /\ Question[4].op = "write" /\ Question[4].reg = MICMD
    /\ Question[5].op = "read" /\ Question[5].reg = MIRDH
<1>1. Question \in Seq(Access)
  BY SeriesSafe, SafeIsAccess DEF Question
<1>2. /\ Len(Question) = 5
      /\ Question[1] = Write(MIREGADR, Bits(17)) /\ Question[2] = Write(MICMD, {MIIRD})
      /\ Question[3] = Wait
      /\ Question[4] = Write(MICMD, {}) /\ Question[5] = Read(MIRDH)
  BY DEF Question, read_phy, Wait
<1> QED
  BY <1>1, <1>2 DEF Write, Read

\* While anything but the loop is next, the PHY is idle.
LEMMA PhyIdle ==
    ASSUME MiiInv, todo = << >> \/ Cur.op \in {"read", "write", "set", "clear", "none"}
    PROVE  BUSY \notin cells[Home(MISTAT)]
BY DEF MiiInv, Cur, Wait, Poll, SoftReset

\* What Asking says, place by place.
LEMMA AskingStep ==
    ASSUME IInv, MiiInv, LinkInv, pc = "link", UNCHANGED <<pc, answered>>,
           BankStep \/ ReadStep \/ WriteStep
    PROVE  LinkInv'
<1> USE Places, OtherCells DEF LinkInv
<1>0. /\ cells \in [Cell -> Byte] /\ todo \in Seq(Access)
      /\ Home(MICMD) \in Cell /\ Home(MIRDH) \in Cell /\ Home(MISTAT) \in Cell
  BY DEF IInv, TypeOK, Cell
<1>1. PICK i \in 1 .. 6 : Asking(i)
  OBVIOUS
<1>2. i = 1 \/ i = 2 \/ i = 3 \/ i = 4 \/ i = 5 \/ i = 6
  OBVIOUS
<1>3. CASE BankStep
  <2>1. /\ cells'[Home(MICMD)] = cells[Home(MICMD)]
        /\ cells'[Home(MIRDH)] = cells[Home(MIRDH)]
        /\ cells'[Home(MISTAT)] = cells[Home(MISTAT)]
        /\ UNCHANGED <<todo, got>>
    BY <1>0, <1>3 DEF BankStep
  <2>2. Asking(i)'
    BY <1>1, <2>1 DEF Asking, From
  <2> QED
    BY <2>2
<1>4. ASSUME todo # << >>, todo' = Tail(todo)
      PROVE  i <= 5 /\ Cur = Question[i] /\ From(Question, i + 1)'
  <2>1. From(Question, i) /\ i \in Nat \ {0} /\ Question \in Seq(Access)
    BY <1>1, QuestionSeries DEF Asking
  <2>2. i <= Len(Question) /\ Cur = Question[i] /\ From(Question, i + 1)'
    BY <1>0, <1>4, <2>1, FromNext
  <2> QED
    BY <2>2, QuestionSeries
<1>5. CASE ReadStep
  <2>1. /\ todo # << >> /\ got' = cells[Home(Cur.reg)] /\ UNCHANGED cells
        /\ \/ Cur.op = "read" /\ todo' = Tail(todo)
           \/ /\ Cur.op = "poll"
              /\ todo' = IF got' \cap Cur.data = {} THEN Tail(todo) ELSE todo
    BY <1>5 DEF ReadStep
  <2>4. Tail(todo) # todo
    BY <1>0, <2>1, EmptySeq, HeadTailProperties, LenProperties
  <2>2. CASE todo' = todo
    <3>1. i # 6
      <4>1. Len(todo) # 0
        BY <1>0, <2>1, EmptySeq
      <4> QED
        BY <1>1, <4>1, QuestionSeries DEF Asking, From
    <3>2. Asking(i)'
      BY <1>1, <2>1, <2>2, <3>1 DEF Asking, From
    <3> QED
      BY <3>2
  <2>3. CASE todo' = Tail(todo)
    <3>1. i <= 5 /\ Cur = Question[i] /\ From(Question, i + 1)'
      BY <1>4, <2>1, <2>3
    <3>2. i = 3 \/ i = 5
      BY <1>2, <2>1, <3>1, QuestionSeries
    <3>3. CASE i = 3
      <4>1. Cur = Wait
        BY <3>1, <3>3, QuestionSeries
      <4>2. got' \cap {BUSY} = {} /\ got' = cells[Home(MISTAT)]
        BY <2>1, <2>3, <4>1, <2>4 DEF Wait, Poll
      <4>3. answered = {2 \in cells[Home(MIRDH)]}
        BY <1>1, <3>3, <4>2 DEF Asking
      <4>4. Asking(4)'
        BY <2>1, <3>1, <3>3, <4>3 DEF Asking
      <4> QED
        BY <4>4
    <3>4. CASE i = 5
      <4>1. got' = cells[Home(MIRDH)]
        BY <2>1, <3>1, <3>4, QuestionSeries
      <4>2. answered = {2 \in cells[Home(MIRDH)]}
        BY <1>1, <3>4 DEF Asking
      <4>3. Asking(6)'
        BY <3>1, <3>4, <4>1, <4>2 DEF Asking
      <4> QED
        BY <4>3
    <3> QED
      BY <3>2, <3>3, <3>4
  <2> QED
    BY <2>1, <2>2, <2>3
<1>6. CASE WriteStep
  <2>1. /\ todo # << >> /\ Cur \in Safe /\ Cur.op \in {"write", "set", "clear"}
        /\ cells' = Modified(Cur, Home(Cur.reg), cells)
        /\ todo' = Tail(todo) /\ UNCHANGED got
    BY <1>6 DEF WriteStep
  <2>2. i <= 5 /\ Cur = Question[i] /\ From(Question, i + 1)'
    BY <1>4, <2>1
  <2>3. i = 1 \/ i = 2 \/ i = 4
    BY <1>2, <2>1, <2>2, QuestionSeries DEF Wait, Poll
  <2>4. CASE i = 1
    <3>1. Asking(2)'
      BY <2>2, <2>4 DEF Asking
    <3> QED
      BY <3>1
  <2>5. CASE i = 2
    <3>1. Cur.op = "write" /\ Cur.reg = MICMD /\ Cur.data = {MIIRD}
      BY <2>2, <2>5, QuestionSeries
    <3>2. Starts(Cur)
      BY <3>1 DEF Starts, Writes
    <3>3. BUSY \in cells'[Home(MISTAT)] /\ cells'[Home(MICMD)] = {MIIRD}
      <4>1. Home(Cur.reg) = <<2, 18>>
        BY <3>1
      <4>2. BUSY \in cells'[Home(MISTAT)]
        BY <1>0, <2>1, <3>1, <3>2, Written
      <4>3. cells'[Home(MICMD)] = Cur.data
        BY <1>6, <3>1, <4>1, WriteStepCells
      <4> QED
        BY <3>1, <4>2, <4>3
    <3>4. Asking(3)'
      BY <2>2, <2>5, <3>3 DEF Asking
    <3> QED
      BY <3>4
  <2>6. CASE i = 4
    <3>1. Cur.op = "write" /\ Cur.reg = MICMD
      BY <2>2, <2>6, QuestionSeries
    <3>2. cells'[Home(MIRDH)] = cells[Home(MIRDH)]
      <4>1. Home(Cur.reg) # Home(MIRDH)
        BY <3>1
      <4> QED
        BY <1>6, <4>1, WriteStepCells
    <3>3. answered = {2 \in cells[Home(MIRDH)]}
      BY <1>1, <2>6 DEF Asking
    <3>4. Asking(5)'
      BY <2>2, <2>6, <3>2, <3>3 DEF Asking
    <3> QED
      BY <3>4
  <2> QED
    BY <2>3, <2>4, <2>5, <2>6
<1> QED
  BY <1>3, <1>5, <1>6

\* The PHY answers while the program waits for it.
LEMMA AskingChip ==
    ASSUME IInv, MiiInv, LinkInv, pc = "link", ChipStep
    PROVE  LinkInv'
<1> USE DEF LinkInv
<1>1. PICK i \in 1 .. 6 : Asking(i)
  OBVIOUS
<1>2. /\ UNCHANGED <<todo, got, pc>> /\ cells'[Home(MICMD)] = cells[Home(MICMD)]
      /\ \/ UNCHANGED answered /\ cells'[Home(MIRDH)] = cells[Home(MIRDH)]
            /\ cells'[Home(MISTAT)] = cells[Home(MISTAT)]
         \/ BUSY \in cells[Home(MISTAT)] /\ BUSY \notin cells'[Home(MISTAT)]
            /\ (pc = "link" /\ MIIRD \in cells[Home(MICMD)] =>
                  answered' = {2 \in cells'[Home(MIRDH)]})
  BY ChipKinds
<1>3. CASE /\ UNCHANGED answered /\ cells'[Home(MIRDH)] = cells[Home(MIRDH)]
           /\ cells'[Home(MISTAT)] = cells[Home(MISTAT)]
  <2>1. Asking(i)'
    BY <1>1, <1>2, <1>3 DEF Asking, From
  <2> QED
    BY <2>1
<1>4. CASE /\ BUSY \in cells[Home(MISTAT)] /\ BUSY \notin cells'[Home(MISTAT)]
           /\ (pc = "link" /\ MIIRD \in cells[Home(MICMD)] =>
                 answered' = {2 \in cells'[Home(MIRDH)]})
  <2>1. todo # << >> /\ Cur.op \in {"poll", "reset"}
    BY <1>4 DEF MiiInv, Cur, Wait, Poll, SoftReset
  <2>2. todo \in Seq(Access)
    BY DEF IInv, TypeOK
  <2>3. Len(todo) \in Nat \ {0} /\ Cur = todo[1]
    BY <2>1, <2>2, LenProperties, EmptySeq DEF Cur
  <2>4. i <= 5 /\ Cur = Question[i]
    <3>1. Len(todo) = 6 - i /\ \A j \in 1 .. Len(todo) : todo[j] = Question[i + j - 1]
      BY <1>1, QuestionSeries DEF Asking, From
    <3>2. todo[1] = Question[i + 1 - 1] /\ i + 1 - 1 = i
      BY <2>3, <3>1
    <3> QED
      BY <2>3, <3>1, <3>2
  <2>5. i = 3
    <3>1. i = 1 \/ i = 2 \/ i = 3 \/ i = 4 \/ i = 5
      BY <2>4
    <3> QED
      BY <2>1, <2>4, <3>1, QuestionSeries
  <2>6. Asking(3)'
    BY <1>1, <1>2, <1>4, <2>5 DEF Asking, From
  <2> QED
    BY <2>6
<1> QED
  BY <1>2, <1>3, <1>4

LEMMA StepLink == IInv /\ MiiInv /\ LinkInv /\ [Next]_vars => LinkInv'
<1> SUFFICES ASSUME IInv, MiiInv, LinkInv, [Next]_vars, pc' = "link"
             PROVE  LinkInv'
  BY DEF LinkInv
<1>1. CASE Transfer
  <2>1. pc = "link" /\ UNCHANGED <<pc, answered>>
    BY <1>1, TransferKinds
  <2>2. BankStep \/ ReadStep \/ WriteStep
    <3> SUFFICES ASSUME ResetStep \/ PassStep PROVE FALSE
      BY <1>1, TransferKinds
    <3>1. todo # << >> /\ Cur.op \in {"reset", "none"} /\ todo' = Tail(todo)
      BY DEF ResetStep, PassStep, SoftReset
    <3>2. PICK i \in 1 .. 6 : From(Question, i)
      BY <2>1 DEF LinkInv, Asking, Question
    <3>3. i <= 5 /\ Cur = Question[i]
      <4>1. todo \in Seq(Access) /\ Question \in Seq(Access) /\ i \in Nat \ {0}
        BY QuestionSeries DEF IInv, TypeOK
      <4> QED
        BY <3>1, <3>2, <4>1, FromNext, QuestionSeries
    <3>4. i = 1 \/ i = 2 \/ i = 3 \/ i = 4 \/ i = 5
      BY <3>3
    <3> QED
      BY <3>1, <3>3, <3>4, QuestionSeries DEF Wait, Poll
  <2> QED
    BY <2>1, <2>2, AskingStep
<1>2. CASE Begins
  <2>1. todo' = Question
    BY <1>2, BeginKinds DEF Question
  <2>2. Asking(1)'
    <3>1. Len(Question) = 5
      BY QuestionSeries
    <3>2. Len(todo') = Len(Question) + 1 - 1 /\ \A j \in 1 .. Len(todo') : todo'[j] = Question[1 + j - 1]
      BY <2>1, <3>1
    <3> QED
      BY <3>2 DEF Asking, From
  <2> QED
    BY <2>2 DEF LinkInv
<1>3. CASE ChipStep
  <2>1. pc = "link"
    BY <1>3, ChipKinds
  <2> QED
    BY <1>3, <2>1, AskingChip
<1>4. CASE Restart
  BY <1>4, RestartKinds
<1>5. CASE UNCHANGED <<todo, cells, got, memory, pc, length, answered>>
  BY <1>5 DEF LinkInv, Asking, From
<1> QED
  BY <1>1, <1>2, <1>3, <1>4, <1>5, StepKinds

\* The answer of network_is_link_up is what the PHY reported during the call,
\* never what an earlier read has left behind (network.c, read_phy_high).
THEOREM LinkStaysFresh == Spec => []LinkFresh
<1>1. Init => LinkInv
  BY DEF Init, LinkInv
<1>2. IInv /\ LinkInv => LinkFresh
  <2> SUFFICES ASSUME IInv, LinkInv, pc = "link", todo = << >>
               PROVE  answered = {2 \in got}
    BY DEF LinkFresh
  <2>1. PICK i \in 1 .. 6 : Asking(i)
    BY DEF LinkInv
  <2>2. i = 6
    <3>1. Len(todo) = 0
      OBVIOUS
    <3> QED
      BY <2>1, <3>1, QuestionSeries DEF Asking, From
  <2> QED
    BY <2>1, <2>2 DEF Asking
<1> QED
  BY <1>1, <1>2, InitIInv, StepIInv, InitMii, StepMii, StepLink, PTL DEF Spec

-----------------------------------------------------------------------------
\* The frame.

LEMMA LoadSeries ==
    ASSUME NEW n
    PROVE  /\ Load(n) \in Seq(Access) /\ Len(Load(n)) = 6
           /\ \A i \in {1, 2} : /\ Load(n)[i].op = "write"
                                /\ Home(Load(n)[i].reg) \notin {Econ1, <<0, 6>>, <<0, 7>>}
           /\ /\ Load(n)[3].op = "write" /\ Load(n)[3].reg = ETXNDL
              /\ Load(n)[3].data = Low(TXSTART_INIT + n)
           /\ /\ Load(n)[4].op = "write" /\ Load(n)[4].reg = ETXNDH
              /\ Load(n)[4].data = High(TXSTART_INIT + n)
           /\ Load(n)[5].op = "none"
           /\ Load(n)[6].op = "set" /\ Load(n)[6].reg = ECON1
<1>1. Load(n) \in Seq(Access)
  BY SeriesSafe, SafeIsAccess
<1>2. Home(EWRPTL) = <<0, 2>> /\ Home(EWRPTH) = <<0, 3>>
  BY Places DEF EWRPTL, EWRPTH
<1> DEFINE a == Write(EWRPTL, Low(TXSTART_INIT))
           b == Write(EWRPTH, High(TXSTART_INIT))
           c == Write(ETXNDL, Low(TXSTART_INIT + n))
           d == Write(ETXNDH, High(TXSTART_INIT + n))
           e == SetOp(ECON1, {TXRTS})
<1>3. Load(n) = <<a, b, c, d, UseBuffer, e>>
  BY DEF Load
<1>4. /\ a.op = "write" /\ a.reg = EWRPTL /\ b.op = "write" /\ b.reg = EWRPTH
      /\ c.op = "write" /\ c.reg = ETXNDL /\ c.data = Low(TXSTART_INIT + n)
      /\ d.op = "write" /\ d.reg = ETXNDH /\ d.data = High(TXSTART_INIT + n)
      /\ UseBuffer.op = "none" /\ e.op = "set" /\ e.reg = ECON1
  BY DEF Write, UseBuffer, SetOp
<1> HIDE DEF a, b, c, d, e
<1>5. /\ Len(Load(n)) = 6
      /\ Load(n)[1] = a /\ Load(n)[2] = b /\ Load(n)[3] = c
      /\ Load(n)[4] = d /\ Load(n)[5] = UseBuffer /\ Load(n)[6] = e
  BY <1>3
<1> QED
  BY <1>1, <1>2, <1>4, <1>5, Places

\* The registers that hold the end of the frame.
EndKept == /\ cells'[Home(ETXNDL)] = cells[Home(ETXNDL)]
           /\ cells'[Home(ETXNDH)] = cells[Home(ETXNDH)]

\* While nothing starts a transmission, nothing moves and no frame is loaded,
\* the frame that is transmitted stays as it is.
LEMMA KeepIntact ==
    ASSUME TransmitIntact, EndKept, UNCHANGED memory,
           TXRTS \in cells'[Econ1] => TXRTS \in cells[Econ1]
    PROVE  TransmitIntact'
BY DEF TransmitIntact, EndKept, Econ1

\* The transmitter when a register is written.
LEMMA WriteStarts ==
    ASSUME IInv, WriteStep
    PROVE  /\ TXRTS \in cells'[Econ1] /\ (Cur \in NoStart \/ Home(Cur.reg) # Econ1)
                 => TXRTS \in cells[Econ1]
           /\ Cur \in Calm => EndKept
<1> DEFINE c == Home(Cur.reg)
           g == Modified(Cur, c, cells)
<1>1. /\ cells \in [Cell -> Byte] /\ Cur \in Safe /\ Cur.op \in {"write", "set", "clear"}
      /\ cells' = g
  BY DEF IInv, TypeOK, WriteStep
<1>2. TXRTS \in g[Econ1] /\ (c = Econ1 /\ Cur.op = "set" => TXRTS \notin Cur.data)
         => TXRTS \in cells[Econ1]
  BY <1>1, Written
<1>3. Cur \in NoStart => (c = Econ1 /\ Cur.op = "set" => TXRTS \notin Cur.data)
  BY DEF NoStart
<1>4. Cur \in Calm => c # Home(ETXNDL) /\ c # Home(ETXNDH)
  BY <1>1 DEF Calm, Writes
<1>5. Cur \in Calm => EndKept
  BY <1>4, WriteStepCells DEF EndKept
<1> HIDE DEF g
<1> QED
  BY <1>1, <1>2, <1>3, <1>5

\* A transfer during the start.
LEMMA BootTransfer ==
    ASSUME IInv, SendInv, Transfer, pc = "boot"
    PROVE  SendInv'
<1> DEFINE S == NoStart \cup {SoftReset}
<1>0. /\ cells \in [Cell -> Byte] /\ TransmitIntact /\ todo \in Seq(S)
      /\ TXRTS \in cells[Econ1] => todo # << >> /\ Cur = SoftReset
      /\ SoftReset.op = "reset"
  BY DEF IInv, TypeOK, SendInv, Cur, SoftReset
<1>1. UNCHANGED <<pc, length>>
  BY TransferKinds
<1> SUFFICES /\ TransmitIntact' /\ todo' \in Seq(S)
             /\ TXRTS \in cells'[Econ1] => todo' # << >> /\ Head(todo') = SoftReset
  BY <1>1 DEF SendInv
<1>2. todo # << >> => Cur \in S /\ Tail(todo) \in Seq(S)
  <2> HIDE DEF S
  <2> QED
    BY <1>0, HeadTailProperties DEF Cur
<1> HIDE DEF S
<1>3. CASE BankStep /\ UNCHANGED memory
  <2>1. /\ TXRTS \in cells'[Econ1] <=> TXRTS \in cells[Econ1]
        /\ EndKept /\ UNCHANGED todo
    BY <1>3, Places DEF BankStep, EndKept, Cell, TXRTS, BSEL
  <2>2. TransmitIntact'
    BY <1>0, <1>3, <2>1, KeepIntact
  <2> QED
    BY <1>0, <2>1, <2>2 DEF Cur
<1>4. CASE (ReadStep \/ PassStep) /\ UNCHANGED <<cells, memory>>
  <2>1. todo # << >> /\ todo' \in {todo, Tail(todo)} /\ Cur.op # "reset"
    BY <1>4, SafeHome DEF ReadStep, PassStep
  <2>2. TXRTS \notin cells[Econ1]
    BY <1>0, <2>1
  <2>3. TransmitIntact'
    BY <1>0, <1>4 DEF TransmitIntact
  <2> QED
    BY <1>0, <1>2, <1>4, <2>1, <2>2, <2>3
<1>5. CASE WriteStep
  <2>1. todo # << >> /\ todo' = Tail(todo) /\ Cur.op \in {"write", "set", "clear"}
    BY <1>5 DEF WriteStep
  <2>2. Cur \in NoStart /\ TXRTS \notin cells[Econ1]
    BY <1>0, <1>2, <2>1 DEF S
  <2>3. TXRTS \notin cells'[Econ1]
    BY <1>5, <2>2, WriteStarts
  <2> QED
    BY <1>2, <2>1, <2>3 DEF TransmitIntact, Econ1
<1>6. CASE ResetStep
  <2>1. TXRTS \notin cells'[Econ1] /\ todo' = Tail(todo) /\ todo # << >>
    BY <1>6, RestartKinds DEF ResetStep
  <2> QED
    BY <1>2, <2>1 DEF TransmitIntact, Econ1
<1>7. ReadStep => UNCHANGED cells
  BY DEF ReadStep
<1>8. PassStep => UNCHANGED cells
  BY DEF PassStep
<1>9. pc # "sending"
  OBVIOUS
<1> QED
  BY <1>3, <1>4, <1>5, <1>6, <1>7, <1>8, <1>9, TransferKinds

\* A transfer while a frame is loaded.
LEMMA LoadTransfer ==
    ASSUME IInv, SendInv, Transfer, pc = "sending"
    PROVE  SendInv'
<1>0. /\ cells \in [Cell -> Byte] /\ TransmitIntact /\ todo \in Seq(Access)
      /\ Home(ETXNDL) # Econ1 /\ Home(ETXNDH) # Econ1 /\ Home(ETXNDL) # Home(ETXNDH)
  BY Places DEF IInv, TypeOK, SendInv
<1>1. UNCHANGED <<pc, length>>
  BY TransferKinds
<1>2. PICK i \in 1 .. 7 : Loading(i)
  BY DEF SendInv
<1>3. i = 1 \/ i = 2 \/ i = 3 \/ i = 4 \/ i = 5 \/ i = 6 \/ i = 7
  OBVIOUS
<1> SUFFICES TransmitIntact' /\ \E k \in 1 .. 7 : Loading(k)'
  BY <1>1 DEF SendInv
<1>4. ASSUME todo # << >>, todo' = Tail(todo)
      PROVE  i <= 6 /\ Cur = Load(length)[i] /\ From(Load(length), i + 1)'
  <2>1. From(Load(length), i) /\ i \in Nat \ {0} /\ Load(length) \in Seq(Access)
    BY <1>2, LoadSeries DEF Loading
  <2>2. /\ i <= Len(Load(length)) /\ Cur = Load(length)[i]
        /\ Len(Tail(todo)) = Len(Load(length)) + 1 - (i + 1)
        /\ \A j \in 1 .. Len(Tail(todo)) : Tail(todo)[j] = Load(length)[(i + 1) + j - 1]
    BY <1>0, <1>4, <2>1, FromTail
  <2> QED
    BY <1>1, <1>4, <2>2, LoadSeries DEF From
<1>5. CASE BankStep /\ UNCHANGED memory
  <2>1. /\ TXRTS \in cells'[Econ1] <=> TXRTS \in cells[Econ1]
        /\ EndKept /\ UNCHANGED todo
    BY <1>5, Places DEF BankStep, EndKept, Cell, TXRTS, BSEL
  <2>2. TransmitIntact'
    BY <1>0, <1>5, <2>1, KeepIntact
  <2>3. Loading(i)'
    BY <1>1, <1>2, <1>5, <2>1 DEF Loading, From, EndKept
  <2> QED
    BY <2>2, <2>3
<1>6. CASE ReadStep
  <2>1. /\ todo # << >> /\ Cur.op \in {"read", "poll"}
        /\ todo' = todo \/ todo' = Tail(todo)
    BY <1>6 DEF ReadStep
  <2>2. i <= 6 /\ Cur = Load(length)[i]
    <3>1. From(Load(length), i) /\ i \in Nat \ {0} /\ Load(length) \in Seq(Access)
      BY <1>2, LoadSeries DEF Loading
    <3>2. i <= Len(Load(length)) /\ Cur = Load(length)[i]
      BY <1>0, <2>1, <3>1, FromTail
    <3> QED
      BY <3>2, LoadSeries
  <2> QED
    BY <1>3, <2>1, <2>2, LoadSeries
<1>7. CASE WriteStep /\ UNCHANGED memory
  <2>1. /\ todo # << >> /\ todo' = Tail(todo) /\ Cur.op \in {"write", "set", "clear"}
    BY <1>7 DEF WriteStep
  <2>2. i <= 6 /\ Cur = Load(length)[i] /\ From(Load(length), i + 1)'
    BY <1>4, <2>1
  <2>3. TXRTS \notin cells[Econ1]
    BY <1>2, <2>2 DEF Loading
  <2>4. i = 1 \/ i = 2 \/ i = 3 \/ i = 4 \/ i = 6
    BY <1>3, <2>1, <2>2, LoadSeries
  <2>5. Home(Cur.reg) # Econ1 => TXRTS \notin cells'[Econ1] /\ TransmitIntact'
    BY <1>7, <2>3, WriteStarts DEF TransmitIntact, Econ1
  <2>6. CASE i = 1 \/ i = 2
    <3>1. Home(Cur.reg) # Econ1
      BY <2>2, <2>6, LoadSeries
    <3>2. Loading(i + 1)' /\ i + 1 \in 1 .. 7
      BY <1>1, <2>2, <2>5, <2>6, <3>1 DEF Loading
    <3> QED
      BY <2>5, <3>1, <3>2
  <2>7. CASE i = 3
    <3>1. Cur.op = "write" /\ Cur.reg = ETXNDL /\ Cur.data = Low(TXSTART_INIT + length)
      BY <2>2, <2>7, LoadSeries
    <3>2. cells'[Home(ETXNDL)] = Low(TXSTART_INIT + length)
      BY <1>7, <3>1, WriteStepCells
    <3>3. Loading(4)'
      BY <1>0, <1>1, <2>2, <2>5, <2>7, <3>1, <3>2 DEF Loading
    <3> QED
      BY <1>0, <2>5, <3>1, <3>3
  <2>8. CASE i = 4
    <3>1. Cur.op = "write" /\ Cur.reg = ETXNDH /\ Cur.data = High(TXSTART_INIT + length)
      BY <2>2, <2>8, LoadSeries
    <3>2. /\ cells'[Home(ETXNDH)] = High(TXSTART_INIT + length)
          /\ cells'[Home(ETXNDL)] = cells[Home(ETXNDL)]
      <4>1. Home(Cur.reg) # Home(ETXNDL)
        BY <1>0, <3>1
      <4> QED
        BY <1>7, <3>1, <4>1, WriteStepCells
    <3>3. cells[Home(ETXNDL)] = Low(TXSTART_INIT + length)
      BY <1>2, <2>8 DEF Loading
    <3>4. Loading(5)'
      BY <1>0, <1>1, <2>2, <2>5, <2>8, <3>1, <3>2, <3>3 DEF Loading
    <3> QED
      BY <1>0, <2>5, <3>1, <3>4
  <2>9. CASE i = 6
    <3>1. Home(Cur.reg) = Econ1
      BY <2>2, <2>9, LoadSeries DEF Econ1
    <3>2. EndKept
      <4>1. Home(Cur.reg) # Home(ETXNDL) /\ Home(Cur.reg) # Home(ETXNDH)
        BY <1>0, <3>1
      <4> QED
        BY <1>7, <4>1, WriteStepCells DEF EndKept
    <3>3. /\ cells[Home(ETXNDL)] = Low(TXSTART_INIT + length)
          /\ cells[Home(ETXNDH)] = High(TXSTART_INIT + length)
          /\ memory = length
      BY <1>2, <2>9 DEF Loading
    <3>4. TransmitIntact'
      BY <1>7, <3>2, <3>3 DEF TransmitIntact, EndKept
    <3>5. Loading(7)'
      BY <1>1, <1>7, <2>2, <2>9, <3>2, <3>3 DEF Loading, EndKept
    <3> QED
      BY <3>4, <3>5
  <2> QED
    BY <2>4, <2>6, <2>7, <2>8, <2>9
<1>8. CASE ResetStep
  <2>1. todo # << >> /\ todo' = Tail(todo) /\ Cur.op = "reset"
    BY <1>8 DEF ResetStep, SoftReset
  <2>2. i <= 6 /\ Cur = Load(length)[i]
    BY <1>4, <2>1
  <2> QED
    BY <1>3, <2>1, <2>2, LoadSeries
<1>9. CASE PassStep /\ memory' = length
  <2>1. todo # << >> /\ todo' = Tail(todo) /\ Cur.op = "none" /\ UNCHANGED cells
    BY <1>9 DEF PassStep
  <2>2. i <= 6 /\ Cur = Load(length)[i] /\ From(Load(length), i + 1)'
    BY <1>4, <2>1
  <2>3. i = 5
    BY <1>3, <2>1, <2>2, LoadSeries
  <2>4. /\ TXRTS \notin cells[Econ1]
        /\ cells[Home(ETXNDL)] = Low(TXSTART_INIT + length)
        /\ cells[Home(ETXNDH)] = High(TXSTART_INIT + length)
    BY <1>2, <2>3 DEF Loading
  <2>5. Loading(6)'
    BY <1>1, <1>9, <2>1, <2>2, <2>3, <2>4 DEF Loading
  <2>6. TransmitIntact'
    BY <2>1, <2>4 DEF TransmitIntact, Econ1
  <2> QED
    BY <2>5, <2>6
<1> QED
  BY <1>5, <1>6, <1>7, <1>8, <1>9, TransferKinds

\* Any other transfer.
LEMMA CalmTransfer ==
    ASSUME IInv, SendInv, Transfer, pc \notin {"boot", "sending"}
    PROVE  SendInv'
<1>0. /\ cells \in [Cell -> Byte] /\ TransmitIntact /\ todo \in Seq(Calm)
  BY DEF IInv, TypeOK, SendInv
<1>1. UNCHANGED <<pc, length>>
  BY TransferKinds
<1> DEFINE Knows == IF todo = << >> THEN TXRTS \notin got => TXRTS \notin cells[Econ1]
                                    ELSE todo[Len(todo)] = ReadOp(ECON1)
<1>2. pc = "busy" => Knows
  BY DEF SendInv
<1> SUFFICES TransmitIntact' /\ todo' \in Seq(Calm) /\ (pc = "busy" => Knows')
  BY <1>1 DEF SendInv
<1>3. todo # << >> => /\ Cur \in Calm /\ Cur \in Safe /\ Tail(todo) \in Seq(Calm)
                      /\ IF Tail(todo) = << >> THEN todo[Len(todo)] = Cur
                         ELSE Tail(todo)[Len(Tail(todo))] = todo[Len(todo)]
  <2> SUFFICES ASSUME todo # << >>
               PROVE  /\ Cur \in Calm /\ Cur \in Safe /\ Tail(todo) \in Seq(Calm)
                      /\ IF Tail(todo) = << >> THEN todo[Len(todo)] = Cur
                         ELSE Tail(todo)[Len(Tail(todo))] = todo[Len(todo)]
    OBVIOUS
  <2> DEFINE t == Tail(todo)
  <2>1. /\ t \in Seq(Calm) /\ Len(t) = Len(todo) - 1 /\ Len(todo) \in Nat \ {0}
        /\ \A j \in 1 .. Len(t) : t[j] = todo[j + 1]
        /\ Cur = todo[1] /\ Cur \in Calm
    BY <1>0, HeadTailProperties, LenProperties, EmptySeq DEF Cur
  <2> HIDE DEF t
  <2>2. Cur \in Safe
    BY <2>1 DEF Calm, NoStart
  <2>3. CASE t = << >>
    <3>1. Len(t) = 0
      BY <2>3
    <3>2. Len(todo) = 1
      BY <2>1, <3>1
    <3> QED
      BY <2>1, <2>2, <2>3, <3>2 DEF t
  <2>4. CASE t # << >>
    <3>1. Len(t) \in 1 .. Len(t)
      BY <2>1, <2>4, EmptySeq
    <3>2. t[Len(t)] = todo[Len(t) + 1] /\ Len(t) + 1 = Len(todo)
      BY <2>1, <3>1
    <3> QED
      BY <2>1, <2>2, <2>4, <3>2 DEF t
  <2> QED
    BY <2>3, <2>4
<1>4. ASSUME todo # << >>, todo' = Tail(todo), Cur.op # "read", pc = "busy"
      PROVE  Knows'
  <2>1. todo[Len(todo)] # Cur
    BY <1>2, <1>4 DEF ReadOp
  <2> QED
    BY <1>2, <1>3, <1>4, <2>1
<1> HIDE DEF Knows
<1>5. CASE BankStep /\ UNCHANGED memory
  <2>1. /\ TXRTS \in cells'[Econ1] <=> TXRTS \in cells[Econ1]
        /\ EndKept /\ UNCHANGED <<todo, got>>
    BY <1>5, Places DEF BankStep, EndKept, Cell, TXRTS, BSEL
  <2>2. TransmitIntact'
    BY <1>0, <1>5, <2>1, KeepIntact
  <2>3. Knows => Knows'
    BY <2>1 DEF Knows
  <2> QED
    BY <1>0, <1>2, <2>1, <2>2, <2>3
<1>6. CASE ReadStep /\ UNCHANGED memory
  <2>1. /\ todo # << >> /\ got' = cells[Home(Cur.reg)] /\ UNCHANGED cells
        /\ todo' = todo \/ todo' = Tail(todo)
    BY <1>6 DEF ReadStep
  <2>2. TransmitIntact'
    BY <1>0, <1>6, <2>1 DEF TransmitIntact
  <2>3. todo' \in Seq(Calm)
    BY <1>0, <1>3, <2>1
  <2>4. pc = "busy" => Knows'
    <3> SUFFICES ASSUME pc = "busy"
                 PROVE  Knows'
      OBVIOUS
    <3>1. todo[Len(todo)] = ReadOp(ECON1)
      BY <1>2, <2>1 DEF Knows
    <3>2. CASE todo' = << >>
      <4>1. Cur = ReadOp(ECON1)
        BY <1>3, <2>1, <3>1, <3>2
      <4>2. got' = cells[Econ1]
        BY <2>1, <4>1 DEF ReadOp, Econ1
      <4> QED
        BY <2>1, <3>2, <4>2 DEF Knows
    <3>3. CASE todo' # << >>
      <4>1. todo'[Len(todo')] = todo[Len(todo)]
        BY <1>3, <2>1, <3>3
      <4> QED
        BY <3>1, <3>3, <4>1 DEF Knows
    <3> QED
      BY <3>2, <3>3
  <2> QED
    BY <2>2, <2>3, <2>4
<1>7. CASE WriteStep /\ UNCHANGED memory
  <2>1. todo # << >> /\ todo' = Tail(todo) /\ Cur.op \in {"write", "set", "clear"}
    BY <1>7 DEF WriteStep
  <2>2. Cur \in Calm /\ Cur \in NoStart
    BY <1>3, <2>1 DEF Calm
  <2>3. EndKept /\ (TXRTS \in cells'[Econ1] => TXRTS \in cells[Econ1])
    BY <1>7, <2>2, WriteStarts
  <2>4. TransmitIntact'
    BY <1>0, <1>7, <2>3, KeepIntact
  <2> QED
    BY <1>3, <1>4, <2>1, <2>4
<1>8. CASE ResetStep
  <2>1. todo # << >> /\ Cur.op = "reset"
    BY <1>8 DEF ResetStep, SoftReset
  <2> QED
    BY <1>3, <2>1, SafeHome
<1>9. CASE PassStep /\ UNCHANGED memory
  <2>1. todo # << >> /\ todo' = Tail(todo) /\ Cur.op = "none" /\ UNCHANGED cells
    BY <1>9 DEF PassStep
  <2>2. TransmitIntact'
    BY <1>0, <1>9, <2>1 DEF TransmitIntact
  <2> QED
    BY <1>3, <1>4, <2>1, <2>2
<1> QED
  BY <1>5, <1>6, <1>7, <1>8, <1>9, TransferKinds

LEMMA InitSend == Init => SendInv
<1> SUFFICES ASSUME Init
             PROVE  SendInv
  OBVIOUS
<1>1. PICK b \in SUBSET BSEL : cells = [ResetCells EXCEPT ![Home(ECON1)] = b]
  BY DEF Init
<1>2. TXRTS \notin cells[Econ1]
  BY <1>1, OtherCells DEF ResetCells, Econ1, TXRTS, BSEL
<1> QED
  BY <1>2, StartPolled DEF Init, SendInv, TransmitIntact, Econ1

LEMMA StepSend == IInv /\ SendInv /\ [Next]_vars => SendInv'
<1> SUFFICES ASSUME IInv, SendInv, [Next]_vars
             PROVE  SendInv'
  OBVIOUS
<1>1. CASE Transfer
  BY <1>1, BootTransfer, LoadTransfer, CalmTransfer
<1>2. CASE Begins
  <2>1. /\ todo = << >> /\ UNCHANGED <<cells, got, memory>> /\ pc' # "boot"
        /\ pc' = "sending" => todo' = Load(length') /\ pc = "busy" /\ TXRTS \notin got
        /\ pc' # "sending" => todo' \in Seq(Calm)
        /\ pc' = "busy" => todo' # << >> /\ todo'[Len(todo')] = ReadOp(ECON1)
    BY <1>2, BeginKinds
  <2>2. TransmitIntact'
    BY <2>1 DEF SendInv, TransmitIntact
  <2>3. pc' = "sending" => Loading(1)'
    <3> SUFFICES ASSUME pc' = "sending"
                 PROVE  Loading(1)'
      OBVIOUS
    <3>1. TXRTS \notin cells'[Econ1]
      BY <2>1 DEF SendInv
    <3>2. Len(todo') = Len(Load(length')) + 1 - 1
          /\ \A j \in 1 .. Len(todo') : todo'[j] = Load(length')[1 + j - 1]
      <4>1. Len(Load(length')) = 6
        BY LoadSeries
      <4> QED
        BY <2>1, <4>1
    <3> QED
      BY <3>1, <3>2 DEF Loading, From
  <2> QED
    BY <2>1, <2>2, <2>3 DEF SendInv
<1>3. CASE ChipStep
  <2>1. /\ UNCHANGED <<todo, got, pc, length, memory>> /\ EndKept
        /\ TXRTS \in cells'[Econ1] => TXRTS \in cells[Econ1]
    BY <1>3, ChipKinds DEF EndKept
  <2>2. TransmitIntact'
    BY <2>1, KeepIntact DEF SendInv
  <2>3. \A i \in 1 .. 7 : Loading(i) => Loading(i)'
    BY <2>1 DEF Loading, From, EndKept
  <2> QED
    BY <2>1, <2>2, <2>3 DEF SendInv
<1>4. CASE Restart
  <2>1. todo' = network_init /\ pc' = "boot" /\ UNCHANGED <<cells, memory>>
    BY <1>4, RestartKinds
  <2>2. TransmitIntact'
    BY <2>1 DEF SendInv, TransmitIntact
  <2> QED
    BY <2>1, <2>2, StartPolled DEF SendInv
<1>5. CASE todo = << >> /\ pc' = "idle" /\ UNCHANGED <<todo, cells, got, memory>>
  <2>1. TransmitIntact'
    BY <1>5 DEF SendInv, TransmitIntact
  <2>2. todo' \in Seq(Calm)
    BY <1>5, EmptySeq
  <2> QED
    BY <1>5, <2>1, <2>2 DEF SendInv
<1>6. CASE UNCHANGED <<todo, cells, got, memory, pc, length, answered>>
  BY <1>6 DEF SendInv, TransmitIntact, Loading, From
<1> QED
  BY <1>1, <1>2, <1>3, <1>4, <1>5, <1>6, StepKinds

\* The chip never transmits anything but the frame network_send was called
\* with, to its last byte, whatever comes between (network.c:548-581).
THEOREM TransmitStaysIntact == Spec => []TransmitIntact
<1>1. SendInv => TransmitIntact
  BY DEF SendInv
<1> QED
  BY <1>1, InitIInv, StepIInv, InitSend, StepSend, PTL DEF Spec
=============================================================================
