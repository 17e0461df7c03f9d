-------------------------------- MODULE Net --------------------------------
(***************************************************************************)
(* The driver of the network chip (net/network.c) but for the receive      *)
(* ring: start-up, sending, the PHY and the broadcast filter, each a       *)
(* series of register accesses, against the chip that transmits, receives  *)
(* and talks to its PHY meanwhile.                                         *)
(***************************************************************************)
EXTENDS Registers

CONSTANT Lengths   \* the lengths of frames to send, stand for the frames

ASSUME LengthsAssumption == Lengths \subseteq 1 .. 1023

VARIABLES
    pc,        \* what the program does, or "idle"
    length,    \* the frame network_send was called with
    memory,    \* the frame in the transmit memory of the chip
    stuck,     \* the transmitter has stalled
    answered   \* what the PHY has answered since the call that asks for the link

net == <<pc, length, memory, stuck, answered>>
vars == <<bus, net>>

-----------------------------------------------------------------------------
\* The series of accesses.

TXSTART_INIT == 6656
TXSTOP_INIT == 8191
RXSTART_INIT == 0
RXSTOP_INIT == 6655
BUFFER_IN_SIZE == 1023

BufferSetup == <<
    Write(ETXSTL, Low(TXSTART_INIT)), Write(ETXSTH, High(TXSTART_INIT)),
    Write(ETXNDL, Low(TXSTOP_INIT)), Write(ETXNDH, High(TXSTOP_INIT)),
    Write(ERXSTL, Low(RXSTART_INIT)), Write(ERXSTH, High(RXSTART_INIT)),
    Write(ERXNDL, Low(RXSTOP_INIT)), Write(ERXNDH, High(RXSTOP_INIT)),
    Write(ERXRDPTL, Low(RXSTART_INIT)), Write(ERXRDPTH, High(RXSTART_INIT)) >>

FilterSetup == <<
    Write(ERXFCON, {7, 5, 4}), Write(EPMM0, Bits(63)), Write(EPMM1, Bits(48)),
    Write(EPMCSL, Bits(249)), Write(EPMCSH, Bits(247)) >>

MacSetup == <<
    Write(MACON1, {0, 3, 2}), Write(MACON2, {}), Write(MACON3, {5, 4, 1}),
    Write(MACON4, {}), Write(MABBIPG, Bits(18)), Write(MAIPGL, Bits(18)),
    Write(MAIPGH, Bits(12)), Write(MAMXFLL, Low(BUFFER_IN_SIZE)),
    Write(MAMXFLH, High(BUFFER_IN_SIZE)) >>

AddressSetup == <<
    Write(MAADR0, Bits(46)), Write(MAADR1, Bits(68)), Write(MAADR2, Bits(101)),
    Write(MAADR3, Bits(118)), Write(MAADR4, Bits(0)), Write(MAADR5, Bits(1)) >>

\* The mutant does not wait until the PHY has taken the data.
write_phy_NoWait(address, data) == <<
    Write(MIREGADR, Bits(address)), Write(MIWRL, Low(data)),
    Write(MIWRH, High(data)) >>

write_phy(address, data) == <<
    Write(MIREGADR, Bits(address)), Write(MIWRL, Low(data)),
    Write(MIWRH, High(data)), Poll(MISTAT, {BUSY}) >>

\* The mutant reads the answer without waiting for it.
read_phy_NoWait(address, half) == <<
    Write(MIREGADR, Bits(address)), Write(MICMD, {MIIRD}),
    Write(MICMD, {}), Read(half) >>

\* Both read_phy_high and read_phy_low.
read_phy(address, half) == <<
    Write(MIREGADR, Bits(address)), Write(MICMD, {MIIRD}),
    Poll(MISTAT, {BUSY}), Write(MICMD, {}), Read(half) >>

General == <<
    Select(ECON1), SetOp(EIE, {7, 6}), SetOp(ECON1, {RXEN}), Write(ECOCON, {}) >>

network_init == <<SoftReset>> \o BufferSetup \o FilterSetup \o MacSetup
    \o AddressSetup \o write_phy(16, 256) \o write_phy(20, 1142) \o General

Load(n) == <<
    Write(EWRPTL, Low(TXSTART_INIT)), Write(EWRPTH, High(TXSTART_INIT)),
    Write(ETXNDL, Low(TXSTART_INIT + n)), Write(ETXNDH, High(TXSTART_INIT + n)),
    UseBuffer, SetOp(ECON1, {TXRTS}) >>

ResetTransmitter == << SetOp(ECON1, {TXRST}), ClearOp(ECON1, {TXRST}) >>

\* What network_receive does with a frame; the addresses are those of RxRing.
Fetch == <<
    Write(ERDPTL, {}), Write(ERDPTH, {}), UseBuffer,
    Write(ERXRDPTL, {}), Write(ERXRDPTH, {}), SetOp(ECON2, {PKTDEC}) >>

-----------------------------------------------------------------------------
NoFrame == 0

Init == /\ bank = 0 /\ switching = FALSE /\ todo = network_init /\ got = {}
        \* The microcontroller alone may have been reset.
        /\ \E b \in SUBSET BSEL : cells = [ResetCells EXCEPT ![Home(ECON1)] = b]
        /\ pc = "boot"
        /\ length = NoFrame /\ memory = NoFrame
        /\ stuck = FALSE
        /\ answered = {}

\* The program goes on with the next series when the last one is done.
Continue(from, to, series) ==
    /\ pc = from /\ pc' = to
    /\ Issue(series)
    /\ UNCHANGED <<bank, switching, cells, got, memory, stuck>>

Return == /\ pc \in {"boot", "sending", "rewrite", "status", "revision", "link", "fetch"}
          /\ todo = << >>
          /\ pc' = "idle" /\ length' = NoFrame /\ answered' = {}
          /\ UNCHANGED <<bus, memory, stuck>>

\* network_send: wait for the transmitter, load the frame, transmit it.
\* The mutant counts the checksum that the chip appends.
network_send_WithCrc(n) == /\ Continue("idle", "busy", <<ReadOp(ECON1)>>)
                           /\ length' = n + 4
                           /\ UNCHANGED answered

network_send(n) == /\ Continue("idle", "busy", <<ReadOp(ECON1)>>)
                   /\ length' = n
                   /\ UNCHANGED answered

SendBusy == /\ TXRTS \in got
            /\ Continue("busy", "error", <<ReadOp(EIR)>>)
            /\ UNCHANGED <<length, answered>>

\* The mutant does not know of the stalled transmitter.
SendError_Ignored == /\ TXERIF \in got
                     /\ Continue("error", "busy", <<ReadOp(ECON1)>>)
                     /\ UNCHANGED <<length, answered>>

SendError == /\ TXERIF \in got
             /\ Continue("error", "busy", ResetTransmitter \o <<ReadOp(ECON1)>>)
             /\ UNCHANGED <<length, answered>>

SendNoError == /\ TXERIF \notin got
               /\ Continue("error", "busy", <<ReadOp(ECON1)>>)
               /\ UNCHANGED <<length, answered>>

\* The mutant does not wait for the end of the last transmission.
SendFree_Unchecked == /\ Continue("busy", "sending", Load(length))
                      /\ UNCHANGED <<length, answered>>

SendFree == /\ TXRTS \notin got
            /\ Continue("busy", "sending", Load(length))
            /\ UNCHANGED <<length, answered>>

network_is_link_up == /\ Continue("idle", "link", read_phy(17, MIRDH))
                      /\ answered' = {}
                      /\ UNCHANGED length

network_status ==
    /\ Continue("idle", "status",
                read_phy(17, MIRDH) \o read_phy(17, MIRDL) \o read_phy(1, MIRDL))
    /\ UNCHANGED <<length, answered>>

get_revision == /\ Continue("idle", "revision", <<Read(EREVID)>>)
                /\ UNCHANGED <<length, answered>>

network_broadcast_enable == /\ Continue("idle", "enable", <<Read(ERXFCON)>>)
                            /\ UNCHANGED <<length, answered>>

network_broadcast_disable == /\ Continue("idle", "disable", <<Read(ERXFCON)>>)
                             /\ UNCHANGED <<length, answered>>

Rewrite == /\ \/ Continue("enable", "rewrite", <<Write(ERXFCON, got \cup {BCEN})>>)
              \/ Continue("disable", "rewrite", <<Write(ERXFCON, got \ {BCEN})>>)
           /\ UNCHANGED <<length, answered>>

network_receive == /\ Continue("idle", "count", <<Read(EPKTCNT)>>)
                   /\ UNCHANGED <<length, answered>>

ReceiveNothing == /\ got = {}
                  /\ Continue("count", "idle", << >>)
                  /\ UNCHANGED <<length, answered>>

ReceiveFrame == /\ got # {}
                /\ Continue("count", "fetch", Fetch)
                /\ UNCHANGED <<length, answered>>

\* One transfer to the chip.
Transfer ==
    /\ \/ /\ ClearBank \/ SelectBank \/ ReadReg \/ PollReg
          /\ UNCHANGED <<memory, stuck>>
       \/ /\ ModifyReg
          /\ stuck' = (stuck /\ TXRTS \in cells'[Home(ECON1)])
          /\ UNCHANGED memory
       \/ /\ ResetChip
          /\ stuck' = FALSE
          /\ memory' = NoFrame
       \/ /\ NoRegister
          /\ memory' = IF pc = "sending" THEN length ELSE memory
          /\ UNCHANGED stuck
    /\ UNCHANGED <<pc, length, answered>>

Program == \/ \E n \in Lengths : network_send(n)
           \/ SendBusy \/ SendError \/ SendNoError \/ SendFree
           \/ network_is_link_up \/ network_status \/ get_revision
           \/ network_broadcast_enable \/ network_broadcast_disable \/ Rewrite
           \/ network_receive \/ ReceiveNothing \/ ReceiveFrame
           \/ Return \/ Transfer

-----------------------------------------------------------------------------
\* The chip and its surroundings.

Transmitting == TXRTS \in cells[Home(ECON1)] /\ ~stuck

Transmitted == /\ Transmitting
               /\ cells' = [cells EXCEPT ![Home(ECON1)] = @ \ {TXRTS}]
               /\ UNCHANGED <<bank, switching, todo, got, net>>

\* An aborted transmission sets TXERIF; it may also stall the transmitter.
Aborted ==
    /\ Transmitting
    /\ \/ /\ cells' = [cells EXCEPT ![Home(EIR)] = @ \cup {TXERIF},
                                    ![Home(ECON1)] = @ \ {TXRTS}]
          /\ UNCHANGED stuck
       \/ /\ cells' = [cells EXCEPT ![Home(EIR)] = @ \cup {TXERIF}]
          /\ stuck' = TRUE
    /\ UNCHANGED <<bank, switching, todo, got, pc, length, memory, answered>>

\* PHSTAT2 tells whether there is a link at this moment.
PhyDone ==
    /\ BUSY \in cells[Home(MISTAT)]
    /\ \E link \in BOOLEAN :
         /\ cells' = [cells EXCEPT
                ![Home(MISTAT)] = @ \ {BUSY},
                ![Home(MIRDH)] = IF MIIRD \notin cells[Home(MICMD)] THEN @
                                 ELSE IF link THEN {2} ELSE {}]
         /\ answered' = IF pc = "link" THEN {link} ELSE answered
    /\ UNCHANGED <<bank, switching, todo, got, pc, length, memory, stuck>>

Arrive == /\ RXEN \in cells[Home(ECON1)]
          /\ cells' = [cells EXCEPT ![Home(EPKTCNT)] = {0}]
          /\ UNCHANGED <<bank, switching, todo, got, net>>

\* The microcontroller is reset, the chip is not.
Restart == /\ bank' = 0 /\ switching' = FALSE /\ todo' = network_init /\ got' = {}
           /\ pc' = "boot" /\ length' = NoFrame /\ answered' = {}
           /\ UNCHANGED <<cells, memory, stuck>>

Next == \/ Program
        \/ Transmitted \/ Aborted \/ PhyDone \/ Arrive
        \/ Restart

Spec == Init /\ [][Next]_vars

\* The program runs; the chip ends a transmission or stalls, and the PHY answers.
FairSpec == /\ Spec
            /\ WF_vars(Program)
            /\ WF_vars(Transmitted \/ Aborted)
            /\ WF_vars(PhyDone)

-----------------------------------------------------------------------------
\* Every variable has its type.
TypeOK ==
    /\ bank \in 0 .. 3
    /\ switching \in BOOLEAN
    /\ cells \in [Cell -> Byte]
    /\ todo \in Seq(Access)
    /\ got \in Byte
    /\ pc \in {"boot", "idle", "busy", "error", "sending", "enable", "disable",
               "rewrite", "status", "revision", "link", "count", "fetch"}
    /\ length \in Lengths \cup {NoFrame}
    /\ memory \in Lengths \cup {NoFrame}
    /\ stuck \in BOOLEAN
    /\ answered \in SUBSET BOOLEAN

\* The registers of the MII are left alone while the PHY is accessed, in
\* whatever order the calls come: an address or data written then would go to
\* the wrong register of the PHY (write_phy, read_phy_high, read_phy_low).
MiiExclusive ==
    BUSY \in cells[Home(MISTAT)] /\ (Ready("write"))
        => Cur.reg \notin {MIREGADR, MIWRL, MIWRH, MICMD}

\* network_is_link_up answers what the PHY reported during the call, never what
\* an earlier read has left in the data registers.
LinkFresh == pc = "link" /\ todo = << >> => answered = {2 \in got}

\* The frame that is transmitted is the one network_send was asked to send, to
\* its last byte: nothing is loaded over it, and its end is not moved.
TransmitIntact ==
    TXRTS \in cells[Home(ECON1)] =>
        /\ cells[Home(ETXNDL)] = Low(TXSTART_INIT + memory)
        /\ cells[Home(ETXNDH)] = High(TXSTART_INIT + memory)

\* Whatever the bank the chip shows, an access by name reaches the register of
\* that name: the accesses through set_bank implement a file without banks,
\* also when the microcontroller is reset in the middle of them.
ImplementsFlat == Flat!Spec

\* network_send comes back: the transmitter gets free, or is reset when it has
\* stalled (the workaround of errata point 12), unless the microcontroller
\* itself is reset.
SendReturns == pc = "busy" ~> pc \in {"idle", "boot"}
=============================================================================
