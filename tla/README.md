# slashnet: models, checks and proofs

slashnet is the firmware of an Ethernet board: an ATmega644 drives an ENC28J60
network chip over SPI, acquires an address with DHCP, resolves addresses with
ARP and serves UDP and TCP ports. There is one thread of execution (`main`
polls `network_backbone`), two interrupts (the data register of the USART is
empty, and the timer that counts seconds), a chip that stores frames on its
own, and hosts and servers beyond a network that loses and reorders.
Line numbers refer to `src/src/`.

## Inventory

| Component | State | Operations | Interacts with | Hard | Correct means |
|---|---|---|---|---|---|
| `com/usart` | transmit ring (`head`, `tail`, `buffer`), `UDRIE0` | `usart_init`, `usart_send`, UDRE interrupt | everything that logs | interrupt between any two statements of `usart_send` | bytes leave once, in order; none stays behind with the interrupt off; a full ring drains |
| `com/spi` | registers | `spi_init` | network | none | - |
| `com/i2c` | bus state (`TWSR`) | start, stop, address, send, receive, each with a timeout | tlc59116 | timeout at its boundary, one failing step of several | no false success; a failed transmission changes nothing it should not |
| `net/network`, receive | chip ring, `ERXRDPT`, `EPKTCNT`, `next_packet_ptr`, input buffer | `network_receive` | the loop | frames stored between its steps, wrap of the ring | frames handed over once, in order, undamaged; space given back |
| `net/network`, send and registers | `TXRTS`, error flags, `bank`, PHY data registers | `network_init`, `network_send`, `set_bank`, `read_phy`, `write_phy`, broadcast filter | all protocols | error flags that stay set; resets behind the cache's back; PHY busy | an access reaches the register it names; a frame is not overwritten; the driver comes back |
| `net/network`, loop | input buffer | `network_backbone` (dispatch) | dhcp, arp, icmp, udp, tcp, werkti | a handler that runs the loop itself; a frame two handlers take | every byte is counted once |
| `net/dhcp` | `dhcp_seconds`, `lease_time`, `transaction_id`, `server_identifier`, `my_ip`, `discover_sent` | `dhcp_request_ip`, `dhcp_renew` | loop, timer, broadcast filter | loss, reordering, duplicates, several servers, power cycles, byte counters | the address in use is one a server granted, and its lease is renewed in time |
| `net/arp` | `cache`, `cache_index`, `waiting` | `arp_init`, `arp_request_mac`, `arp_receive`, `save_to_cache` | loop (nested) | requests nest and share a flag; late and foreign replies; full cache | what is returned was claimed by the host asked for; every wait ends |
| `net/icmp`, `net/shared` | none | `icmp_ping_reply`, `checksum`, `add_value_to_buffer` | loop, tcp, udp | 8-bit counters, carries | what is sent verifies at the receiver |
| `net/udp`, `net/tcp` | `port_services`, `sequence_nr` | init, register, unregister, receive, send | loop, port_service, www_server | both name the same array; no connection is kept; retransmitted segments | a request is answered once, whole, with numbers the client expects |
| `utils/port_service` | table of ports and callbacks | init, set, remove, get | udp, tcp | long series of calls, full table | a bounded map |
| `utils/counter`, `utils/uptime` | ticks, mixed-radix time | `tick`, `uptime_tick` | interrupt and program | read against the interrupt | no reader is misled for long |
| `utils/werkti` | byte and packet counts, `time` | log in, log out, report | loop, udp, interrupt | packets sent while counts are reported and reset | every byte is reported once |
| `utils/logger` | a flag | formatting | usart | none | - |
| `ext/www_server` | list of paths | register, unregister, `handle_request`, reply | tcp | holes and duplicates in the list | a path reaches a callback registered for it |
| `ext/tlc59116` | LED registers on the bus | reset, sleep, mode, brightness | i2c | calls that go on after a failure; unset variable | other registers and other LEDs keep their state |

## Modules and how they compose

    ByteChannel   <- UsartRing               <- UsartRingProofs, MCUsartRing
    PacketQueue   <- RxRing                  <- RxRingProofs, MCRxRing
    HostTable     <- Arp                     <- ArpProofs, MCArp
    PortMap       <- PortService             <- PortServiceProofs, MCPortService
                     Dhcp                    <- DhcpProofs, MCDhcp
    FlatRegisters <- Registers <- Net        <- NetProofs, MCNet
    PathTable     <- PathService <- Tcp      <- SharedProofs, MCTcp
                     Shared <- MainLoop, Tcp <- SharedProofs, MCMainLoop, MCTcp
                     I2c <- Tlc59116         <- Tlc59116Proofs, MCI2c

(`RegisterMap` is used by FlatRegisters and Registers; Registers is extended by
Net, PathService and Shared by Tcp, I2c by Tlc59116.)

The modules on the left are abstract specifications, written without looking at
how the code does it; the ones in the middle translate the code and state a
refinement (`INSTANCE ... WITH`) as a property. Definitions keep the names of
the C functions and variables. Operators whose names have a suffix after an
underscore and stand just before the definition they vary (`Send_NoWrap`,
`Release_IgnoresStatus`, ...) are faulty variants: each shows that some property
notices the fault. They are used by no specification.

**UsartRing** has one action per statement of `usart_send` that the interrupt
can come between (`Send`, `WaitSlot`, `Store`, `Publish`, `Arm`) and the two
branches of the interrupt. `head` and `tail` are bytes, so single accesses are
atomic. `UCSR0B |= UDRIE0` is one action, because a read-modify-write cut in two
by an interrupt leaves the bit set as well. `queue` of ByteChannel is the part
of the buffer from `tail` to `head`.

**RxRing** cuts `network_receive` into the call (`Begin`), reading the header,
reading the body, freeing the space and decrementing the packet counter, and
lets the chip (external) store a frame between any two. Each byte of the ring
knows the frame it belongs to and its place in it, so that an overwritten frame
shows. A pointer register has 13 bits; 0 - 1 does not stay in the ring. A frame
that would end at the last byte of the ring is switched on by the constant
`ToEnd`.

**Dhcp** is the client with the two loops that poll it. One action is one poll:
`network_receive` and then `dhcp_request_ip` or `dhcp_renew`, with everything
the call changes. The interrupt only increments `dhcp_seconds`, and an increment
that is overwritten is the same as one just before the poll. Servers and network
are external. `due` says that no poll has found the input buffer empty since the
last second; it keeps idle polls from being repeated and lets the constant
`Prompt` say that the main loop polls at least once a second. `renew` stands for
the marker byte of the transaction id. `Broadcast` says which servers send the
answers to which of the two exchanges to all hosts; the filter of the chip drops
those while it is shut.

**Arp** keeps the calls of `arp_request_mac` in progress as a stack, since the
call waits by running the network loop, which may start a service that asks
again. `in_service` says that a service, not the application, has control.
`HostTable` tells entries apart by the combination of both addresses.

**PortService** has one table for both transports: `net/udp.c:28` and
`net/tcp.c:132` define the same external name without initialiser, which the
toolchain of the Makefile merges. `call` is a history variable.

**RegisterMap, Registers, Net.** RegisterMap has the registers of
`network_defines.h` and the accesses as records. Registers executes a series of
accesses (`todo`) one SPI transfer at a time; `set_bank` is two of them
(`ClearBank`, `SelectBank`), and an access reaches whatever cell the chip shows
at that moment (`Reached`). Net gives the functions of `network.c` as such
series: `network_init` is one of 43 accesses, the waiting loops are `Poll` or,
in `network_send`, a choice after every read. The chip (external) may finish,
abort or stall a transmission, receive a frame, or answer a PHY access between
any two transfers, and the microcontroller may be reset at any moment
(`Restart`) while the chip keeps what it has. The frame in the transmit memory
is its length. `FlatRegisters` is the same file without banks.

**MainLoop** is one pass of the loop of `main` after another: a frame of some
protocol with the counts of the bytes it and its answer cause (a UDP service may
answer too), or no frame and a request of `dhcp_renew`, and
`werkti_maybe_report` statement by statement. `time` is two bytes, read and
zeroed one after the other, with the interrupt (`Tick`) in between; the compiler
chooses the order (`lowFirst`). `unreported` is a history variable: what has
been received or sent and not been told.

**Shared** has `checksum` and `add_value_to_buffer` on sequences of bytes, with
the number of values of a byte as the constant `Base`; **PathService** the list
of paths, **PathTable** what it promises; **Tcp** the answers of `tcp_receive`
and `handle_request` to a client (external) that keeps to RFC 793. A segment
carries its numbers, flags, data and checksum as bytes. A segment with a request
produces two, the acknowledgement first. One request is one segment with `PSH`,
as `tcp_receive` requires; the ports are those of the server. A request begins
with a method, or without one with the path itself, which `handle_request` then
looks for at the start of the data, or with a word that is neither.

**I2c** gives each bus operation an answer (acknowledged, refused, arbitration
lost, bus error, late, never), what it then reports and leaves on the bus: the
status of a bus error is 0, and no operation tells it from success; **Tlc59116**
the calls as series of such operations, with what each call does when one fails:
most go on, `tlc59116_reset` stops, `i2c_write_register` returns. `data` is the
variable that a failed read leaves unset; it starts with anything. An operation
with the bus in a state where the interface cannot finish is answered "never".
`clean` and `disturbed` are history variables: no operation of the call has
failed, and one has met a bus error.

## Runs

| Run | Configuration | Shows |
|---|---|---|
| `usart` | MCUsartRing.cfg | types, `NoLostWakeup`, `SendIntact`; the ring is a fair bounded FIFO; `usart_send` returns |
| `rx_ring` | MCRxRing.cfg | `UnreadIntact`, `CountFollowsChain`, `SpaceReturned`; every accepted frame is handed over once, in order, eventually; none of the frames ends at the last byte |
| `rx_end` | MCRxRingEnd.cfg | **violation**: with such a frame `ERXRDPT` leaves the ring and unread frames are overwritten |
| `dhcp` | MCDhcp.cfg | two servers, duplicates, refusals, a failing link: `OfferConsistent`, `AddressOnBound`, `FilterFollowsPhase` |
| `dhcp_live` | MCDhcpLive.cfg | clocks of the code, one loss, one power cycle: an address is acquired, the lease is held and renewed, and the client learns its length |
| `dhcp_lost_request` | MCDhcpLostRequest.cfg | **violation**: the request of the offered address is lost and nothing is ever sent again |
| `arp` | MCArp.cfg | `AnswerClaimed`; the cache is a table that forgets the host learned first; requests end |
| `port_service` | MCPortService.cfg | `TableSound`; the table is a bounded map |
| `net` | MCNet.cfg | `ImplementsFlat`: an access reaches the register it names; `MiiExclusive`, `LinkFresh`: the PHY; `TransmitIntact`, `SendReturns`: sending |
| `loop` | MCMainLoop.cfg | `BytesConserved`, `ReportsSpaced`, `EchoVerifies` |
| `tcp` | MCTcp.cfg | `ReplyWhole`, `RequestAnswered`: the client gets one reply, whole; `ChecksumsVerify`; the list of paths is the table |
| `i2c` | MCI2c.cfg | `OnlyNamedWritten`, `SuccessMeansDone`, whatever operations fail |

The violations contradict a comment or document of the repository; the quotes
are with the findings in PROJECT.json.

Six more configurations each check one property that a comment or document
states and the code does not keep. They are not among the runs of PROJECT.json;
each ends within seconds with a counterexample, to be read with "Behaviour
noticed":

| Configuration | Module | Violated | What the comment says |
|---|---|---|---|
| MCDhcpTwoServers.cfg | MCDhcp | `AddressLeased`: with two servers the address in use is one that no server has acknowledged | dhcp.c:151-152 "Success! We got the IP address" |
| MCDhcpPowerCycle.cfg | MCDhcp | `AddressOnBound`: an acknowledgement from before a power cycle ends the acquisition without an address | dhcp.h:73 "On valid IP 1, else 0" |
| MCArpMoved.cfg | MCArp | `CombinationCached`: the new hardware address of a known host is not written | arp.c:266-267 "to see if the combination already exists" |
| MCArpNoAnswer.cfg | MCArp | `AnswerExists`: a request returns without an answer | arp.c:172 "It should exist now" |
| MCMainLoopEcho.cfg | MCMainLoop | `AdjustmentCorrect`: the answer to a ping does not verify when both bytes of the checksum carry | icmp.c:74-75 "This is correct since it's 1st complement" |
| MCI2cBusError.cfg | MCI2c | `RegisterSet`: after a bus error `i2c_write_register` returns 0 for a register it has not set | i2c.h:87 "Register set" |

### Bounds, and why they suffice

* `usart`: a ring of four slots, three byte values. The ring is empty, partly
  full, full and wraps; the theorems below cover every size from 2 to 256.
* `rx_ring`: a ring of 12 bytes in a memory of 16, frames of 4 and 6 bytes, four
  different contents at a time, at most three counted. Frames wrap around the
  end at several offsets, the ring fills up, damaged and good frames mix. The
  size of the ring matters only against the sizes of frames: `RXSTOP_INIT` is
  odd, frames are padded to even sizes, as in the chip. `rx_end` has the same
  ring geometry with `ToEnd`.
* `dhcp`: the clocks are scaled to a few ticks and the lease to at most three
  units, so that every threshold is crossed; transaction ids are taken modulo 3
  and thus reused. At most one duplicate, one link failure; a message that the
  network never delivers is a lost one, so that no explicit loss is needed for
  safety. `MaxNet` only keeps
  a discover or renewal from being repeated while several messages are in flight.
  MCDhcpTwoServers.cfg and MCDhcpPowerCycle.cfg have the same clocks and a network
  that neither loses nor repeats, so that nothing else is needed for what they
  show.
* `dhcp_live`: the real constants (3, 33, 50, 51 seconds, units of 64 seconds, a
  minimum of five units), leases of 307, 384 and 600 seconds, one loss, one
  power cycle. 307 seconds is the shortest lease that survives the loss of a
  renewal; with 306 the lease ends before the retry. Without any loss the limit
  is 154 seconds: a lease of 153 seconds ends as the client asks, since the
  minimum of five units makes it ask after three countdowns of 51 seconds. Two
  losses take a lease of about 1020 seconds. A loss is any message but the
  request of an offered address and its answer, which `dhcp_lost_request` shows
  to be fatal. The server broadcasts its offer and the answer to the request, and
  sends that to a renewal to the address of the client, as dhcp.c:609 expects
  (`InitialOfFirst`): the client takes it, and `LeaseRenewed` asks that it counts
  down from the new lease.
* `arp`: three hosts, a cache of two, two requests nested, three in all, one
  each of loss, duplicate, move and announcement. One host more than slots makes
  entries disappear while requests wait. The two violations need less: one host
  that announces itself, moves and announces itself again, or one announcement
  while a request waits.
* `port_service`: four ports, three slots, two callbacks, any series of calls.
* `net`: two frames whose ends differ in both bytes, one stall, any number of
  sends, PHY accesses and resets. The register file and the constants written
  are those of the code; the chip counts one frame at most, since the number of
  frames is the subject of `rx_ring`.
* `loop`: a byte has four values and a word sixteen, so that everything wraps;
  the interval needs both bytes of `time`, as 300 does; the frames are shorter
  and longer than the minimum lengths and than a byte can count. Two frames or
  renewals between reports (`MaxFrames`) and three ticks per pass (`MaxTicks`)
  bound the state space. Passes this long for such an interval are outside the
  theorem `ReportsStaySpaced`, and the property holds there too. That
  `ReportsSpaced` allows a report a byte's range early is what the torn read
  does: with 300 seconds, one after 45 to 300.
* `tcp`: bytes of four values, numbers of two bytes that carry and wrap on the
  way, a list of three with two paths and two callbacks, one loss or repetition,
  two changes of the list. The net is a set, so that segments arrive in any
  order.
* `i2c`: two calls, so that the second finds what a failure of the first left on
  the bus; leds of two registers, the last led, and one out of range; arrays that
  are empty, go past the last led, and with seventeen values come around to the
  led they began with. The theorems cover arrays of any length.

### Fairness

* Program: the main loop polls forever, and a call that has begun keeps
  executing (`WF` on `PollEmpty`, `network_receive`, `InSend`,
  `RequestReturns`). `main` has no exit. Nothing obliges a program to send or to
  ask for an address.
* Hardware: an enabled interrupt is taken, a timer ticks, the transmitter drains
  its register.
* The chip: a transmission ends or stalls, and the PHY answers. A stalled
  transmission need not end by itself (`net`).
* The client of `tcp` repeats a segment that is not acknowledged, when nothing is
  under way any more.
* Environment: what is in flight and not lost is delivered and answered, the
  link comes up. In `dhcp_live` (`Prompt`) a second is long enough for that and
  for one poll that finds no packet; under traffic that keeps the buffer full at
  every poll `dhcp_renew` sends nothing and no lease is safe (dhcp.c:557-558).

`CHECK_DEADLOCK FALSE` is in the configurations of ARP, TCP and I2C: when the
bounds are used up and everything is delivered nothing is left to happen.

## Theorems

`tlapm` checks them for every value of the constants that satisfies the named
assumptions of the modules.

* **UsartRingProofs.** `IInv == TypeOK /\ NoLostWakeup /\ SendIntact` is
  inductive. The three need each other: that the head never meets the tail in
  `Publish` needs `SendIntact`, and that the interrupt is on when there is
  something to send needs the place of `usart_send`. From it `TypeCorrect`,
  `WakeupNotLost`, `SendStaysIntact`, and `RingImplementsChannel`: every step of
  the ring is a step of a FIFO of `Size - 1` bytes or none. The work there is
  in `StepChannel`, that moving an index appends to or takes from the sequence
  of pending bytes, modulo the ring size.
* **DhcpProofs.** `OfferConsistent` and `AddressOnBound` are not inductive. The
  strengthening `IInv` adds `NetSound`, what messages in flight say about the
  client that sent them (a reply carries the address of its sender; a request
  or acknowledgement in flight means that the client has an address; an
  acknowledgement in flight means that its sender has granted) and
  `BoundSound`. It holds for any number of servers, any losses, duplicates, link
  failures and clocks, but only while the device keeps its power: the theorems
  `OfferStaysConsistent` and `BoundWithAddress` assume `Reboots = 0`; without that
  the second fails (MCDhcpPowerCycle.cfg).
  `TypeCorrect` has no such assumption. `FilterStaysInPhase` (also for
  `Reboots = 0`) has an invariant of its own: before the first discover nothing
  is in flight (`Quiet`), so that no offer is taken that would leave the filter
  as it is.
  `LeaseStaysHeld` is about time: the server's lease does not end while the
  client runs. With `Prompt` what is sent in a second is answered or lost in it,
  so an acknowledgement is never older than the lease it grants (`FreshNet`,
  `Acquiring`), the client counts no more units than the lease has (`Counting`),
  and what is left of the lease at the server exceeds the time to the next
  renewal and one more retry for each loss still possible (`Held`). The
  theorem assumes that this is so of every lease at its beginning, one server
  that refuses nothing, a link that holds and no power cycle: after one, a message
  of an earlier life may carry the transaction id of the new one. The run
  `dhcp_live` has leases at that very bound (307 seconds for one loss), and one
  power cycle that the theorem leaves out. Of the clocks, the proof uses that a
  renewal is tried again before it is due for the last time
  (`2 <= RenewBelow <= RetryLease <= MinLease`: 3, 5, 5) and that an acquisition
  begins within a minute of the countdown (`StartDelay <= MinuteAfter`: 3, 50);
  both are named assumptions of Dhcp.
* **RxRingProofs.** The theorems assume `ToEnd = FALSE`: the run `rx_end` shows
  that they fail otherwise. The properties are about `Start`, which follows the
  headers from frame to frame and is defined by recursion, so the invariant does
  not speak of it. It says that there is a series of distances `off`, counted
  from the oldest byte that is still held (`Base`): the i-th waiting frame begins
  at `off[i - 1]`, its header points to `off[i]`, the last distance is where the
  chip writes, and it stops short of `ERXRDPT` (`Laid`). As distances never wrap,
  all steps but the address of a byte (`ByteIs`) are plain arithmetic. A step
  appends a distance (`ArriveKeeps`), drops the first (`ReadHeaderKeeps`) or
  moves the base (`FreeSpaceKeeps`). That `Start` exists, and that it meets the
  distances (`StartIs`, `StartsLaid`), is by least counterexample: a set of
  natural numbers has a least element. From it `TypeCorrect`,
  `UnreadStaysIntact`, `CountStaysWithChain`, `SpaceIsReturned`, and
  `RingImplementsQueue`: the waiting frames are a queue that hands over each
  frame once and in order.
* **NetProofs.** Every access of a series either carries its bank or is to a
  register of all banks, and none but `set_bank` touches the bank bits (`Safe`);
  so the bank of the chip is the one the driver remembers, except between the
  two transfers of `set_bank` and before the soft reset (`BankKnown`). That is
  enough for `TypeCorrect` and `BanksAreHidden`, also when the microcontroller is
  reset between any two transfers. The other three theorems say what the rest
  of a series looks like at each place: the loop on `MISTAT` follows each access
  that starts the PHY (`MiiInv`, `MiiStaysExclusive`); the data register holds
  the answer of this call from the end of the loop on (`LinkInv`,
  `LinkStaysFresh`); what is loaded when `TXRTS` is set (`SendInv`,
  `TransmitStaysIntact`). Any set of frame lengths, any number of calls and
  resets.
* **SharedProofs**, about MainLoop and Tcp, which share the arithmetic of Shared.
  For any width of a byte:
  * `FoldedFits`: two rounds of folding are enough for any sum of two words.
    `EchoesVerify` and `SegmentsVerify` rest on what folding does: it takes away
    multiples of 2^16 - 1 and never makes a sum of more than 0 to 0, so that a
    sum and the complement of what it folds to fold to all ones
    (`ChecksumVerifies`). The sums are recursive functions on sequences. That
    such a function exists is shown by a least counterexample (`ChainExists`),
    and so is what holds along it (`Upward`), as no theorem of the library can
    be used for it. The answer to a ping differs from the ping in its type and
    checksum; `EchoOK` keeps that the pair comes from one ping, and the case of
    two carries stays excluded.
  * `BytesStayConserved`, for any interval, frames and answers. What is owed to
    the server is, modulo the width of a word, what is in the counter and what
    `werkti_maybe_report` has put aside (`Balanced`); `SavedTold` says that
    nothing stays aside after it is told.
  * `ReportsStaySpaced`. `time` says what has passed only at some places:
    between the two reads one byte of an earlier value is left (`HalfRead`),
    between the two writes one byte is gone (`HalfZeroed`), and afterwards the
    clock may be ahead of what has passed by up to a byte, once it has been
    torn (`Ahead`). `SpaceInv` says all this and
    that the clock stays below the interval and one pass when a pass begins
    (`InTime`). It needs an interval of more than a byte and less than two, with
    two passes to spare: 256 < 300, and passes of at most 106 seconds.
  * `RepliesStayWhole`, `SegmentsVerify` and `PathsImplemented` share the
    invariant `TcpIInv`. The device keeps no connection, so all it must not mix
    up is in the segments: a request under way carries the number the client
    expects next and an answer has that number (`NetOK`), the client waits for
    the first part or, with it, for the second (`WaitsInOrder`), and what would
    answer now is among the callbacks offered since it asked (`AnswerOffered`).
    So a second answer to a repeated request has a number that the client has
    passed. `PathsImplemented` counts the slots of a path (`ListOK`). The
    assumptions on the constants are `TcpAssumption` (room for the flag bits, no
    empty numbers, paths that read differently).
* **Tlc59116Proofs.** `OnlyNamedAreWritten`, for any leds, values and failing
  operations. The invariant keeps what is left of a call (`Remains`) and shows
  that a register is selected only in the middle of a call that names it
  (`Selected`), so that a call that goes on after a failure writes elsewhere in no
  case. `SuccessIsDone` says more of the same series: `KInv` tells, for each place
  of a call of which no operation has failed, where the pointer of the chip is,
  what has been read and what the registers hold (`Progress`), and that a call
  that reports success is one of them unless it has met a bus error
  (`ZeroReported`); with one the theorem promises nothing, and MCI2cBusError.cfg
  shows that nothing could be promised. An array may have any length; the last of
  several values for a led counts.
* **ArpProofs.** `AnswerClaimed` looks at a history of replies, so `IInv` adds
  that everything in the cache and in every reply in flight was claimed by a
  host. Any number of hosts, slots and nested requests, any losses, duplicates
  and moves: `TypeCorrect`, `AnswersClaimed`. That the loop of `arp_search_mac`
  finds a slot is the lemma `SlotFound` (a set of indices has a least element).
  `CacheImplementsTable` is the refinement: the slots before `cache_index` are
  filled and the others all or none (`Filled`), so saving a new host is learning
  it (`SaveLearns`: the new list, oldest first, place by place, with the slots
  counted modulo the size), and one whose IP address is known changes nothing
  (`KnownIs`). The table is of combinations; that the cache also refuses a known
  IP address with a new hardware address is a behaviour the table allows, and
  that MCArpMoved.cfg shows.
* **PortServiceProofs.** `IInv` is `TypeOK`, the soundness of the table, and that
  the table is still the initial one while `network_init` runs. From it
  `TypeCorrect`, `TableStaysSound`, and `TableImplementsMap`: for any number of
  slots, ports and callbacks every call is one of the bounded map. The argument
  is that a sound table and its map have the same pairs (`SameMap`), and that a
  table has an empty slot exactly when the map has room (`RoomLeft`,
  `NoRoomLeft`, by counting slots).

Only model-checked:

* what holds under fairness (`SendReturns`, `ImplementsFairChannel`,
  `ImplementsQueue`, `AddressEventually`, `LeaseRenewed`, `RequestsEnd`,
  `RequestAnswered`), which is out of reach of the prover, as is ENABLED. The
  safety part of the second and of the third is proved;
* what happens after a power cycle of the DHCP client, where the theorems assume
  `Reboots = 0`, and reports when passes take longer than `ReportsStaySpaced`
  assumes.

## Behaviour noticed and kept in the models

Found by relaxing a bound or a property of a run, and kept as the code has it:

* **DHCP, power cycle** (dhcp.c:149). An acknowledgement is accepted in any state
  of the acquisition and its address is not read. An old acknowledgement ends the
  acquisition while `my_ip` is 0.0.0.0 (MCDhcpPowerCycle.cfg); dhcp.h:73 says
  "On valid IP 1, else 0".
* **DHCP, two servers** (dhcp.c:136). The offer of the second server overwrites
  the address of the first after the request is sent; the acknowledgement of the
  first then ends the acquisition with an address nobody acknowledged
  (MCDhcpTwoServers.cfg); the comment at dhcp.c:151-152 says "We got the IP
  address".
* **DHCP, short leases** (dhcp.c:501-519). A lease of less than 154 seconds ends
  before the client asks for more.
* **ARP** (arp.c:119,172). Any reply to the device ends any wait: a request may
  return the null pointer, where the comment says "It should exist now"
  (MCArpNoAnswer.cfg). A lost request leaves `arp_request_mac` polling without
  end; it is sent once, and `RequestsEnd` excludes losses. A host that changes
  its hardware address keeps its old entry (arp.c:266-268), until as many other
  hosts as there are slots have been learned (MCArpMoved.cfg); the comment
  speaks of the combination.
* **Ports** (tcp.c:132, udp.c:28). With one table for both, a UDP packet to port
  80 starts the web server. With a full table a registration has no effect.
* **Sending** (network.c:557). `EIR_TXERIF` is never cleared: after one aborted
  transmission every later wait of `network_send` resets the transmitter, and
  cuts off a good frame that is still being sent.
* **Time** (werkti.c:65,119). A torn read may find the interval over early, and a
  torn write may leave the time ahead: reports come as early as 45 seconds after
  the last.
* **Ping** (icmp.c:47,72-79). For a packet of 256 bytes or more the copy loop
  does not end. When both bytes of the checksum carry, the carry is lost and the
  answer does not verify (MCMainLoopEcho.cfg); the comment above the code makes no
  exception.
* **Counts** (network.c:507). A DHCP answer that is not the acknowledgement of a
  renewal is counted by `dhcp_renew` and by `udp_receive`: `BytesConserved`
  leaves `werkti_udp_in` out.
* **TCP** (tcp.c:226,236). A request is acknowledged before it is served, so
  that a lost reply is never sent again; `RequestAnswered` excludes the loss of
  a reply. Every segment with PSH is taken for a whole request, one with ACK
  alone is ignored, and a padded short frame shifts the data (tcp.c:236 counts
  from the end of the frame). A path may be registered twice: removing one
  uncovers the other.
* **Led driver**. The brightness 255 becomes 0 in an array (`% 0xFF`,
  tlc59116.c:154). Putting the chip to sleep overwrites the other bits of MODE1
  (tlc59116.c:70), waking it keeps them.
* **I2C** (i2c.c:66-68). The counter wraps when the time is over, so a timeout is
  reported as status 0xF8 and not as 1, and an answer at the last poll as a
  timeout; `SuccessMeansDone` shows that no call succeeds by it. A bus error has
  status 0 and is returned as success (i2c.c:99,142,168,208): `i2c_write_register`
  returns 0 for a register it has not set (MCI2cBusError.cfg). The restart
  that a timeout is to cause does not happen either, so that a start may be left
  pending.
* `ERXRDPT` is set to an even address by `network_init`, and to odd ones by
  `network_receive` afterwards; the model keeps both.

## Not modelled

`com/spi` and `utils/logger` have no behaviour beyond a register or format.
`utils/uptime` is a clock that only the interrupt advances and no code reads.
`usart_send_string`, `udp_prepare`, `tcp_prepare` and `ip_prepare` fill buffers
in; `i2c_init` computes a bit rate. The layout of packets, options with wrong
lengths, the gateway and netmask options, and the text of HTTP headers are data
that no property distinguishes. Pure timing (microseconds of the SPI transfer)
is left out: any step may be as slow as it likes.

## Plan

1. `LeaseHeld` proved across power cycles, as far as transaction ids of earlier
   lives stay out of the way.
2. A composition of MainLoop with Arp: `werkti_maybe_report` between nested
   requests.
