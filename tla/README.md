# uLoader: a TLA+ verification project

uLoader is a small network boot loader for the STM32F4: a shell on a serial
line, an Ethernet driver, the lwIP stack with its DHCP client, and a TFTP
client. There is no operating system. Everything runs on one main loop
(`src/uLoader.c`, `main`), except two interrupt handlers: `USART6_IRQHandler`,
which stores received characters, and `SysTick_Handler`, which counts time. The
Ethernet controller's two DMA engines work beside the CPU.

This directory holds a model of the parts that carry the program's logic, the
configurations that model-check them with TLC, and proofs checked by TLAPS.
Paths below are relative to the repository root.

## 1. The system

| part | state | operations | talks to |
|---|---|---|---|
| serial console (`src/tm_stm32f4_usart.c`) | cyclic buffer, `Num`, `In`, `Out` | `USART6_IRQHandler`, `TM_USART_Gets`, `Getc`, `FindCharacter` | interrupt against main loop, nothing masked |
| Ethernet receive (`stm32f4x7_eth.c`, `src/ethernetif.c`) | descriptor ring, `DMARxDescToGet`, `Seg_Count` | `ETH_CheckFrameReceived`, `ETH_Get_Received_Frame`, `low_level_input` | receive DMA through OWN bits and RBUS |
| Ethernet transmit (same files) | descriptor ring, `DMATxDescToSet` | `low_level_output`, `ETH_Prepare_Transmit_Descriptors` | transmit DMA through OWN bits, TBUS, TUS |
| address configuration (`src/netconf.c`) | `DHCP_state`, `ipaddr`, the netif | `LwIP_DHCP_Process_Handle`, commands `dhcp`, `static` | reads `netif.dhcp->tries`, starts and stops the client |
| DHCP client (`lwip/core/dhcp.c`) | state, tries, timers, transaction id, pcb | timers, `dhcp_recv`, `dhcp_arp_reply` | DHCP server, other hosts, pcb pool |
| TFTP client (`src/tftp.c`) | `tftp_upcb`, `file_size` | `tftp`, `tftp_recv`, `tftp_ack` | TFTP server, pcb pool |
| UDP pcbs (`lwip/core/udp.c`, `memp.c`) | free list, list of bound pcbs | `udp_new`, `udp_bind`, `udp_remove`, `udp_input` | shared by DHCP and TFTP |
| time base (`uLoader.c`, `netconf.c`) | `LocalTime`, four stamps | `Time_Update`, `LwIP_Periodic_Handle` | interrupt against main loop |
| main loop and shell (`src/uLoader.c`) | line buffer | `main`, `parser`, `cmd_read` | calls all of the above |
| MAC and PHY start (`stm32f4x7_eth.c`, `stm32f4x7_eth_bsp.c`) | poll counter | `ETH_BSP_Config`, `ETH_MACDMA_Config`, `ETH_Init` | PHY registers, the cable |
| pbufs (`lwip/core/pbuf.c`, `memp.c`) | reference counts, chains, two pools | `pbuf_alloc`, `_free`, `_ref`, `_cat`, `_chain`, `_dechain`, `_realloc`, `_header`, `_coalesce` | every layer |
| heap (`lwip/core/mem.c`) | list of blocks in one array, `lfree` | `mem_malloc`, `mem_free`, `mem_trim` | below pbufs |
| ARP (`lwip/netif/etharp.c`) | table, one packet per entry, hint | `etharp_output`, `_query`, `_arp_input`, `_tmr`, `_cleanup_netif` | other hosts, DHCP's check, heap |
| fragments (`lwip/core/ipv4/ip_frag.c`) | list of datagrams, pbuf count | `ip_reass`, `ip_frag` | network, pbufs |
| IP, ICMP (`ip.c`, `icmp.c`) | none of their own | checks on one packet | below UDP |

What is hard here: the receive interrupt may come between the load and the store
of `Num--`; the DMA engines change descriptors while the driver polls them and
may go to sleep around the very test that is meant to wake them; two state
machines (`netconf.c` and `dhcp.c`) share a counter that only one of them knows
the meaning of; a command may arrive in any phase of a negotiation; a datagram
may be lost, repeated or late; pcbs are a small pool that a transfer without an
answer never returns to; fragments arrive in any order while older datagrams are
evicted for room; the ARP table recycles entries that packets still wait in; a
packet buffer is shared by chains and owners; a 32-bit millisecond counter overflows after 49.7 days.
`PROJECT.json` lists each hazard with its line and the properties that cover it.

## 2. Modules

| module | models |
|---|---|
| `Usart` | the receive buffer, its interrupt handler, `TM_USART_Gets` |
| `FrameFifo` | abstract: a bounded queue of frames, the promise of a descriptor ring |
| `EthRx`, `EthTx` | the two rings with their DMA engines; both implement `FrameFifo` |
| `Dhcp` | the DHCP client as functions from one netif to the next |
| `Netconf` | extends `Dhcp`: `netconf.c`, the server, the timers, the commands |
| `UdpPcb` | the pcb pool and list as functions |
| `Tftp` | extends `UdpPcb`: the TFTP client, server, network, and DHCP as the pool's other user |
| `Timers` | the time base |
| `Mem` | the heap as functions |
| `Pbuf` | extends `Mem`: packet buffers over heap and pools, as functions |
| `PbufUse` | extends `Pbuf`: the layers that use them, and `tftp_recv` |
| `Etharp` | the ARP cache |
| `IpReass` | cutting and reassembly of datagrams |
| `ULoader` | from power-up round the main loop |
| `UsartProofs`, `EthRxProofs`, `EthTxProofs`, `TftpProofs`, `EtharpProofs`, `IpReassProofs` | theorems about the module each is named after |
| `PbufProofs` | theorems about `PbufUse`, with what they need of `Mem` and `Pbuf` |
| `MainLoopProofs` | theorems about what `main` runs at boot and in its loop: `ULoader`, `Timers` and `Netconf` |
| `MCUsart`, `MCEthRx`, `MCEthTx`, `MCNetconf`, `MCTftp`, `MCTimers`, `MCPbuf`, `MCEtharp`, `MCIpReass`, `MCULoader` | the instances TLC runs |

Operators named `Bug...` are plausible mistakes in the definition that follows
them. They are not used; putting one in place of that definition breaks a
property, which shows that the property depends on the code (`PROJECT.json`,
`mutants`).

### Usart

The fields of `TM_USART_t` are the variables `Buffer`, `Num`, `In`, `Out`. The
handler is one action, since the main loop cannot interrupt it. `TM_USART_Gets`
is split at each access of `Num`, because the handler may come between: `pc`
names the place and `reg` is the register copy. The fields are not `volatile`,
so where the C text reads `Num` again the compiler may load it or reuse the
register; the model allows both. `GetcTake` and `GetcStore` are the two halves
of `Num--`. The handler runs between `c = *(u->Buffer + u->Out)` and `u->Out++`
as well, but it touches neither an unread slot (unless it laps the reader, which
the history variable `lapped` records) nor `Out`, so those are one step.
`accepted` and `taken` record what was stored and read. A byte sent while the
buffer is full is dropped, as in the code.

### EthRx, EthTx

A descriptor's `Status` keeps the bits the driver looks at. A frame is a number,
and in memory the sequence of its segments, one per descriptor. Each action of
the driver is one access to a descriptor's status or to `DMASR`; the DMA may act
between any two. The DMA is external: it takes descriptors in ring order, and
when it meets one that it does not own it stops and, in a *later* step, sets RBUS
or TBUS. That gap is where a wakeup could be missed. In the receive direction the
controller resumes on a poll demand and also, by itself, on the next frame
(`FrameArrives`), so a missed poll demand only delays: no property depends on it. A
transmit call is assumed to start after the DMA has finished falling asleep if it began to before the
previous call: that takes a few bus cycles, and a call takes thousands.
The build's buffers hold a whole frame (`stm32f4x7_eth_conf.h:77-80`), so a frame
takes one descriptor. The driver's header allows smaller buffers, and the models
have frames of up to `MaxSegs` descriptors, so that every branch of the driver is
there. The code does not handle such frames correctly (section 5); the properties
therefore speak of the frames up to the first one of several descriptors
(`Singles`), which in the build is all of them. The map to `FrameFifo` stops at
that frame in the same way.

### Dhcp, Netconf

Handlers run to completion on the main loop, so each is a function from one netif
record to the next, and `Netconf` makes one action of each input. Addresses are
reduced to where they came from (`any`, `static`, `lease`). The fine timer and
the state machine share an interval and are called in the same turn of
`LwIP_Periodic_Handle`, so `PeriodicFine` is both, in that order. Timeouts have
their real values in ticks of 500 ms. The server may answer whatever was asked
under the current transaction id, late, repeatedly or never; replies to earlier
ids are dropped by `dhcp_recv` and left out. `asked` holds the kinds of message
sent under the current id: a retry keeps the id, the first try of a state
changes it. `faults` is chosen once, at the start, among the sets of things that
may go wrong in a behaviour (no memory, no pcb, a malformed offer), so that one
run covers boards with and without them. `PeriodicCoarse` is the minute tick at which t1 or t2 runs out; how
many minutes that takes is left open.

### UdpPcb, Tftp

The pool's free list and the pcb share the first word of an element: it is the
link while the element is free and `local_ip` while it is a pcb. The model keeps
one `word` for both, because `tftp.c` keeps a pointer to a pcb after freeing it,
and whether that dangling pcb still receives or sends depends on that word. A
transfer is known by its local port, the n-th ephemeral port being n. DATA
packets carry a block number that the client prints, acknowledges and otherwise
ignores. `halted` is what follows a use of a NULL pcb.
`tftp_recv` does nothing with an ERROR, an ACK or an unknown packet but print its kind,
and then ends the transfer if it is shorter than 512 + 4 bytes, in whatever state the
transfer is. The three are therefore one message, `Other`, short or full. The server
sends a short one when it refuses the request (`ServerRrq`) or gives up in the middle of
the file (`ServerError`), and any host may send either at any time, also before the
transfer begins or after it ended (`Stray`); `MaxStrays` bounds the last two. `cut`
records the transfers that such a packet ended. DATA comes only from the server: `tftp_recv` compares neither
address nor port of the sender, and DATA from elsewhere would be counted and acknowledged
like the file's own.

### Timers

`Modulus` is 2^32 in the code. `age` is the true time since a stamp, which the
code cannot see; the properties compare what the code does with it. `MaxStall` is
the longest the main loop may take for one turn.

### Mem, Pbuf, PbufUse

The heap is the function from offsets to `struct mem` that the array holds, with
`lfree`; a struct that was swallowed by its neighbour is no longer in the domain,
so a use of it would be an error. Sizes are counted in units of alignment.
A pbuf pointer is a number that says where it lies: in the pool of buffers, in the
pool of bare structs (`PBUF_REF`, `PBUF_ROM`) or at a block of the heap. `tot_len`
of a freed pool element is kept (`was`), because `tftp_recv` reads it: `memp_free`
overwrites only the first word. `PbufUse` lets the layers do whatever the comments
of `pbuf.c` permit to the holder of a reference, in any order. The walks
along lists (`Walk`, `Along`, `Left`) and the loop of `pbuf_free` (`FreeTurns`, one
`FreeTurn` for each pbuf that the loop comes to) are recursive functions of the number
of steps.

### Etharp

`arp.table` is `arp_table`; `arp.copies` counts the packets copied to the heap.
A packet is known by the next hop it was meant for. Each function is one action
(or an operator of one), since all run on the main loop; the failure of the heap
and of `linkoutput` is a choice. A message announces one station for one address;
`announced` records the latest, and the properties compare the frames sent
with it. The interface goes down and up as `dhcp.c` makes it, and its addresses
change as `netconf.c` and `dhcp.c` set them; the table is not told of the latter.

### IpReass

A datagram's bytes are offsets, a fragment the interval `start .. end` and its
more-flag, produced by `ip_frag` for each MTU in use, so that repetitions of one
datagram may be cut differently. `ip_reass` is one action. The walk over the
fragments of a datagram that inserts and validates in one pass is given by where
the new fragment goes (`Place`), what makes it be thrown away (`Overlaps`) and
which neighbours the walk compares (`Valid`). No one calls `ip_reass_tmr` here, so
all timers are equal and the oldest datagram is the last of the list. `broken`
means that an element was unlinked through a wrong predecessor: the list then
contains memory of the pool, and the model stops.

### ULoader

One action per poll of the PHY and per step of the main loop. A poll may miss a bit
that is set, which stands for a read of the PHY register that times out. What a
frame, a periodic task or a command does is the business of the other modules;
here each takes one step, except `read`, which takes one per byte.

## 3. Runs

Runs that must pass:

| run | shows |
|---|---|
| `usart` | in spite of lost increments `Num` never overstates, so no stale byte is ever delivered; until bytes are overwritten the order is kept and a line found is whole; a line that `Num` counts is delivered, and a full buffer is always drained |
| `ethrx` | with one descriptor per frame the ring is a bounded queue: frames are taken whole, once, in order; the two sides stay in step around RBUS; every frame stored is taken and all descriptors return to the DMA though allocations fail. A frame of several descriptors is recognised completely by `ETH_CheckFrameReceived` while the DMA is still storing it |
| `ethtx` | `ERR_OK` always means handed over, although the result of Prepare is ignored; a refused frame disturbs nothing; a frame is on the wire at the latest when its successor is queued; the ring is a bounded queue |
| `netconf` | with every fault and three commands: after settling nothing but a command changes the address; `printenv` shows the address in use; no lease is ever renewed; no contested address is taken; without faults the wait for an address ends, whatever is lost |
| `tftp` | transfers one after the other over a bad network, with a packet that is not DATA at any moment: pcbs are never lost or shared, the blocks received have no gap and are the whole file when DATA ended the transfer, the size is never below theirs, late data changes nothing, a transfer the server has begun and does not give up ends; the file is a whole block, so it ends with an empty one |
| `timers` | the periodic tasks across the overflow of the counter |
| `pbuf` | reference counts equal the pointers and total lengths the sums along every chain; nothing is lost to the pools or the heap, also when one runs out midway; payloads stay inside their memory; the heap's list, holes and search stay right; the read after free in `tftp_recv` still sees the packet's length |
| `etharp` | an address has one entry; each copied packet has one owner; a frame goes to the station that last spoke for its next hop, whatever the hint and the recycling did; no packet waits for ever |
| `ipreass` | up to an eviction through a wrong predecessor, where the model stops (section 5), the count of pbufs is exact and within its limit and the queue is what its walks rely on; nothing is passed up twice in a datagram |
| `uloader` | the loop starts only after link and negotiation were seen; waiting for the PHY ends; frames, ticks, lines and a long `read` do not starve each other |

Runs that must find a violation; each is a place where the code does not do what
a comment says (`PROJECT.json`, `findings`):

| run | shows |
|---|---|
| `usart_newline` | an increment of `Num` lost to the race hides a received newline until more is typed |
| `ipreass_whole` | the fragments first, last, third make a datagram that is passed up without the second |

### Bounds

- `Usart`: a ring of three bytes, six received. The wrap of `In` and `Out`, two
  lost increments and a lap of the reader all need at most twice the ring. The
  caller's array is larger than the ring, as in the program's worst case; the
  alphabet is a newline and one other character, the only distinction the code
  makes.
- `EthRx`, `EthTx`: three descriptors (20 and 5 in the build); five frames of up
  to three descriptors are received, six of up to two sent: each descriptor is
  used again after the wrap, with every degree of fullness and suspension.
- `Netconf`: the real `MAX_DHCP_TRIES` and real timeouts. Two refusals and three
  commands are enough for each to meet every phase, twice.
- `Tftp`: blocks of two bytes and, in the passing run, a file of one such block
  and the empty one that ends it; three pcbs, so that list order matters; two
  transfers; one loss, one repetition and one packet that is not DATA besides refusals,
  so that any two of these meet in one transfer or follow it into the next.
  `ServerRepeat` is not bounded. The theorems have no bounds on any of them.
- `Timers`: a modulus of 64 that the tick of 3 does not divide, so the overflow
  happens at every offset; the theorems cover every modulus.
- `Pbuf`: a heap of nine units, two buffers, one bare struct, at most two references
  held, and a new pbuf asked for with at most two in use: a request of three units
  fills both buffers, so the pool runs out midway; two heap packets leave holes on
  either side of a third. Larger chains repeat the same links.
- `Etharp`: two entries, two local addresses and, without a netmask, a third; two
  stations, so that an address can move. Ages are short but keep their order
  (`ARP_AGE_REREQUEST_USED` < `ARP_MAXAGE`, `ARP_MAXPENDING` of two ticks). The table
  is smaller than the number of addresses, as on a busy network.
- `IpReass`: four datagrams, room for three, six pbufs; a datagram of 30 bytes in
  four fragments on one route and two on the other, which overlap. Datagrams differ
  in name only, hence the symmetry. There is no bound on losses and repetitions.
- `ULoader`: four polls, two frames, two lines, two bytes to read: the counter's last
  value and a full ring and console happen.

### Fairness

- `Usart`: the main loop goes on (`WF` of `TM_USART_Gets`): the handler is short
  and returns to it. Nothing is assumed of the terminal.
- `EthRx`, `EthTx`: the main loop never waits, a call of `low_level_output` runs
  to its end, and the DMA works while it has something to do. Nothing is assumed
  of arriving frames or of the stack's output.
- `Netconf`: the fine timer ticks again, since SysTick counts and
  `LwIP_Periodic_Handle` is called on each turn. Nothing is assumed of server,
  other hosts or user.
- `Etharp`: `etharp_tmr` runs again and again, as `LwIP_Periodic_Handle` does (and
  `LoopServesAll` shows). Nothing is assumed of hosts or traffic.
- `ULoader`: the processor goes on with `main`, and the MAC ends its software reset,
  for which `ETH_MACDMA_Config` waits without a limit. Nothing is assumed of cable,
  network and user.
- `Tftp`: a datagram that is not lost is received, and the server answers and
  repeats (what TFTP requires of it) unless it gives up, which it never has to; losses
  are finite. A server that gives up and whose ERROR is lost leaves the client waiting
  for ever, so `TransferCompletes` excepts it.

`ethtx` runs without the deadlock check, since the stack may have nothing more to
send and the DMA then sleeps; the two `ipreass` runs do so because the model stops at
`broken`.

## 4. Proofs

`UsartProofs` proves, for every ring size, array size, alphabet and number of
bytes, `TypeCorrect` (`Spec => []TypeOK`), `CountSafe` (`[]NumNeverOverstates`)
and `NoPhantom` (`[]NoPhantomByte`). None of the three is inductive alone: that
`GetcStore` does not make `Num` negative or too large depends on what `reg` held
since the check, and that no slot is stale depends on how many slots from `Out`
on are known to hold received bytes. The invariant adds

- `ControlInv`: what the program counter says of the registers (the register is
  positive from the check to the store) and of the room left in the array;
- `CountInv`: `Num`, and the register copy while it will be written back, count
  no more than the bytes waiting, where the byte just taken is still counted
  between take and store;
- `ContentInv`: on its first lap each index equals the number of bytes that passed
  it, and every slot that a byte was ever stored in holds a received byte; with
  `CountInv`, Getc therefore never reads a slot of the first lap too early.

There is one lemma for the handler's store, one for Getc's read, and the other
steps are cases of `NextInv`. `LineWhole` (`[]FoundLineIsWhole`) rests on these and on
two more parts: `DataInv`, that until the reader is lapped the slots from `Out` on
hold the unread bytes in their order, and `LineInv`, that the part `FindCharacter` has
searched, and the newline it found, lie within what `Num` (or its register copy)
counts, so that Getc cannot report an empty buffer before it has reached the
newline. The assumption is `UsartAssumption` (sizes are
positive, the caller's array holds at least one character and the zero, 0 is not
sent); TLC evaluates it on each run.

`EthTxProofs` proves, for every number of descriptors and every frame that fits the
ring, `HandedOver` (`[]OkMeansHandedOver`) and `Refinement` (`Spec => ImplementsFifo`).
`FilledInv` says that the descriptors which `low_level_output` has looked at are still
the CPU's when `ETH_Prepare_Transmit_Descriptors` comes to them, which is why its
ignored result can never be an error; `RingInv(n)` that the DMA owns the n descriptors
from its own position on and that the driver stands at their end; `QueueInv(n)` that
the next descriptors of the DMA hold the abstract queue in order. Of `Ahead`, the
position modulo the ring, the provers need to know that it wraps at most once and that
different offsets give different descriptors.

`EthRxProofs` proves, for every number of descriptors and every frame size, `InStep`
(`[]RingInStep`), `Recognised` (`[]SegmentsRecognised`) and `Refinement`
(`Spec => ImplementsFifo`). Until a frame of several descriptors is mishandled
(`Undisturbed`) the CPU's descriptors are n successive ones before the DMA's position
(`RingInv`), they hold the waiting frames and then the segments of the first longer one
(`ContentInv`), and the driver's variables agree with that at each of its program points
(`CpuInv`); `FifoInv` is what the DMA still has to store. The proof needs one
assumption on the constants besides types: frames of several descriptors are considered
only in a ring of more than one, since a ring of one could never hold one.

Of `Netconf`, `MainLoopProofs` proves, for limits of 1 to 4 tries, every set of faults and any number of
commands and refusals, `PrintedAddress` (`[]PrintedAddressIsUsed`), `NeverRenewed`
(`[]LeaseNeverRenewed`), `NeverContested` (`[]NoContestedLease`) and the action
property `AddressStays` (`NetSpec => SettledAddressStays`). Lemmas say of each function of
`Dhcp` which fields of the netif it changes (`OnlyClient`). `ClientInv` says that
between two handlers no running client holds a lease and that the lease timers are
armed only while it is off, `SettledInv` that a settled state machine has stopped the
client, and `LeaseInv` that an earlier lease is gone from the interface and from
`printenv` before the client runs again, which is what keeps a contested address out.

`TftpProofs` proves, for every number of pcbs above one, every block and file size, any
number of transfers, losses, repetitions and packets that are not DATA,
`PcbsAccounted` (`[]OnePcbPerConnection`),
`LateDataHarmless` (`Spec => LateDataIgnored`), `DoneComplete` (`[]DoneMeansAllBlocks`) and
`SizeCovers` (`[]SizeCoversFile`). The hypothesis is `Patient`: the user waits for a
transfer to end before he starts the next, and there are at least two pcbs
(`MEMP_NUM_UDP_PCB` is 6), so that DHCP cannot hold the only one. Without the first
`OnePcbPerConnection` is false (section 5).

- The pool. `Owned` gives the free list and the list of bound pcbs as two disjoint
  sequences that together have every element, where the bound ones are those that the
  holders hold, each with its holder's port. One lemma each shows that `udp_new` with
  `udp_bind` (`OwnedBind`) and `udp_remove` (`OwnedRemove`) keep this. The model walks
  lists with a recursive function; `ReachIs` shows, by a least counterexample instead
  of an induction scheme, that the walk finds exactly the elements of the sequence.
  `Base` adds that only the latest transfer runs and that `tftp_upcb` is its pcb, so the
  ACK leaves from the right port.
- The transfers. Neither `DoneMeansAllBlocks` nor `SizeCoversFile` is inductive, because
  both depend on what is under way. `BlocksInv` says that the blocks received are the
  first j, that a DATA datagram follows blocks that were all received, and an ACK
  acknowledges one; `EndInv` that a transfer that is over has every block or was `cut`;
  `ExactInv` that without losses and repetitions there is one datagram for the block the
  server waits for, and that it is new, until the transfer is cut or the server gives up
  (the block that is then under way is still new); `SizeInv` compares `file_size`
  with the bytes of the first j blocks (`Counted`).

Of `Timers`, `MainLoopProofs` proves, for every width, tick, set of tasks and intervals,
`TimersTyped` (the types, on which the others rest), `NoTaskOverdue` (`[]NeverOverdue`) and `NoTaskEarly`
(`TimeSpec => NeverEarly`). The code only sees stamps modulo 2^32; the invariant's
part `AgeIsDistance` says that the unsigned difference is the true age modulo the
width, and `NeverOverdue` itself bounds the age so that the two are equal
(`DueIsAge`). The assumption that matters is that an interval plus the longest
hold-up of the loop fits the counter.

`EtharpProofs` proves, for every size of the table, every ageing limit and all sets of
hosts and stations, `NoSecondEntry` (`[]OneEntryPerAddress`), `NoPacketLeaked`
(`[]CopiesOwned`) and `FramesFollowAnnouncements` (`[]RightStation`). They hold only
together: a frame follows the latest announcement because every stable entry agrees
with it (`Current`), an announcement can update the only entry that matters because
there is no second (`Unique`), and a packet that is sent on the update is meant for that
address because it waits in a pending entry of its own next hop (`TableOK`). The
functions of one entry are shown to be replacements of one entry (`Replaced`), for
which one lemma says what keeps the invariant; the timer and `netif_set_down` only let
entries die (`ThinnedGood`). That `etharp_find_entry` always finds something to recycle
(`RecycledIn`) rests on minima of sets of numbers, from the well-foundedness of `<`.
`EtharpAssumption` bounds the table by 127 (`s8_t` indices) and ages by 255.

Of `ULoader`, `MainLoopProofs` proves `StartsNegotiated` (`[]RunsOnlyNegotiated`) for
every number of polls; `SeenByPlace` says which bits have been seen at each place of
`main`.

`IpReassProofs` proves, for every set of fragments, every number of reassembly structs
and every limit of pbufs, `CountLaw` (`[]CountExact`), `QueueKept` (`[]QueueSound`) and
`DisjointDelivery` (`[]DeliveredDisjoint`). The first two speak of the time until an
element is unlinked through a wrong predecessor (`broken`), which the code can do
(section 5), and not of what follows.

- The inductive invariant `Inv` adds `Filled`, every datagram in the list has a
  fragment: a fragment that is thrown away for an overlap must never be the only one of
  its datagram, since the code would then keep a datagram whose first fragment it reads
  without a test.
- `ChainedAscends`: a fragment that passes the test for overlaps leaves the queue
  ascending. `ValidDisjoint`: the validation does not compare the new fragment with the
  one before it; that pair is what the test for overlaps has looked at, and what that test
  leaves out (the successor of a new first fragment) the validation looks at.
- `CountExact` takes a sum over the list. `Total` is a recursive function, and what the
  proofs need of it (two sums over equal weights are equal, taking an element out or
  replacing it changes the sum by its weight) is proved from a least counterexample
  instead of an induction scheme. So is `LoopKeeps`, what every turn of the loop of
  `ip_reass_remove_oldest_datagram` keeps.

`PbufProofs` proves, for pools, heap, structs and buffers of every size, all requests
whose headers fit a buffer, and any number of references, the invariants of `PbufUse`:
`RefsAreExact` (`[]RefsExact`), `TotLenIsExact` (`[]TotLenExact`), `NothingIsLost`
(`[]NothingLost`), `PayloadIsInside` (`[]PayloadInside`), `HeapIsSound` (`[]HeapSound`)
and `ShortPacketEnds` (`[]EndedByShortPacket`). None of them is inductive alone: a
counter that is too low frees a pbuf which a chain still leads to, and then its memory,
its length and its place in the heap are another's. `MemoryInv` proves one invariant for
all, `MemInv`, that the memory is `Sound` for the references that the layers hold.

- The heap. `HeapOK` describes it as an ordered set of offsets: `next` is the offset
  that follows and `prev` its inverse, no two holes are neighbours, and `lfree` is the
  lowest. `mem_freeOK`, `mem_mallocOK` and `mem_trimOK` say that each function keeps this,
  which blocks are in use afterwards, and that the others keep their extent. What the
  run states with a walk along the list follows: the walk meets every struct from its
  start on (`WalkMeets`), so the search that starts at `lfree` misses no hole
  (`HeapNoRoomMissed`).
- The references. Between two turns of the loop of `pbuf_free` the counters do not match
  those who refer to the pbufs: the reference that the loop is about to drop has no
  holder any more. `Sound` therefore takes the references from outside as a parameter,
  and the loop holds one of them (`LoopOK`); each turn gives it back, or hands it on to
  the next pbuf of the chain while one pbuf fewer is in use, which is why the loop ends
  (`FreeSound`).
- The lengths. When the pool runs out, the chain that `pbuf_alloc` has built so far
  promises bytes that no pbuf holds. `TotOK` leaves out a set of pbufs for that, here the
  last one, and `PartGone` shows that freeing the chain removes all of it.
- The chains. `pbuf_cat`, `pbuf_chain` and `pbuf_realloc` change lengths along a chain,
  which is right only if the chain ends and no pbuf comes twice. `OwnChain` derives that
  from what `Own` says, since each pbuf on it has one predecessor and there are finitely
  many. The proofs do not assume that chains have no cycle.
- The read after free. `Kept` says that freeing leaves the length of a packet in its pool
  element, and `tftp_recv` allocates nothing between `pbuf_free` and the read.

The assumptions are `MemAssumption` (the heap is larger than one struct with data),
`PbufAssumption` (a buffer is larger than the headers, which `pbuf.c:259` asserts) and
`PbufUseAssumption` (requests ask for no more than the headers of `PBUF_TRANSPORT`).
The bounds on references and on pbufs in use are not needed.

Every invariant and every action property that a passing run checks is thus a theorem.
Only model-checked are the liveness properties (`CountedLineDelivered`, `AllGivenBack`,
`SentOnceFollowed`, `FallsBack`, `TransferCompletes`, `WaitEnds`, `BootEnds`,
`LoopServesAll`): they hold under fairness, which the prover does not handle.

## 5. Other disagreements met on the way

These were seen with the same models. The first five break a property that its
module still defines; to see the counterexample, put it in place of the
INVARIANTS and PROPERTIES of the module's configuration, with the constants given.

- `src/netconf.c:314`: after a NAK (`dhcp.c:203` takes the interface down) the static
  fallback sets the addresses but not the interface up, against the comment of
  `src/netconf.c:187`. `Netconf!UpWhenConfigured`, as in `MCNetconf.cfg`.
- `src/netconf.c:122`: a lease under ARP check is bound over the `static` command,
  which the report (`docs/report/latex/implementation.tex:42-43`) offers for switching.
  `Netconf!StaticSticks`, as in `MCNetconf.cfg`.
- `src/tftp.c:126`: a repeated block is counted twice, so `printenv` does not show
  "how many bytes the last file via TFTP was" (`implementation.tex:33`). It is not shown
  either when an ERROR in the middle, or any other short packet, ends the transfer
  (`src/tftp.c:145`): the client prints "done with receiving" with a part of the file.
  `Tftp!FileSizeExact`, as in `MCTftp.cfg`.
- `src/tftp.c:31`: each unanswered `tftp` keeps a pcb; when the pool is empty a NULL pcb
  is used and no request issued (`implementation.tex:35`). `Tftp!RequestIssued`
  with `Impatient = TRUE`, `NPcb = 2`, `MaxTransfers = 3`.
- `lwip/netif/etharp.c:575`: "Remove all ARP table entries of the specified netif", but
  `etharp_query` does not mark the entries it makes with the interface, so pending
  ones, with their packets, survive `netif_set_down`. `Etharp!DownClearsTable` (a
  PROPERTY), as in `MCEtharp.cfg`.

The rest has no property of its own.

- `lwip/core/ipv4/ip_frag.c:254`: `prev` is the last but one of the list whichever
  datagram is removed. When the last datagram is the one being received and the
  removed one is neither first nor last, the wrong element is unlinked (the
  assertions of lines 165-168 would notice). `broken` becomes TRUE.
- `ip_frag.c:559`: a fragment that is then thrown away as overlapping still sets the
  flag that the last fragment was received. With routes of different MTU a datagram
  can be passed up without its end.
- `ip_frag.c:372`: a new lowest fragment is not compared with its successor, although
  lines 56-58 say that overlapping fragments are thrown away. The queue then never
  validates.
- `ip_frag.c:122`: nothing calls `ip_reass_tmr`. Datagrams that stay incomplete hold up
  to 10 of the 12 receive buffers until others evict them.
- `src/tftp.c:98`, `:75`: the result of `pbuf_alloc` is not tested. `PbufUse` reaches
  states in which the heap has no room for an ACK; the action stops there.
- `stm32f4x7_eth.c:404`: a link that comes up at the last poll counts as a timeout.
- `stm32f4x7_eth_bsp.c:112`: the reset of the MAC is waited for without a limit; it
  does not end without the PHY's clock.
- `src/uLoader.c:202`: the number given to `read` is not bounded; the loop stands still
  while it prints.

- `src/tm_stm32f4_usart.c:404`: after a lost increment the test for free space
  passes while the buffer holds `Size` unread bytes, and the handler overwrites
  one (`lapped`). Masking the interrupt around line 297 would repair this and
  `usart_newline`.
- `src/tm_stm32f4_usart.c:311`: draining a full buffer without a newline into a
  larger array goes on to the end of the array with zeros, and counts them.
- `stm32f4x7_eth.c:1013`, `src/ethernetif.c:280-287`: `frame.descriptor` is the
  last descriptor of a frame; copying and giving back go on from there, so a frame
  of several descriptors is read from, and returns, the wrong ones.
- `stm32f4x7_eth.c:1130-1155`: FS and LS are set and never cleared, so a frame of
  several descriptors is cut at a bit from an earlier lap. Both are latent with the
  build's buffer size.
- `src/netconf.c:304`: the fallback counts `netif.dhcp->tries`, which every change
  of state resets; a server that keeps refusing keeps the board without address.
- `src/netconf.c:261`: the result of `dhcp_start` is ignored; when there is no pcb,
  or no memory for the first message, the client has no timer and the wait does
  not end. `FallsBack` is checked where neither happens.
- `src/tftp.c:149`: a short packet for an earlier transfer removes the pcb of the
  latest one. `OnePcbPerConnection` is checked for users who wait for a transfer
  to end.

## 6. Not modelled

- Transmission on the serial line: `printf` polls the hardware and shares no
  state with reception. The other USARTs are the same code for other registers.
- DHCP option parsing, message layout, renewal and rebinding (shown unreachable),
  the one-time `mem_malloc` of the client's struct at boot. An ACK whose `yiaddr` is
  0.0.0.0: the client would bind that address, `netconf.c`, which compares it with zero,
  would not notice and wait on while the lease timers run, and neither
  `LeaseNeverRenewed` nor `FallsBack` would hold. The lease timers'
  16-bit minute counters may wrap after 65536 minutes; the client is off then.
- UDP checksums, broadcast and connected pcbs; the wrap of the 2^14 ephemeral
  ports.
- A lost TFTP request: the client does not repeat it; the user does.
- `Delay` (`uLoader.c:266`), whose comparison fails when the counter overflows:
  nothing calls it.
- `LWIP_PLATFORM_ASSERT` (`arch/cc.h:91`) tests the message, which is never NULL,
  so no lwIP assertion stops the program. The models therefore take no credit for
  assertions: a use of a NULL pcb goes through.
- `ip_input`, `icmp_input` and header checks: each packet is tested, then passed on,
  answered or freed; nothing is remembered. The pbuf operations they make are among
  those of `PbufUse`.
- Of `ip_frag`, the allocation of the pbufs for the fragments, the custom pbufs that
  refer to the payload of the whole datagram, and `ERR_MEM`: only where a datagram is cut
  is modelled. Nothing else makes custom pbufs, so `Pbuf` has none, and its `Dealloc` not
  the branch of `pbuf_free` that calls their free function.
- The speed and duplex mode that `ETH_Init` reads from the PHY after the negotiation.
- DATA packets from a host other than the TFTP server.
- Functions that only copy or compare payload (`pbuf_copy`, `pbuf_take`, ...).
- TCP: compiled in, but no pcb is ever opened or listening. `tcp_tmr` finds empty
  lists, and a segment is answered with `tcp_rst`, which keeps no state.
- PPP, SNMP, IPv6, IGMP, AutoIP, DNS, the sequential and socket APIs, the SD card, LCD,
  audio and I/O expander drivers, the STM32 peripheral library and the headers:
  vendored, and unused by the loader or without behaviour. They are nine tenths of
  the repository's lines, so the share of lines that the map covers is small though
  it covers the loader's own logic and the parts of lwIP that it runs.

## 7. Plan

Done, with runs: serial console, Ethernet rings, address configuration, TFTP and pcbs, time base;
then packet buffers and heap, ARP, fragments, boot and main loop. Proved: the safety
properties of serial console, Ethernet rings with their refinement of `FrameFifo`,
address configuration, TFTP and pcbs, time base, ARP, fragments, boot, packet buffers and
heap. What those modules check and the prover can reach is proved; proofs follow the
modelling that is left.

Next, modelling:

1. `Netconf` with the pcb pool of `UdpPcb` in place of a choice, and with the interface
   of `Etharp`, so that the path from an ARP answer to `dhcp_arp_reply` is one model.
2. `ip_input` and `icmp_input` as users of `PbufUse` with their own guards, in place of
   any legal use.
