# TLA+ models of tinsel

Tinsel is a many-thread message-passing machine on a mesh of FPGA boards:
RISC-V cores with hardware threads, mailboxes shared by groups of cores, a mesh
of mailboxes on each board, a mesh of boards joined by 10G Ethernet links, and a
host connected over PCIe through a bridge board. The design is written in
Bluespec SystemVerilog (`rtl/`), the host side in C++ (`hostlink/`), the library
for applications in C (`include/`). This directory holds models of its
protocols, the TLC configurations that check them on small instances, and proofs
that TLAPS checks for every instance. Paths below are relative to the
repository; `PROJECT.json` maps each definition to the lines it translates.

## 1. Inventory

| Part | State | Operations | What is hard |
|---|---|---|---|
| Reliable link, `rtl/ReliableLink.bsv` | ring of unacknowledged items (`nextPtr`, `ackPtr`, `backPtr`), timer, transmitter and receiver state machines, receive buffer and its credit count | accept an item, send header / body beats, time out, receive header / body beats, hand an item out | lost packets, retransmission, late acknowledgements, finite sequence numbers, credit taken long before the data arrives |
| MAC interface, `rtl/Mac.bsv` | ring with `frontPtr`, `nearBackPtr`, `farBackPtr`, `drop` | enqueue a beat, end a packet, hand out a beat | errors known only with the last beat; a packet as long as the ring |
| Idle detection, `rtl/IdleDetector.bsv` | per board: colour, count, token queue, state, acknowledgements; master: round state, totals, votes | probe, answer, announce (stage 1), acknowledge, release (stage 2) | distributed snapshot of counts taken at different times; two-phase barrier; one-cycle pulses |
| Mailbox, `rtl/Mailbox.bsv` | scratchpad slots, free slots, reference counts, multicast queues, sleep queue, idle waiters | allocate, deliver to several threads, receive, free, send, sleep, wake | pipelines without back pressure, slots shared by receivers, a queue cycled while events arrive |
| Core, `rtl/Core.bsv` | run queue, suspended threads, resume queues | fetch, execute, retry, suspend, resume, create and kill threads | a thread in exactly one place; multi-cycle instructions |
| Data cache, `rtl/DCache.bsv` | tags, dirty bits, data, miss / fill / response queues | load, store, miss, evict, fill, flush | metadata read stages before it is written; queues sized by assumption |
| Programmable router, `rtl/ProgRouter.bsv` | flit buffer, beat buffer, indirection queue per fetcher | take a message, fetch records, interpret, emit | bounded buffers, activity reported to the idle detector |
| Network, `rtl/Network.bsv` | route locks, link queues | route flits, lock an output for a message | deadlock, interleaved messages |
| Bridge board, `rtl/DE5BridgeTop.bsv` | host injection state, flit and message counts, padding | inject, forward to host, UART commands | token and host traffic share a link |
| PCIe stream, `rtl/PCIeStream.bsv`, `hostlink/pciestreamd.cpp` | two DMA buffers per direction and their length registers, the client's socket | read, trigger, drain, fill, write, accept, reset | ownership hand-over, partial reads and writes, a client that goes in mid-message |
| HostLink, `hostlink/HostLink.cpp` | send buffer, place in the boot sequence, line buffers | send, receive, self test, load, start, go, poll output | replies that come while requests are sent; a program killed at any point |
| Boot loader, `apps/boot/boot.c` | address register, instruction and data memory, last stored address | write, store, load, set address, start | the response must come after the write-backs of a flush that does not wait |
| DebugLink, `rtl/DebugLink.bsv`, `hostlink/DebugLink.cpp`, `hostlink/boardctrld.cpp` | command interpreters, UART queues, one client per box, tables from boards to links | query, temperature, broadcast, output, connect, power up and down | boards that answer in any order, packets that come byte by byte, clients that go |
| POLite mapper, `include/POLite/PGraph.h`, `Placer.h`, `ProgRouters.h` | graph, placement, in and out tables, router tables, partitions | build, place, route, allocate, write | keys shared by threads, tables of several boards that must fit together, sizes computed apart from contents |
| POLite softswitch, `include/POLite/PDevice.h` | devices, senders stack, send slot, out edge, time | init, send, receive, step, finish, idle | one slot read later by the mailbox, release racing messages of the next step |
| Applications, `apps/POLite/` | device states | the handlers of the softswitch | results independent of the order of messages |

Boards exchange flits over reliable links, each of which sits on a MAC. A core
calls its mailbox client unit; the mailbox sends flits into the board's mesh and
counts sent and freed messages for the board's idle detector. Idle tokens travel
as flits between the idle-detect master on the bridge board and the boards. The
host injects and takes messages at the bridge board, which reports them to the
master. A host program opens a DebugLink to the boxes' board-control daemons,
which powers up the boards, and a stream through the PCIe daemon; through the
boot loaders it writes code, data and, for POLite, the partitions and routing
tables the mapper has made, and then starts the threads, whose softswitches call
the handlers of the application's devices.

What makes the modelled parts correct:

- link: each direction is a FIFO stream, nothing lost, repeated or reordered,
  and everything accepted is delivered in the end;
- MAC buffer: exactly the good packets come out, whole and in order, and the
  buffer does not block;
- mailbox: every thread gets the messages for it once and in order; a slot is
  free exactly when nobody needs it; no sleeping thread is forgotten;
- idle detection: termination is announced only if no message exists and every
  thread waits; it is announced if that is so; the vote is the conjunction of
  all votes; no message crosses the barrier; everyone is released;
- host stream and boot: no byte is lost, repeated or seen by another client; no
  core runs before everything is loaded; the boot ends;
- DebugLink: the tables name the right boards; each thread's output is whole;
  boxes become free again;
- mapper: a message reaches exactly the devices connected to its pin, through
  the tables as they are in the machine's memory; placement ends;
- softswitch: the handlers are called as the graph of devices prescribes, and
  the host gets the right answers.

The hazards, each at its line with the properties aimed at it, are listed in
`PROJECT.json`.

## 2. Modules

| Module | Models | Note |
|---|---|---|
| `ReliableStream` | what a link promises, one direction | abstract |
| `ReliableLink` | both ends of `ReliableLink.bsv` and the wire | implements two `ReliableStream`s |
| `PacketBuffer` | what the MAC receive buffer promises | abstract |
| `MacReceiveBuffer` | `mkReceiveBuffer` of `Mac.bsv` | implements `PacketBuffer` |
| `IdleDetector` | detectors, master, idle logic of the mailbox client, gating of messaging instructions, host traffic | composes five source files |
| `LocalMulticast` | what a mailbox promises the threads it serves | abstract |
| `Mailbox` | receive path, free unit, sleep and wakeup units of `Mailbox.bsv`, with `QueueArray.bsv` | implements `LocalMulticast` |
| `ProgRouters` | router tables of `ProgRouters.h` and the walk of a router over them | used by the next two |
| `PoliteTables` | in and out tables of `PGraph.h`, and what a softswitch reads there | used by mapper and softswitch |
| `Placer` | partitioning and local search of `Placer.h` | used by the mapper |
| `BootLoader` | one core's boot loader, `boot.c` | used by mapper and host |
| `PoliteMapper` | `PGraph`: construction, `map()`, `write()` | composes the four above |
| `PoliteApps`, `PoliteJobs` | handlers and host programs of nine applications, reference answers | used by the next three |
| `DeviceGraph` | a graph of devices, as the simulator runs it | abstract |
| `SoftSwitch` | `PThread::run` on every thread, with mailbox slot and barrier | uses `PoliteTables` |
| `SoftSwitchSimulation` | the refinement of `DeviceGraph` by `SoftSwitch` | |
| `PCIeStream` | sockets, `pciestreamd`, DMA buffers, bridge FPGA | |
| `BootCores` | the cores of a board from power-up to the application | uses `BootLoader` |
| `HostLink` | a host program that boots the machine, killed at any point | composes `PCIeStream` and `BootCores` |
| `JtagBoards` | UART command interpreters of worker and bridge boards | |
| `BoardCtrl` | `boardctrld` of each box | composes with `JtagBoards` |
| `DebugLink` | `DebugLink.cpp` and `pollStdOut` of a host program | composes with `BoardCtrl` |
| `MC...` | constants for TLC | |
| `CommonTheorems` | facts about `%` used for rings, sums over finite sets, occurrences in queues, the least-number argument | proofs |
| `BoardStreamTheorems` | one board and the program: commands and replies as streams of packets and of bytes | proofs |
| `ReliableLinkProofs`, `MacReceiveBufferProofs`, `IdleDetectorProofs`, `MailboxProofs`, `HostLinkProofs`, `DebugLinkProofs` | theorems of section 5 | proofs |

A few definitions are not part of the models: the "as" forms under "mutants" in
`PROJECT.json`. Each is a plausible defect of the definition that follows it,
used to confirm that a property notices it.

### ReliableLink

One variable per register, indexed by the end. Pointers are kept as the number
of items counted since reset, `Ptr(n)` is the register's value, and comparisons,
differences and RAM indices are made on `Ptr`, as the code does on
`LogTransmitBufferSize` bits. Items are numbered, so that a wrong one can be
told from the right one. Actions are the rules: `FillTransmitBuffer`,
`TimerExpires` (`updateTimer`), `Transmit0/1/2`, `Receive0/1/2`, and
`StreamOutGet`. `readNext`, which runs every cycle, is part of the rules that
call `take` and `enableTimeout`; restarting at `ackPtr` after a timeout is
`AfterPacket`. `wire[e]` holds whole packets in order; `Lose` drops the
first, which stands for a CRC error or overflow in the MAC and for the random
loss of the simulated MAC; short packets are padded as `Mac.bsv` does. Cycle
counts are abstracted: the timer may expire whenever it runs, an empty
acknowledgement may be sent whenever there is nothing else to send. The 16-bit
timer and performance counters are left out.

### MacReceiveBuffer

The three pointers are counts with `Ptr` as in the link. `WriteToOutputPort`,
`EnqBeat` and `EnqLast(err)` are the rule and the method `enq` split on
`beat.stop`. `err` is the disjunction of the error bits the code looks at.
`cur`, `good` and `out` are history variables, the state of `PacketBuffer`.

### IdleDetector

Messages are counted by place: `net[s][d]` on their way, `mbox[t]` delivered,
`held[t]` received, `freeing[b]` freed but not yet counted by the free unit. A
thread is `idle` (suspended in `tinselIdle`) or running; the instructions are
`Send`, `Recv`, `Free`, `Sleep`, and the first, second and fourth are disabled
while `idleDetected` holds for its core, as in `Core.bsv`. `Wake` is the wake-up
unit of the mailbox client. Per board, `TokenArrives`, `ForwardToken`,
`DetectedStage1`, `AckStage1` and `EndBarrier` are the states of `forward`,
`sendToken` and `updateAcks`; `Release` is `doRelease`, and it is a part of
every action by which a flit arrives at a board. The master is `Probe`,
`Response` and `LastResponse`. Host messages may be injected and taken in the
very cycle of a response (parameters `ins` and `outs`), since that is where
`disableHostMsgsWire` matters. The registers `boardX`, `boardY` are one counter.
The reduction trees for counts, activity and votes have equal depth and are
modelled without delay; the path a flit takes between boards is left open, so
any flit between boards may be seen as activity by any board.

Initially the threads have been started and are active, hence every board is
black. The master has been enabled and has not yet probed.

### Mailbox

Arrival is `ReceiveFlit` and `ReceiveFinalFlit` (`receive0` with
`updateRefCount`, which writes the reference count one cycle later, before any
thread can have the message). `Mcast0/1/2` and `EnqStage2` take an entry of a
core's multicast buffer to the queues of its threads; `EnqStage2` waits while
the queue is full, as the code does by trying again every cycle. A queue of
`QueueSize` entries holds one fewer. `Serve0/1/2` are the states of
`serveReceive` with the dequeue stages of the queue array: pointers are read in
one step and used in later ones. `FreeRead` and `FreeWrite` are the two states of
rule `free`. In the client unit, `Sleep` is the method `sleep` called by the
`WaitUntil`, `CanRecv` and `Recv` instructions, `Wakeup1`, `Wakeup2` and
`Respond` the rules; the priority of `sleepUnit` decides only which of them goes
first and is covered by interleaving. Requests to free are one queue in the order
of issue (in the code a merge tree, with retry when it is full). The transmit
unit appears as `Send` and `TransmitResponse`, which change `canThreadSend`;
idle events are in `IdleDetector`.

Programs follow the API: a thread issues `Recv` only when told that it can, and
frees each message once. It may hold several messages, wait while holding them,
or never ask. `scratchpad` holds the number of the message in every flit, so
that overwriting is visible; `held` keeps what the thread found there. Registers
and RAM entries that will be written before they are read again are set to
`Stale`.

A behaviour worth knowing, found with an earlier form of `EventuallyReady`: a
thread that waits for "send or receive" while it can send is woken for that, and
its queue is not looked at (`wakeup1` tests the events before it asks the
receive unit). A program that loops on such a wait and acts only on what it is
told would never see its messages; it has to use can-receive too, as the API's
`void tinselWaitUntil` makes it do.

### PoliteMapper and its parts

`graph` is built by `NewDevice`, `AddEdge` and `AddLabelledEdge`, in the order
of the program's calls. `map()` is `PartitionBoards` to `AllocatePartitions`.
Metis is an external library, so its partition is any function to the parts;
random placement is any bijection. Each turn of the placer's loops is a step
(`StartAttempt`, `SweepCell`, `SweepEnd`, `EndAttempt`), so that the search
itself can be checked. `ComputeRoutingTables` does one pin of one device:
destinations are split in local and remote, sorted, grouped by mailbox and
thread, given a key that is free on every receiving thread, and the remote ones
get a tree of router records. `write()` is `WriteHeap`, once per kind of region,
and `WriteRouters`; both send requests that the model of the boot loader
executes on the memory of each DRAM. A structure of the code takes one word of
that memory, which keeps the order, the sizes and the overlaps of regions and
drops the layout inside a structure. `TablesDeliver` and `ImageLoaded` read the
memory back as a softswitch and a router would (`ThreadView`, `RouterView`,
`Walk`).

### SoftSwitch, DeviceGraph and the applications

A thread's `pc` is its place in `run()`; `SendNext`, `StartMulticast`, `GoIdle`,
`Receive`, `Deliver`, `StepDevices`, `FinishDevice` and `Sleep` are its
branches. `Leave` is the mailbox, which reads the send slot at some later time,
and `Release` the barrier, as `IdleDetector` shows it to be: all threads idle,
no message anywhere. The copies a message makes and the receivers it finds come
from the tables of `PoliteTables`, made for the job's placement. `DeviceGraph`
is the specification: devices that send, receive and step, messages in a bag.
It is what `sim_step` of the simulator does. In `SoftSwitchSimulation` the
history variable `graph` holds the image of the threads' state: a message in a
slot, in the network or half received stands for one message to each of its
receivers left, a released thread counts as stepped.

The devices of nine applications are `PoliteApps`, translated handler by
handler; numbers keep their width where the code could wrap (`Int32`), divisions
of temperatures are exact for the chosen values, sets of nodes stand for bit
vectors, and `rand()` is a choice. `PoliteJobs` has the host programs: graph, initial states,
number of replies, and reference answers computed from the graph alone.

`DeviceGraph` differs from the code of the simulator in one respect that no
modelled application meets: a device whose step handler returns false while it
leaves `readyToSend` set is still served by the softswitch (`PDevice.h:362`).

### HostLink, PCIeStream and BootCores

A byte is its session and its place in the stream. The daemon is `Reset`,
`Accept`, `TxRead`, `TxSend`, `TxClosed`, `RxWrite`, `RxClosed` and `NotAlive`,
the calls of its loop, whose order is abstracted to any; the bridge is
`TakeHeader`, `TakePayload`, `FromLink`, `FillRx` and `FlushRx`. DMA transfers
are atomic, and so is the wait for transfers in flight before a reset. A core is
`Command`, `Flush`, `WriteBack`, `Respond`, `Enter` and `Leave`: write-backs are
queued by a flush and reach memory one by one, and the load by which the loader
waits for them misses and is behind them. The host program is a script of calls
(self test, buffered writes, `loadAll`, `startAll`, `go`); its actions are the
steps of one call: write what fits, fail, poll, receive what is there.

Assumptions on time, each the guard of one action: boards take seconds to power
up, by which time the daemon has noticed that the clients before have gone
(`BoardsReady`); the daemon sleeps half a second before its second reset, by
which time the boards of a dead client are powered down (`AcceptClient`). The
path back from the mesh holds the replies of the self test.

### DebugLink, BoardCtrl and JtagBoards

A box has a daemon and a chain of boards in any order, one of them the bridge.
A board takes a command byte by byte (`UartRecv`), answers (`SendReply`) and
sends the characters of its cores (`BeginStdOut`, `ContinueStdOut`) through the
same state. The daemon moves packets between client and UART queues
(`FromClient`, `ToClient`, `Serve`), swallows overheat reports, and powers down
when the client has gone. TCP carries whole packets, since both ends loop until
a packet is complete; `Serve` handles all links in one step, as the loop body
does. A bridge command takes effect with its last byte. The client is the
constructor, one action per turn of each of its loops, then `AskTemp`,
`GetTemp`, `SetBroadcastDest`, `Put` and `PollStdOut`.

A program may end at any step: a signal (`Kill`), an assertion or `exit`
(`Fail`), a box that has closed the connection (`Disconnected`), a table entry
of -1 used as a coordinate (`NotFound`). `boardctrld` then powers its workers
down, but no one resets the bridge of a box other than the master's (that one is
reset by `pciestreamd` for the next client): a program killed between a query or a
temperature request to such a bridge and its reply leaves the reply, or half of
it, to the next program on that box. The model has that: `PowerUp` and `PowerDown`
leave the bridge's registers and UART alone, and the rest of a command or a
byte that begins no packet (`ServerExits`) may be there. What follows from it
is the first note of section 6. `Spec` is the code. `CleanSpec` is `Spec` without the
steps in which a box whose bridge is not at rest (`AtRest`) is connected to: a
hypothesis on what the next program meets, not something the code ensures.

## 3. Runs

| Run | Bounds | Shows |
|---|---|---|
| `reliable_link` | ring 4, packets of at most 2, receive buffer 3, 5 items from A, wire of 2 packets A to B and 1 back | `TypeOK`, `NoReceiveOverflow`, `NoAliasing`, `PacketsIntact`, `AckSound`, `Streams`; about 2.1 million states |
| `reliable_link_live` | ring 2, packets of 1, 3 items | `EventuallyDelivered` |
| `mac_receive_buffer` | ring 4, 8 beats | `WholePackets`, `EventuallyReady`, `EventuallyOut` |
| `idle_detector` | 2 boards, one of them with 2 cores, 3 threads, 1 message, both votes | `DetectionSound`, `BarrierSafe`, `ReleaseSound`, `OneToken`, `VoteUnanimous`, `TypeOK`; about 0.6 million states |
| `idle_detector_live` | as before, votes true | `IdleDetected`, `EventuallyReleased` |
| `mailbox` | 2 threads, 2 receive slots behind 1 send slot, queues of 1, buffer of 1, 3 messages of 2 flits to one or both threads | `TypeOK`, `SlotsAccounted`, `HeldIntact`, `Multicast`; about 0.9 million states |
| `mailbox_sleep` | 2 threads, thread 0 sends, 3 messages for thread 1 | `OnePlace`, `ReceiveReady`, `NoLostWakeup`, `EventuallyReady` |
| `polite_mapper` | mesh of 2 x 2 boards of 2 mailboxes of 2 threads; 5 graphs of 2 or 3 devices; 15 combinations of boards in use and placement method; 2 placement attempts; beats of 3 chunks, tables of 4 beats | `TablesDeliver`, `ImageLoaded`, `SearchConverges`; about 130,000 states |
| `softswitch` | 10 jobs of 9 applications, 3 or 4 devices on 2 or 3 threads, on 1 or 2 boards; network of 2 messages | `SendersExact`, `Answers`, `Simulates`, `EventuallyAnswered`; about 130,000 states |
| `host` | 2 clients; 1 board with 2 cores and 1 memory; flits of 2 bytes, DMA buffers of 2 flits, sockets of 3 bytes; code of 1 word, data of 2, heap of 1 | `StreamIntact`, `LoadedBeforeRun`, `BootCompletes`; about 280,000 states |
| `debug_link` | 2 clients, the first killed where no bridge owes a reply; 2 boxes of a worker and a bridge, in either order; UARTs and connections that hold 1 byte and 1 packet; 2 characters per thread | `TopologySound`, `ClientsServed`; about 450,000 states |
| `debug_link_leftover` | as before, but the first program is killed while replies are awaited, boxes in use are not tried again and no worker is hot | `WorkersInPlace`, `OutputIntact`: a program that meets the leftovers of a bridge may fail, but a worker in its tables is in its right place, no link leads astray and no character goes astray; about 2.1 million states |

Why the bounds are enough for the cases of interest. Link: five items in a ring
of four wrap every pointer; two packets in flight with a third under
construction allow a stale retransmission to overtake an acknowledgement; the
receive buffer holds one item more than a packet, the least the code admits;
items flow from A to B only, and empty acknowledgement packets from B to A (the
proof has no such bound). MAC buffer: eight beats are twice round the ring and
include packets of 1 to 8 beats, that is, up to and beyond the limit of 3.
Idle detector: the message goes from thread to thread, or to or from the host,
with one board having answered and the other not; two cores on one
board make acknowledgements and votes of a board a matter of several cores. More
messages are left to the proofs, which cover every safety property of the run.
Rounds are unbounded: the state space includes any number of probe rounds and
barriers. Mailbox: three messages in two slots make a slot be used again, a queue that
holds one is full with the second message, and a message to both threads is
freed by one while the other has not received it. The sleep run adds a second
thread that waits for send, so that the sleep queue holds threads waiting for
different events. Both runs have one core: cores share only the slots, the free
unit and the readiness to receive. Mapper: the graphs have parallel edges, self
loops, cycles, two pins, more keys than a word of a bitmap holds, and more
records than a beat, and every partition puts receivers on one thread, one
mailbox, one board or several; boards need records of one and of two hops; one
graph and two configurations are refused, and some tables are too large. A key is
too small to need an indirection (`MaxKeyBeats` is 31). Softswitch: threads with
two devices and with none, receivers of one message on one thread and on two
boards, and applications that step by the barrier, by counting messages, or not
at all. Host: sockets hold a flit and a half, so reads and writes
are partial; 15 requests of two flits go round the double buffers several times; the first client
may be killed after any step. DebugLink: with two boxes the replies of one may
all come before those of the other; a UART of one byte makes every packet
partial; the second client comes while boxes are still held; a line buffer of 2
is cut by the text of one box and ended by a newline on the other. Both orders of
the chain make the leftover of a bridge come before or after the worker's reply.
`Lengths`, `DestSets` and `Senders` bound what
the network and the programs do. `WireCap`, `MaxItems`, `MaxBeats`, `MaxMsgs` and `Votes` are bounds of
the models, not of the code; so are `MaxSessions`, `MaxTime`, `NetCap`, `KillAt`
and the sizes of sockets, UARTs and connections.

`CHECK_DEADLOCK FALSE` is used where a bound on items or beats lets the model
come to rest; in the `idle_detector` and `mailbox` runs deadlock is checked, as
the master never stops probing and threads and the sleep queue never stop, and
in `polite_mapper`, where `Finished` marks the intended ends. The last client,
or the last reply, is the end of the others.

## 4. Fairness

- Rules of the design are weakly fair: a Bluespec rule that can fire does.
- Link: the user of `streamOut` keeps taking items. A packet that would be
  accepted, or whose acknowledgement is news, is not lost for ever (strong
  fairness of `Accept` and `Acknowledge`): without it a dead wire would refute
  every delivery claim. `FillTransmitBuffer` and `Lose` have no fairness.
- MAC buffer: the output port is taken from; arrivals have no fairness.
- Idle detector: the network delivers, the sleep queue is cycled for ever, so a
  thread whose event has come is woken. Nothing is assumed of the program
  (it may run for ever, hold messages, never receive) or of the host.
- Mailbox: the transmit unit answers (its pipeline is drained by the network).
  Programs keep polling and receive what they are told of, both strongly fair
  since a thread may do other things in between; `EventuallyReady` assumes in
  addition that threads free what they hold, as a program that keeps all slots
  blocks the mailbox.
- Softswitch: cores, mailboxes and routers go on as long as any of them can
  (weak fairness of the next-state relation): no property depends on a choice
  between them.
- Host: the program goes on while it can, and so do daemon, bridge and cores
  (one weak fairness condition each). Nothing makes a program start, be killed
  or time out.
- DebugLink: client, daemons and boards go on while any of them can; overheating
  and killing are not fair.

## 5. Theorems

All for every value of the constants allowed by the `ASSUME`s:

- link and MAC buffer (`SizeAssumption`, `BoundAssumption`, `BufferAssumption`):
  ring of at least 2, packets of at least one item, receive buffer larger than a
  packet;
- idle detector (`ShapeAssumption`): finitely many boards, cores and threads,
  every board with a core and every core with a thread, placed in any way;
- mailbox (`MailboxAssumption`): a core, a thread, a slot to receive into, request
  queues of more than one item;
- host link (`StreamAssumption`, `CoresAssumption`, `HostAssumption`): sizes are
  not zero and a socket holds a flit. The script of the host program is any;
- debug link (`BoardsAssumption`, `BufferAssumption`, `LinkAssumption`): sizes are
  not zero; a coordinate fits its bits of a board's
  identity; `boardctrld` serves a board only while its buffer has room for a packet;
  the program asks for no more boxes than a row of the cluster has, and their
  offsets fit a nibble, which the constructor asserts. Where programs are killed
  (`KillAt`) is not restricted; the theorems state their hypothesis on leftovers.

*Link* (`ReliableLinkProofs`). `Invariance` is `Spec => []IInv`; from it follow
`TypeCorrect`, `NoOverflow`, `SequenceNumbersUnambiguous`, `PacketsAreIntact`
and `AcksAreSound`, and `LinkImplementsStreams` shows that each step is a step
or a stutter of both streams. None of the properties is inductive. The core of
`IInv` is why modular sequence numbers suffice:

- `Window`: neither `nextPtr` nor `ackPtr` is a whole ring behind `backPtr`.
  Both are needed: a timeout takes `nextPtr` back to `ackPtr`, and an
  acknowledgement of an earlier transmission may then take `ackPtr` past
  `nextPtr`; this is why `canEnq` looks at both.
- `InFlight`, `Sending`: a packet's sequence number is less than a ring behind
  what the receiver expects, and less than a ring behind the end of every packet
  before it on the wire. The second part makes the first inductive: when an
  earlier packet is accepted, `nextItemToRecv` becomes the end of that packet.
- `Acks`: acknowledgements on the wire are in order, at least `ackPtr` and at
  most `nextItemToRecv`, so taking any of them is safe.
- `Ring`, `Receiving`, `Output`: the last ring of items is in its slots, and the
  accepted items are in the beats to come or in the receive buffer, whose credit
  counts both.

*MAC buffer* (`MacReceiveBufferProofs`). `BufferInvariance` proves `BufferInv`:
the ring holds the good beats not handed out, then the beats of the arriving
packet, and the prefetch register holds the next good beat; an oversized packet
stops one beat short of filling the ring. `BufferImplementsPackets` is the
refinement.

*Idle detector* (`IdleDetectorProofs`). `Invariance` proves `IInv`; `Typing`,
`Tokens`, `Barriers`, `Releases`, `Unanimity` and `Detects` follow. Detection uses
the counts and colours of Safra's algorithm, not in a ring but in rounds: the
master sends a token to every board, each answers when it is idle, and the host's
own messages are counted by the master. The parts of `IInv`:

- `RoundInv`: which boards have been probed, have answered and are counted is
  recorded in no register but follows from where the tokens are; tokens carry the
  stage and vote of the master.
- `ColourInv`: a board is white only while its threads are in `tinselIdle`.
- `Conservation`: the messages boards and host have counted, less those boards
  are still freeing, are the messages in the mesh, the mailboxes and the threads.
- `SafraInv`: while all a round has seen is white, the count it is heading for is
  at least 1, or it is 0 and `Clean` holds: all threads are idle, there is no
  message, and the votes taken are still those of the threads. A message that
  wakes a thread behind the master's back is counted where it was sent, so the
  total is then at least 1 until a black answer is seen. This makes the master's
  test conclusive, and with `ColourInv` carries over from round to round.
- `StageInv`, `BarrierInv`: where boards and cores are in the two stages of the
  barrier; between them no message exists, threads leave `tinselIdle` core by
  core, and the vote is the conjunction of the votes of the threads. `SafraInv`
  establishes them at the step that starts the barrier.

*Mailbox* (`MailboxProofs`). `IInv` is the conjunction of

- `WaitInv`: a suspended thread is in exactly one of the sleep queue, the
  requests of its core and the answers to it, and a running one in none
  (`PlaceInv`, which is stronger than `OnePlace` in that it counts); what a
  thread was told to be there is still there (`SureInv`), which needs that only
  its own requests take items from its queue (`AskInv`, `ServeInv`);
- `McastInv`: what a core's multicast stages hold is for threads of that core;
- `RefInv`: a thread has at most one reference to a slot, counted over the places
  it can be in: the multicast buffer, the stage before the queue, the queue, the
  receive unit, the answer, the thread's hands. Only so does adding a thread to a
  multicast, and dequeuing, move one reference and not several, which
  `SlotsAccounted` needs to be inductive;
- `FreeInv`, `SlotsAccounted`, `HeldIntact`: the count of a slot is the number of
  references; it is in the free list, once, exactly when there are none; so a slot
  that is written is one nobody holds.

`Typing`, `Whereabouts`, `Readiness`, `Accounting` and `Integrity` state the
properties of the runs. `Capacity` is about no run: a core's sleep queue never
has more entries than the core has threads, and the free list never more than
there are slots, which is what justifies that the code gives them just these
sizes and enqueues without looking.

*Local multicast* (`MailboxProofs`). `ImplementsMulticast` shows that `Mailbox`
implements `LocalMulticast`: `ReceiveFinalFlit` is the arrival of a message,
`Respond` to a `Recv` its receipt, everything else a stutter. `IInv` counts the
references to a slot, which is not enough: that the *next* message is received
depends on their order. `WayInv` (theorem `OnTheWay`) says where they are.
`At(t, p, s)` is slot `s` at place `p` of its way to thread `t`: the receive unit
(place 0), the entries of the queue counted from `ramFront`, the enqueue stage,
the multicast unit, the entries of the multicast buffer. The parts:

- `OrderInv`: a slot at a later place holds a message that arrived later, and at
  one place is one slot;
- `DueInv`: the messages due to a thread are exactly those at its places, and all
  later than those it has received;
- `FlitInv`: the slot at the front of the free list holds the message that is
  arriving, also while slots are freed behind it.

A step of the multicast unit or of the queue only renames places (`Moved`), in
order, since the place it moves a slot to is empty. That a flit written by
`receive0` changes no message on its way is `SlotsAccounted` again: a slot with a
place is in use (`ComingInUse`), and the slot at the front of the free list is not.

*Host stream* (`HostLinkProofs`). `Intact` says that bytes arrive once, in order
and at the right client for every number of clients, every size of flit, buffer
and socket, and wherever a client is killed. Its `IInv`:

- `BoardInv`: the daemon and the bridge use the two DMA buffers of a direction in
  turn (`TxRing`, `RxRing`), and each place on the way up (`UpSocket`,
  `UpBuffers`) and down (`Down`) holds the bytes of the served client that follow
  those in the place ahead of it. Each is a statement `Seg(q, i, n, s, k)`: the
  first `n` entries of `q` after `i` are the bytes of client `s` that follow its
  byte `k`;
- `WaitingInv`: clients that have not been accepted have their bytes from the
  first one on in their socket, and nothing has come down to them;
- `PowerInv`: boards are powered up for the served client, or for the next one
  while the old connection is still being closed, and then nothing has been sent;
- `HostInv`: a call never writes more than its message.

*DebugLink* (`BoardStreamTheorems`, `DebugLinkProofs`). Both properties are proved
under a hypothesis on what earlier programs leave behind: without one
`TopologySound` is false (the first note of section 6), and `OutputIntact` is only
model-checked (run `debug_link_leftover`). `TopologyIsSound` and `OutputIsIntact`
are about `CleanSpec`: programs are killed anywhere, and a box is connected to
only when its bridge is at rest. `UndisturbedTopology` and `UndisturbedOutput` are about `Spec`, in which
nothing restricts the steps, when `Undisturbed`: programs are killed only where no
bridge owes a reply (`KillAt` within `askTemp`, `setDest`, `put`, `poll`), or the
only box is the master's, whose bridge is reset. They follow from `Invariance` and
`UndisturbedInvariance`. Neither property is inductive: both say
what the program has made of bytes that were sent long before, and that were cut
and joined on the way by the interleaving of the boards of a box, by partial reads
and writes, and by heat warnings between the packets. `IInv` is the conjunction of

- `TypeOK`, which contains `ChainOK` (what hangs on a link never changes), and
  `TurnOK`: the loops of the program stay within their bounds;
- `PortsOK`: for each board, `n` commands have been sent to it and `g[ch]` packets
  of each of its streams have been got (`ch` is the stream of replies or a core).
  `Down` says that what is on the connection, in the queue of `boardctrld`, in the
  UART and in `recvState`, in this order, is what the board has yet to execute: on
  the connection as whole packets mixed with those of other boards (`Carry`), below
  as bytes that fall into packets (`Cut`), the last of them perhaps begun.
  `Registers` says that offset, links, destination and started cores are those of
  the commands executed. `Up` is the same on the way back, one stream per core and
  one of replies, mixed with each other and with warnings; it needs `OneAtATime`:
  a reply is under way only while no character is. `Progress` ties `n` and
  `g[Replies]` to the stage of the program, and `Printed` ties `g[c]` to the line
  buffers. A board of a box the program is not connected to may still be told what
  was sent before, but a bridge has answered everything (`Lone`), unless it is
  `Stale`: the bridge of a box without the program, or the master's before its
  reset, of which is only known that it prints nothing and that what `boardctrld`
  still has for it are commands for a bridge (`Dormant`). `CleanStart`, or the
  reset, turns such a bridge into one with nothing to answer;
- `TablesOK`: the tables are empty, then fill box by box, then name every board. A
  reply is matched to a board by its link and identity alone; that the next packet
  of a link is the answer to its query is `PortsOK`;
- `ServerOK`, `ConnectionOK`: a box that listens has new queues and workers, and the
  program meets either the byte of a box that is ready or packets of known streams.

A step changes one board or the packets of one connection, so the proofs are about
one board (`BoardStreamTheorems`: taking a byte, printing, replying, serving, each as
a change of a `View`), and then put the boards together. A thread
prints two characters (`Text`), on the first box without a newline, so what becomes
of a line buffer (`TextLines`) is a case distinction; texts of any length would need
induction over data.

Each candidate for an invariant was checked by TLC before it was proved: on
`IdleDetector` with two cores and two messages (808276 states) and on its two runs
(583233 and 50945), on the run of
`HostLink` (277061), for `Mailbox` on the run `mailbox` with one message less and
on two cores of one thread each (214712 and 1250188), on the run `debug_link`
of `DebugLink` with kills at `put` only and without `Stale` (250720), and `WayInv`, with the
places up to the end of the way, on the run `mailbox` with one message less and on
the run `mailbox_sleep` (214712 and 55016). As induction over data is out of reach,
sums over sets and flattened queues are reasoned about by the least number with a
property (`LeastNumber` in `CommonTheorems`): the sum over a set is the last of
running sums along some enumeration of it, and two sums that differ would differ
at a first place.

Only model-checked:

- liveness and everything else under fairness (out of reach of the prover);
- `LoadedBeforeRun` of `HostLink`, which depends on the whole script;
- `PoliteMapper` and `SoftSwitch`, which reach recursive operators (`Placer`,
  `PoliteJobs`, `PoliteTables`, `ProgRouters`).

## 6. Not modelled, and the plan

Out of scope: instruction semantics, FPU, multiplier, block RAM, instruction
memory and off-chip memory wrappers (vendor primitives), JTAG UART, simulation
sockets, power and fan tools, FPGA projects under `de5/`, the kernel driver of
the DMA buffer, programs written without POLite, POLite applications on floating
point, programs for PCs.

Parts of modelled components that are left out: the per-core forms of loading
and starting, `keySend` and bulk receive of HostLink; `setDest` and UART input of
DebugLink; statistics of POLite; byte layouts of records and structures.

Noted while reading the code, and not the subject of a run:

- `boardctrld.cpp:253` and `:280` power the worker boards only, so a reply left in
  the bridge of a box other than the master's reaches the next program. A program
  killed in `getBridgeTemp` of such a box leaves the two bytes of the temperature;
  the daemon of the next client forwards them, and the constructor, which has sent
  its queries, takes them for the reply of a board:
  `assert(pkt.payload[0] == DEBUGLINK_QUERY_OUT)` (`DebugLink.cpp:237`) fails. A
  reply to a query left over in the same way passes the assertion and is one reply
  too many. With `KillAt = {"getTemp"}` in `MCDebugLink.cfg` TLC shows the first
  case as a violation of `AssertionsHold`; how far the effect goes is bounded by
  `WorkersInPlace` and `OutputIntact` in `debug_link_leftover`.
- `HostLink.cpp:291`: without the send buffer the header is written with 0 in
  place of the routing key, so `keySend` has an effect only when buffered.
- `HostLink.cpp:634`: `store` with more than 15 words sends the first 15 again
  and again, as the data pointer is not moved on. No caller passes more.
- `rtl/DebugLink.bsv:433`: a temperature asked for while a character is being
  sent cuts both packets. `SendReply` models it; the program of the run asks
  before it starts the threads, as `apps/temps` does.
- `boardctrld.cpp:165`: while one board does not take its bytes, no packet of
  the client is read, and its end is not noticed either unless a board sends.
- `pciestreamd.cpp:186`: bytes pending in a half-full buffer are dropped when a
  client closes right after sending.
- `ProgRouters.h:50`: the indirection is opened at the beat that fills a key,
  also if no record follows; tables that large are beyond the bounds of the run.
- `PGraph.h:402` and `:542`: `pinBase` and the number of receivers are 16 bits
  wide and not checked.
- `heat-gals/Heat.h:30`: the counts of messages received have 8 bits, the
  fan-in 16.
- `asp-gals`: the program does not end if some source does not reach a device.
- `rtl/ProgRouter.bsv:383` and `:710`: a key of no beats keeps its buffer slot;
  a fetcher is reported inactive while its last beat is interpreted. They belong
  to a model of the fetchers.

Next, in this order:

1. Fetchers of the programmable router in `IdleDetector` (activity and counts),
   and their flit buffer, beat buffer and indirection queue.
2. The transmit pipeline of the mailbox and the scratchpad access of the cores.
3. `DCache` against a memory specification, one request per thread.
4. Mesh routers with route locks; tokens between the flits of a host message.
5. `Core` scheduling.
6. The link composed with the MAC buffer, where the bound on packet sizes
   (`TransmitBound` plus two header beats against the ring) belongs.

Theorems to come: `LoadedBeforeRun` for a script that loads before it starts;
tables and walks of the POLite side as recursive functions, so that
`SendersExact` can be stated as a theorem.
