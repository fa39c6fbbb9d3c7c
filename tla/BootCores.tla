----------------------------- MODULE BootCores ------------------------------
(* The cores of the mesh from power-up to the application: thread 0 of each *)
(* runs the boot loader (apps/boot/boot.c) over its mailbox, a cache that   *)
(* writes back only when flushed, and its UART; the other threads exist     *)
(* once it has created them.                                                *)
EXTENDS BootLoader

CONSTANTS
  NumCores,     \* cores on the one board
  NumDRAMs,     \* TinselDRAMsPerBoard
  InboxSlots    \* requests a core's mailbox holds

ASSUME CoresAssumption ==
  /\ {NumCores, NumDRAMs, InboxSlots} \subseteq Nat \ {0}
  /\ NumCores % NumDRAMs = 0

VARIABLES
  power,  \* the session the worker boards are powered up for, 0 when off
  core,   \* core[c]: the boot loader's place, registers, mailbox and cache
  dram,   \* dram[d]: what has reached each memory
  uart    \* uart[c]: is there a byte from the host for thread 0?

coreVars == <<power, core, dram, uart>>

Cores == 0 .. NumCores - 1
CoresPerDRAM == NumCores \div NumDRAMs
DRAMOf(c) == c \div CoresPerDRAM

\* The loader of a core out of reset, or restarted after the application.
Restarted(boot) ==
  [NewBoot(boot.mem) EXCEPT !.instrs = boot.instrs, !.sent = boot.sent]
NewCore == [st |-> "boot", boot |-> NewBoot(<<>>), inbox |-> <<>>, wb |-> {}]

Off ==
  /\ power = 0
  /\ core = [c \in Cores |-> NewCore]
  /\ dram = [d \in 0 .. NumDRAMs - 1 |-> <<>>]
  /\ uart = [c \in Cores |-> FALSE]

\* boardctrld: powerEnable(1) for the client of session s, and powerEnable(0)
\* when its connection has gone.
PowerUp(s) ==
  /\ power = 0
  /\ power' = s
  /\ UNCHANGED <<core, dram, uart>>

PowerDown ==
  /\ power /= 0
  /\ power' = 0
  /\ core' = [c \in Cores |-> NewCore]
  /\ dram' = [d \in DOMAIN dram |-> <<>>]
  /\ uart' = [c \in Cores |-> FALSE]

-----------------------------------------------------------------------------
\* The mesh delivers a request to thread 0 of core c.
Arrive(c, req) ==
  /\ Len(core[c].inbox) < InboxSlots
  /\ core' = [core EXCEPT ![c].inbox = Append(@, req)]
  /\ UNCHANGED <<power, dram, uart>>

\* A message of core c leaves for the host.
Depart(c) ==
  /\ core[c].boot.sent /= <<>>
  /\ core' = [core EXCEPT ![c].boot.sent = Tail(@)]
  /\ UNCHANGED <<power, dram, uart>>

\* tinselWaitUntil(TINSEL_CAN_SEND).
CanSend(c) == core[c].boot.sent = <<>>

\* One turn of the command loop for any request but Start.
Command(c) ==
  /\ core[c].st = "boot"
  /\ core[c].inbox /= <<>>
  /\ LET req == Head(core[c].inbox) IN
     /\ req.cmd /= "Start"
     /\ req.cmd = "Load" => CanSend(c)
     /\ core' = [core EXCEPT ![c].boot = Exec(@, req), ![c].inbox = Tail(@)]
  /\ UNCHANGED <<power, dram, uart>>

\* What core c has stored that its memory does not hold yet.
Dirty(c) ==
  LET boot == core[c].boot
      mem == dram[DRAMOf(c)] IN
  {a \in DOMAIN boot.mem : Read(mem, a) /= boot.mem[a]}

\* Start: tinselCacheFlush queues the write-backs and does not wait.
Flush(c) ==
  /\ core[c].st = "boot"
  /\ core[c].inbox /= <<>>
  /\ Head(core[c].inbox).cmd = "Start"
  /\ core' = [core EXCEPT ![c].st = "flush", ![c].wb = Dirty(c)]
  /\ UNCHANGED <<power, dram, uart>>

\* One line reaches the memory.
WriteBack(c) ==
  \E a \in core[c].wb :
    /\ core' = [core EXCEPT ![c].wb = @ \ {a}]
    /\ dram' = [dram EXCEPT ![DRAMOf(c)] = WriteAt(@, a, <<core[c].boot.mem[a]>>)]
    /\ UNCHANGED <<power, uart>>

\* Without the load, the response does not wait for the write-backs.
LoadReturnsUnasked(c) == TRUE

\* The load of the last stored address misses, and its request is behind
\* the write-backs.  A core that stored nothing issues no load.
LoadReturns(c) == core[c].boot.lastDataStoreAddr /= 0 => core[c].wb = {}

\* The response to the host.
Respond(c) ==
  /\ core[c].st = "flush"
  /\ LoadReturns(c)
  /\ CanSend(c)
  /\ core' = [core EXCEPT ![c].st = "wait",
                          ![c].boot.sent = Append(@, <<"started">>)]
  /\ UNCHANGED <<power, dram, uart>>

\* The trigger: create the other threads, free the request, run the program.
Enter(c) ==
  /\ core[c].st = "wait"
  /\ uart[c]
  /\ uart' = [uart EXCEPT ![c] = FALSE]
  /\ core' = [core EXCEPT ![c].st = "app", ![c].inbox = Tail(@)]
  /\ UNCHANGED <<power, dram>>

\* The application returns: kill the threads, restart the loader.
Leave(c) ==
  /\ core[c].st = "app"
  /\ core' = [core EXCEPT ![c].st = "boot", ![c].boot = Restarted(@)]
  /\ UNCHANGED <<power, dram, uart>>

CoreStep(c) ==
  Command(c) \/ Flush(c) \/ WriteBack(c) \/ Respond(c) \/ Enter(c) \/ Leave(c)
=============================================================================
