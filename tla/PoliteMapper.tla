---------------------------- MODULE PoliteMapper ----------------------------
(* A POLite graph from its construction to the machine's memory             *)
(* (include/POLite/PGraph.h): the calls that build it, map() with its       *)
(* placement, routing tables and partitions, and write(), which loads them  *)
(* through the boot loaders.  One structure of the code (a device state, an *)
(* out edge, a header, a beat) is one word of memory.                       *)
EXTENDS PoliteTables, Placer, BootLoader

CONSTANTS
  Programs,        \* the applications: sequences of calls that build a graph
  Configs,         \* boards in use (POLITE_BOARDS_X, POLITE_BOARDS_Y) and
                   \* placement method (POLITE_PLACER)
  DRAMChoices,     \* sets of regions the application maps to DRAM
  MeshY, BoxX, BoxY, ThreadsPerCore, ThreadsPerDRAM,
  SRAMBase, SRAMPart, SRAMStack,  \* words: SRAM, a thread's part, its stack
  DRAMTop, DRAMPart, DRAMStack,
  RouterBase, RouterChunk,        \* the routers' tables; beats per store
  MaxStore,                       \* words per store request (15)
  PinBaseLimit                    \* values of a pinBase (2^16)

ASSUME MeshAssumption == NumMailboxes = BoxX * BoxY

VARIABLES
  phase, calls,  \* what the application is doing
  graph,         \* outgoing edges with pins and labels, by device
  config,        \* boards in use and placement method
  pl,            \* the placer at work
  subs, todo,    \* subgraph of each board; boards not mapped yet
  from,          \* fromDeviceAddr: the devices of each thread
  tables,        \* routing tables under construction
  next,          \* number of (device, pin) pairs routed, of heaps written
  heaps,         \* the partitions' contents and addresses
  ram            \* the memory of each DRAM of each board

vars == <<phase, calls, graph, config, pl, subs, todo, from, tables, next,
          heaps, ram>>

Threads == 0 .. MeshX * MeshY * NumMailboxes * ThreadsPerMailbox - 1
Boards == {BoardAt(x, y) : x \in 0 .. config.boards[1] - 1,
                           y \in 0 .. config.boards[2] - 1}
DRAMOf(t) == t \div ThreadsPerDRAM
DRAMs == {DRAMOf(t) : t \in Threads}
NoPlacer == [stage |-> "none", mapping |-> <<>>]
Devices == DOMAIN graph

Init ==
  /\ phase = "start" /\ calls \in Programs /\ graph = <<>>
  /\ config \in Configs
  /\ pl = NoPlacer /\ subs = <<>> /\ todo = <<>>
  /\ from = [t \in Threads |-> <<>>]
  /\ tables = <<>> /\ next = 0 /\ heaps = <<>>
  /\ ram = [m \in DRAMs |-> <<>>]

Fail == phase' = "failed"

------------------------------------------------------------------------------
(* Construction                                                             *)

\* setNumBoards
SetNumBoards ==
  /\ phase = "start"
  /\ phase' = IF config.boards[1] > MeshX \/ config.boards[2] > MeshY
              THEN "failed" ELSE "build"
  /\ UNCHANGED <<calls, graph, config, pl, subs, todo, from, tables, next,
                 heaps, ram>>

NewDevice ==
  /\ phase = "build" /\ calls # <<>> /\ Head(calls).op = "newDevice"
  /\ calls' = Tail(calls)
  /\ graph' = Append(graph, <<>>)
  /\ UNCHANGED <<phase, config, pl, subs, todo, from, tables, next, heaps, ram>>

Edge(call, label) == [to |-> call.to, pin |-> call.pin, label |-> label]

\* addEdge: the label is left as it was allocated.
AddEdge ==
  /\ phase = "build" /\ calls # <<>> /\ Head(calls).op = "addEdge"
  /\ calls' = Tail(calls)
  /\ IF Head(calls).pin >= NumPins
     THEN Fail /\ UNCHANGED graph
     ELSE /\ graph' = [graph EXCEPT ![Head(calls).from] =
                        Append(@, Edge(Head(calls), "none"))]
          /\ UNCHANGED phase
  /\ UNCHANGED <<config, pl, subs, todo, from, tables, next, heaps, ram>>

AddLabelledEdge ==
  /\ phase = "build" /\ calls # <<>> /\ Head(calls).op = "addLabelledEdge"
  /\ calls' = Tail(calls)
  /\ graph' = [graph EXCEPT ![Head(calls).from] =
                Append(@, Edge(Head(calls), Head(calls).label))]
  /\ UNCHANGED <<phase, config, pl, subs, todo, from, tables, next, heaps, ram>>

------------------------------------------------------------------------------
(* Placement: a part of the graph per board, then per mailbox and thread    *)

Topology == [labels |-> [d \in Devices |-> d],
             out |-> [d \in Devices |->
                       [i \in DOMAIN graph[d] |-> graph[d][i].to]]]

\* The Placer of the boards; chooseMethod refuses a method it does not know.
PartitionBoards ==
  /\ phase = "build" /\ calls = <<>>
  /\ \/ /\ config.method = "unknown" /\ Fail /\ UNCHANGED pl
     \/ /\ config.method # "unknown"
        /\ \E parts \in Partitions(config.method, Topology,
                                   config.boards[1], config.boards[2]) :
             pl' = NewPlacer(Topology, config.boards[1], config.boards[2], parts)
        /\ phase' = "boards"
  /\ UNCHANGED <<calls, graph, config, subs, todo, from, tables, next, heaps, ram>>

\* The steps of place().
PlaceStep(p) ==
  /\ phase \in {"boards", "boxes"}
  /\ pl' = p
  /\ UNCHANGED <<phase, calls, graph, config, subs, todo, from, tables, next,
                 heaps, ram>>

StartAttempt == pl.stage = "shuffle" /\ \E m \in Shuffles(pl) : PlaceStep(Shuffle(pl, m))
SweepCell == pl.stage = "sweep" /\ pl.cells # <<>> /\ PlaceStep(VisitCell(pl))
SweepEnd == pl.stage = "sweep" /\ pl.cells = <<>> /\ PlaceStep(EndSweep(pl))
EndAttempt == pl.stage = "judge" /\ PlaceStep(Judge(pl))

\* Every board has its part; the boards are then mapped one by one.
BoardsPlaced ==
  /\ phase = "boards" /\ pl.stage = "placed"
  /\ phase' = "boxes"
  /\ subs' = [c \in DOMAIN pl.mapping |->
               Subgraph(pl.graph, pl.parts, pl.mapping[c])]
  /\ todo' = [k \in 1 .. config.boards[1] * config.boards[2] |->
               <<(k - 1) % config.boards[1], (k - 1) \div config.boards[1]>>]
  /\ pl' = NoPlacer
  /\ UNCHANGED <<calls, graph, config, from, tables, next, heaps, ram>>

PartitionBoxes ==
  /\ phase = "boxes" /\ pl.stage = "none" /\ todo # <<>>
  /\ \E parts \in Partitions(config.method, subs[Head(todo)], BoxX, BoxY) :
       pl' = NewPlacer(subs[Head(todo)], BoxX, BoxY, parts)
  /\ UNCHANGED <<phase, calls, graph, config, subs, todo, from, tables, next,
                 heaps, ram>>

ThreadId(board, box, n) ==
  ((board[2] * MeshX + board[1]) * NumMailboxes + box[2] * BoxX + box[1])
    * ThreadsPerMailbox + n

\* The mailboxes of a board are placed: a part per thread, not placed again,
\* and the devices of each thread in the order of its subgraph.
BoxesPlaced ==
  /\ phase = "boxes" /\ pl.stage = "placed"
  /\ LET sub(c) == Subgraph(pl.graph, pl.parts, pl.mapping[c])
         choices(c) == Partitions(config.method, sub(c), ThreadsPerMailbox, 1)
         boxes == Cells(BoxX, BoxY)
     IN  \E tp \in [boxes -> UNION {choices(c) : c \in boxes}] :
           /\ \A c \in boxes : tp[c] \in choices(c)
           /\ from' = [t \in Threads |->
                LET owners == {cn \in boxes \X (0 .. ThreadsPerMailbox - 1) :
                                ThreadId(Head(todo), cn[1], cn[2]) = t}
                IN  IF owners = {} THEN from[t]
                    ELSE LET cn == CHOOSE o \in owners : TRUE
                         IN  Subgraph(sub(cn[1]), tp[cn[1]], cn[2]).labels]
  /\ todo' = Tail(todo)
  /\ pl' = NoPlacer
  /\ UNCHANGED <<phase, calls, graph, config, subs, tables, next, heaps, ram>>

\* toDeviceAddr
Addr == [d \in Devices |->
          LET t == CHOOSE u \in Threads : d \in ToSet(from[u])
          IN  [thread |-> t, id |-> CHOOSE i \in DOMAIN from[t] : from[t][i] = d]]

------------------------------------------------------------------------------
(* Routing tables                                                           *)

AllocateRoutingTables ==
  /\ phase = "boxes" /\ pl.stage = "none" /\ todo = <<>>
  /\ phase' = "route"
  /\ tables' = NewTables(Threads, Boards, Devices)
  /\ subs' = <<>>
  /\ UNCHANGED <<calls, graph, config, pl, todo, from, next, heaps, ram>>

ComputeRoutingTables ==
  /\ phase = "route" /\ next < Len(graph) * NumPins
  /\ tables' = RoutePin(tables, graph, Addr, next \div NumPins + 1, next % NumPins)
  /\ next' = next + 1
  /\ IF tables'.ok THEN UNCHANGED phase ELSE Fail
  /\ UNCHANGED <<calls, graph, config, pl, subs, todo, from, heaps, ram>>

------------------------------------------------------------------------------
(* Partitions                                                               *)

\* A thread's out-edge array: its devices' lists, pin by pin.
OutLists(t) == [k \in 1 .. Len(from[t]) * NumPins |->
                 tables.out[from[t][(k - 1) \div NumPins + 1]][(k - 1) % NumPins]]

Sum(s) == FoldLeft(+, 0, s)
PinBase(t, id, p) ==
  Sum([k \in 1 .. (id - 1) * NumPins + p |-> Len(OutLists(t)[k])]) % PinBaseLimit

Regions == <<"vertex", "header", "rest", "out">>

\* The words a region takes.  The senders array, which is not initialised,
\* follows the device states.
RegionSizeNoSenders(t, r) ==
  CASE r = "vertex" -> Len(from[t])
    [] r = "header" -> Len(tables.headers[t])
    [] r = "rest"   -> Len(tables.rest[t])
    [] r = "out"    -> Len(FlattenSeq(OutLists(t)))

RegionSize(t, r) ==
  CASE r = "vertex" -> 2 * Len(from[t])
    [] r = "header" -> Len(tables.headers[t])
    [] r = "rest"   -> Len(tables.rest[t])
    [] r = "out"    -> Len(FlattenSeq(OutLists(t)))

\* Where each region of a thread starts: the thread structure is first in
\* SRAM, and a region follows the one before it in the same memory.
Layout(t, inDRAM) ==
  LET part == t % ThreadsPerDRAM
      step(acc, r) ==
        IF r \in inDRAM
        THEN [acc EXCEPT !.base = (r :> acc.dram) @@ @,
                         !.dram = @ + RegionSize(t, r)]
        ELSE [acc EXCEPT !.base = (r :> acc.sram) @@ @,
                         !.sram = @ + RegionSize(t, r)]
      sram == SRAMBase + part * SRAMPart
      dram == DRAMTop - (part + 1) * DRAMPart
      end  == FoldLeft(step, [base |-> "thread" :> sram, sram |-> sram + 1,
                              dram |-> dram], Regions)
  IN  [base |-> end.base, fits |-> /\ end.sram - sram <= SRAMPart - SRAMStack
                                   /\ end.dram - dram <= DRAMPart - DRAMStack]

\* initialisePartitions: the contents of each region, each a word that
\* says what it is.
Image(t, base) ==
  [thread |-> << <<"thread",
      [devices |-> base["vertex"], out |-> base["out"], header |-> base["header"],
       rest |-> base["rest"], numDevices |-> Len(from[t]),
       senders |-> base["vertex"] + Len(from[t])]>> >>,
   vertex |-> [i \in DOMAIN from[t] |->
                <<"vertex", [p \in Pins |-> PinBase(t, i, p)]>>],
   header |-> [i \in DOMAIN tables.headers[t] |-> <<"header", tables.headers[t][i]>>],
   rest   |-> [i \in DOMAIN tables.rest[t] |-> <<"rest", tables.rest[t][i]>>],
   out    |-> LET edges == FlattenSeq(OutLists(t))
              IN  [i \in DOMAIN edges |-> <<"out", edges[i]>>]]

AllocatePartitions ==
  /\ phase = "route" /\ next = Len(graph) * NumPins
  /\ \E inDRAM \in DRAMChoices :
       LET layout == [t \in Threads |-> Layout(t, inDRAM)]
       IN  IF \E t \in Threads : ~layout[t].fits
           THEN Fail /\ UNCHANGED heaps
           ELSE /\ heaps' = [t \in Threads |-> [base |-> layout[t].base,
                               image |-> Image(t, layout[t].base)]]
                /\ phase' = "write"
  /\ next' = 0
  /\ UNCHANGED <<calls, graph, config, pl, subs, todo, from, tables, ram>>

------------------------------------------------------------------------------
(* write(): the heaps, then the routers' tables, through the boot loaders   *)

HeapOrder == <<"vertex", "thread", "header", "rest", "out">>

\* The inner loop of writeRAM: a store of at most MaxStore words at a time.
StoreReqs(words, n) ==
  [k \in 1 .. (Len(words) + n - 1) \div n |->
    Req("Store", SubSeq(words, (k - 1) * n + 1,
                        IF k * n < Len(words) THEN k * n ELSE Len(words)))]

\* writeRAM: what one core is sent for a heap.  The address is set once per
\* thread, and the loader moves it on.
HeapReqs(core, h) ==
  FlattenSeq([k \in 1 .. ThreadsPerCore |->
    LET t == core * ThreadsPerCore + k - 1
    IN  <<Req("SetAddr", <<heaps[t].base[h]>>)>> \o
        StoreReqs(heaps[t].image[h], MaxStore)])

Load(mem, reqs) == FoldLeft(Exec, NewBoot(mem), reqs).mem

WriteHeap ==
  /\ phase = "write" /\ next < Len(HeapOrder)
  /\ ram' = [m \in DRAMs |->
       FoldLeft(LAMBDA mem, core : Load(mem, HeapReqs(core, HeapOrder[next + 1])),
                ram[m], [i \in 1 .. ThreadsPerDRAM \div ThreadsPerCore |->
                          m * (ThreadsPerDRAM \div ThreadsPerCore) + i - 1])]
  /\ next' = next + 1
  /\ UNCHANGED <<phase, calls, graph, config, pl, subs, todo, from, tables, heaps>>

\* ProgRouterMesh::write: fixed-size stores, so the last may run past the
\* table and write what follows it in the host's buffer.
RouterReqs(beats) ==
  LET pad == (RouterChunk - (Len(beats) % RouterChunk)) % RouterChunk
  IN  <<Req("SetAddr", <<RouterBase>>)>> \o
      StoreReqs([i \in DOMAIN beats |-> <<"beat", beats[i]>>] \o
                [i \in 1 .. pad |-> <<"garbage">>], RouterChunk)

WriteRouters ==
  /\ phase = "write" /\ next = Len(HeapOrder)
  /\ ram' = [m \in DRAMs |-> IF m \div 2 \in Boards
       THEN Load(ram[m], RouterReqs(tables.routers[m \div 2].beats[(m % 2) + 1]))
       ELSE ram[m]]
  /\ phase' = "done"
  /\ UNCHANGED <<calls, graph, config, pl, subs, todo, from, tables, next, heaps>>

Finished == phase \in {"done", "failed"} /\ UNCHANGED vars

Work == \/ SetNumBoards \/ NewDevice \/ AddEdge \/ AddLabelledEdge
        \/ PartitionBoards \/ BoardsPlaced \/ PartitionBoxes \/ BoxesPlaced
        \/ StartAttempt \/ SweepCell \/ SweepEnd \/ EndAttempt
        \/ AllocateRoutingTables \/ ComputeRoutingTables \/ AllocatePartitions
        \/ WriteHeap \/ WriteRouters

Next == Work \/ Finished

Spec == Init /\ [][Next]_vars

------------------------------------------------------------------------------
(* What the loaded machine does                                             *)

\* Up to n words of one kind from an address on, as a softswitch indexes them.
View(mem, base, n, kind, other) ==
  SubSeq([i \in 1 .. n |-> LET w == Read(mem, base + i - 1)
                           IN  IF w[1] = kind THEN w[2] ELSE other], 1, n)

\* The structure a thread finds at the base of its SRAM partition, and the
\* tables it points to.
NoThread == [devices |-> 0, out |-> 0, header |-> 0, rest |-> 0,
             numDevices |-> 0, senders |-> 0]

ThreadOf(t) == View(ram[DRAMOf(t)], SRAMBase + (t % ThreadsPerDRAM) * SRAMPart,
                    1, "thread", NoThread)[1]

ThreadView(t) ==
  LET th == ThreadOf(t)
      mem == ram[DRAMOf(t)]
  IN  [pinBase |-> View(mem, th.devices, th.numDevices, "vertex", [p \in Pins |-> 0]),
       out     |-> View(mem, th.out, DRAMPart, "out", Terminator),
       headers |-> View(mem, th.header, InvalidKey, "header", NoHeader),
       rest    |-> View(mem, th.rest, DRAMPart, "rest", [id |-> 0, label |-> "junk"])]

RouterView(b) == [beats |-> [i \in 1 .. 2 |->
  View(ram[2 * b + i - 1], RouterBase, RouterBeats, "beat", <<>>)]]

\* Where a message on pin p of device d ends, by the tables in memory:
\* threads, devices on them, and edge labels.
Delivered(threads, routers, at, p) ==
  LET th   == threads[at.thread]
      outs == OutEdges(th.out, th.pinBase[at.id][p] + 1)
      msgs == FlattenSeq([i \in DOMAIN outs |->
                Messages(routers, BoardOf(at.thread), outs[i])])
      Found(u, key) ==
        LET rs == Receivers(threads[u].headers, threads[u].rest, key)
        IN  [i \in DOMAIN rs |-> <<u, rs[i].id, rs[i].label>>]
      Ends(m) == FlattenSeq([k \in 1 .. Cardinality(Threads) |->
        IF k - 1 \in m.mask THEN Found(k - 1, m.key) ELSE <<>>])
  IN  FlattenSeq([i \in DOMAIN msgs |-> Ends(msgs[i])])

Expected(addr, d, p) ==
  LET edges == SelectSeq(graph[d], LAMBDA e : e.pin = p)
  IN  [i \in DOMAIN edges |-> <<addr[edges[i].to].thread, addr[edges[i].to].id,
                                edges[i].label>>]

(* A message sent on a pin reaches exactly the devices the application      *)
(* connected to it, each once per edge and with that edge's label, when the *)
(* tables map() built are read back from the machine's memory: out-edge     *)
(* lists and pin bases, in-table headers and their overflow, the routing    *)
(* keys and the routers' records, hop by hop.                               *)
TablesDeliver ==
  phase = "done" =>
    \A threads \in {[t \in Threads |-> ThreadView(t)]},
       routers \in {[b \in Boards |-> RouterView(b)]}, addr \in {Addr} :
      \A d \in Devices : \A p \in Pins :
        \A got \in {Delivered(threads, routers, addr[d], p)},
           sent \in {Expected(addr, d, p)} : ToBag(got) = ToBag(sent)

(* write() leaves every thread's partition in memory as it was initialised, *)
(* whatever the stores, threads and regions that share a DRAM, and nothing  *)
(* but the thread itself uses the words of its senders array.               *)
ImageLoaded ==
  phase = "done" => \A t \in Threads :
    /\ \A h \in ToSet(HeapOrder) : \A i \in DOMAIN heaps[t].image[h] :
         Read(ram[DRAMOf(t)], heaps[t].base[h] + i - 1) = heaps[t].image[h][i]
    /\ ThreadOf(t).numDevices = Len(from[t])
    /\ \A i \in DOMAIN from[t] :
         Read(ram[DRAMOf(t)], ThreadOf(t).senders + i - 1) = <<"unset">>

(* The local search ends: every step of a sweep that is followed by another *)
(* one lowers the cost, or leaves it and uses up the change that called for *)
(* a further sweep, or leaves both and visits one cell more.  All through   *)
(* it the placement is one: the mesh and the coordinates of the parts       *)
(* agree, the current cost is the placement's, and an attempt that is not   *)
(* kept leaves the best one before it.                                      *)
SearchConverges ==
  [][/\ Consistent(pl')
     /\ pl.stage = "sweep" /\ pl'.stage = "sweep" =>
          \/ pl'.cost < pl.cost
          \/ pl'.cost = pl.cost /\ pl.change /\ ~pl'.change
          \/ /\ pl'.cost = pl.cost /\ pl'.change = pl.change
             /\ Len(pl'.cells) < Len(pl.cells)]_vars
=============================================================================
